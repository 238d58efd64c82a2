---------------------------- MODULE LaunchProofs ----------------------------
(***************************************************************************)
(* For every number of workers, targets and timing: slow start ends at     *)
(* full speed however it ends, and the caps and the intervals of the       *)
(* workers, which know nothing of each other, keep the client within cc    *)
(* and within cps.                                                         *)
(***************************************************************************)
EXTENDS Launch, FiniteSetTheorems, FunctionTheorems, WellFoundedInduction, TLAPS

(* The larger and the smaller of two numbers, as the model writes them.    *)
LEMMA MaxOfTwo ==
  ASSUME NEW a \in Int, NEW b \in Int
  PROVE  Max({a, b}) = IF a >= b THEN a ELSE b
  <1> DEFINE m == IF a >= b THEN a ELSE b
  <1>1. m \in {a, b} /\ \A y \in {a, b} : m >= y
    OBVIOUS
  <1>2. \A x \in {a, b} : (\A y \in {a, b} : x >= y) => x = m
    OBVIOUS
  <1> QED
    BY <1>1, <1>2 DEF Max

(* ... and the smaller.                                                    *)
LEMMA MinOfTwo ==
  ASSUME NEW a \in Int, NEW b \in Int
  PROVE  Min({a, b}) = IF a <= b THEN a ELSE b
  <1> DEFINE m == IF a <= b THEN a ELSE b
  <1>1. m \in {a, b} /\ \A y \in {a, b} : m =< y
    OBVIOUS
  <1>2. \A x \in {a, b} : (\A y \in {a, b} : x =< y) => x = m
    OBVIOUS
  <1> QED
    BY <1>1, <1>2 DEF Min

(* A nonempty set of naturals has a smallest element.                      *)
LEMMA MinOfNats ==
  ASSUME NEW S, S \subseteq Nat, S # {}
  PROVE  Min(S) \in S /\ \A y \in S : Min(S) =< y
  <1> DEFINE R == OpToRel(<, Nat)
  <1>1. IsWellFoundedOn(R, Nat)
    BY NatLessThanWellFounded
  <1>2. PICK x \in S : \A y \in S : ~(<<y, x>> \in R)
    <2> HIDE DEF R
    <2> QED BY <1>1, WFMin, Zenon
  <1>3. R = {ss \in Nat \X Nat : ss[1] < ss[2]}
    BY Zenon DEF OpToRel
  <1>4. \A y \in S : x =< y
    <2> HIDE DEF R
    <2> TAKE y \in S
    <2>1. <<y, x>> \notin R
      BY <1>2
    <2>2. <<y, x>> \notin {ss \in Nat \X Nat : ss[1] < ss[2]}
      BY <2>1, <1>3, Zenon
    <2>3. y \in Nat /\ x \in Nat
      OBVIOUS
    <2> QED BY <2>2, <2>3
  <1> QED
    BY <1>4 DEF Min

(* Division of a natural, and the multiples that shares are made of.       *)
LEMMA Quotient ==
  ASSUME NEW g \in Nat, NEW n \in Nat \ {0}
  PROVE  /\ g \div n \in Nat
         /\ (g \div n) * n <= g
         /\ g >= n => g \div n >= 1
  OBVIOUS

(* A share is no more than the whole, and something when there is enough.  *)
LEMMA QuotientSmaller ==
  ASSUME NEW g \in Nat, NEW n \in Nat \ {0}
  PROVE  /\ g \div n <= g
         /\ n <= g => g \div n > 0
  OBVIOUS

(* The shares of all workers but one.                                      *)
LEMMA OneLess ==
  ASSUME NEW v \in Nat, NEW n \in Nat \ {0}
  PROVE  v * (n - 1) = v * n - v /\ v * (n - 1) \in Nat
  OBVIOUS

(* Fewer workers together have no more.                                    *)
LEMMA TimesMonotone ==
  ASSUME NEW v \in Nat, NEW a \in Nat, NEW b \in Nat, a <= b
  PROVE  v * a <= v * b
  OBVIOUS

(* Products of natural numbers.                                            *)
LEMMA TimesNat ==
  ASSUME NEW a \in Nat, NEW b \in Nat
  PROVE  /\ a * b \in Nat
         /\ a > 0 /\ b > 0 => a * b > 0
  OBVIOUS
-----------------------------------------------------------------------------
ClType == [cc : Nat, num : Nat, interval : Nat, default : Nat, next : Nat]

LaunchTypes ==
    /\ target \in Targets /\ tsc \in Nat /\ launchNum \in Nat
    /\ DOMAIN cl \subseteq Workers /\ cl \in [DOMAIN cl -> ClType]
    /\ next \in [Workers -> 0 .. SOCKET_NUM - 1]
    /\ busy \in [Workers -> SUBSET (0 .. SOCKET_NUM - 1)]
    /\ ctl \in [at : {"wait_start", "slow", "run", "stop"}, i : Nat, wake : Nat]

(* A second has a cycle for every connection: the interval of client_init, *)
(* a quotient of g_tsc_per_second, does not round to 0.  The code relies   *)
(* on it and no option check states it.                                    *)
CyclesSuffice == \A t \in Targets : t.cps <= TSC_PER_SEC

(* The control thread starts when all workers are ready, and leaves slow   *)
(* start only with every worker at its own interval.                       *)
Speed ==
    /\ ctl.at # "wait_start" => DOMAIN cl = Workers
    /\ ctl.at \in {"run", "stop"} => \A w \in Workers : cl[w].interval = cl[w].default
    /\ CyclesSuffice =>
          \A w \in DOMAIN cl : cl[w].num > 0 => cl[w].default > 0 /\ cl[w].interval > 0

SpeedInv == LaunchTypes /\ Speed

(* What LaunchAssumption says of the targets of this test.                 *)
LEMMA TargetType ==
  ASSUME target \in Targets
  PROVE  /\ CPS \in Nat \ {0} /\ CC \in Nat /\ SOCKET_NUM \in Nat \ {0}
         /\ target.launch \in Nat
         /\ CPU_NUM \in Nat \ {0} /\ TSC_PER_SEC \in Nat \ {0}
         /\ SLOW_START \in Nat \ {0} /\ WAIT \in Nat \ {0}
         /\ DEFAULT_LAUNCH_MIN \in Nat \ {0} /\ DEFAULT_LAUNCH_MAX \in Nat \ {0}
         /\ DEFAULT_LAUNCH \in Nat \ {0}
  BY LaunchAssumption DEF CPS, CC, SOCKET_NUM

(* client_assign_task gives every worker a natural number of tasks, and    *)
(* none more than there are.                                               *)
LEMMA ShareType ==
  ASSUME NEW w \in Workers, NEW g \in Nat, CPU_NUM \in Nat \ {0}
  PROVE  AssignTask(w, g) \in Nat /\ AssignTask(w, g) <= g
  <1> DEFINE v == g \div CPU_NUM
  <1>1. v \in Nat /\ v * CPU_NUM <= g /\ v <= g
    BY Quotient, QuotientSmaller
  <1> HIDE DEF v
  <1>2. v * (CPU_NUM - 1) = v * CPU_NUM - v /\ v * (CPU_NUM - 1) \in Nat
    BY <1>1, OneLess
  <1>3. g - v * (CPU_NUM - 1) \in Nat /\ g - v * (CPU_NUM - 1) <= g
    BY <1>1, <1>2, TimesNat
  <1>4. w \in Int
    BY DEF Workers
  <1>5. AssignTask(w, g) = IF g <= CPU_NUM THEN (IF w < g THEN 1 ELSE 0)
                           ELSE IF w = 0 THEN g - v * (CPU_NUM - 1) ELSE v
    BY DEF AssignTask, v
  <1> QED
    BY <1>1, <1>3, <1>4, <1>5 DEF Workers

(* The default of launch_num is positive: it is a divisor within the       *)
(* bounds, or DEFAULT_LAUNCH.                                              *)
LEMMA DefaultLaunchType ==
  ASSUME NEW c \in Nat, target \in Targets
  PROVE  DefaultLaunch(c) \in Nat \ {0}
  <1> DEFINE fits == {n \in DEFAULT_LAUNCH_MIN .. DEFAULT_LAUNCH_MAX : c % n = 0}
  <1>1. fits \subseteq Nat \ {0}
    BY TargetType
  <1>2. fits # {} => Min(fits) \in fits
    <2> HIDE DEF fits
    <2> QED BY <1>1, MinOfNats
  <1> QED
    BY <1>1, <1>2, TargetType DEF DefaultLaunch

(* work_space_set_launch_interval never goes below the worker's own        *)
(* interval, and 0 asks for exactly that.                                  *)
LEMMA SetIntervalFacts ==
  ASSUME LaunchTypes, NEW x \in Nat
  PROVE  /\ SetInterval(x) \in [DOMAIN cl -> ClType]
         /\ \A w \in DOMAIN cl :
              /\ SetInterval(x)[w].cc = cl[w].cc
              /\ SetInterval(x)[w].num = cl[w].num
              /\ SetInterval(x)[w].default = cl[w].default
              /\ SetInterval(x)[w].next = cl[w].next
              /\ SetInterval(x)[w].interval >= cl[w].default
              /\ cl[w].default <= TSC_PER_SEC => SetInterval(x)[w].interval <= TSC_PER_SEC
              /\ x = 0 => SetInterval(x)[w].interval = cl[w].default
  <1> DEFINE I(w) == Max({cl[w].default, Min({x, TSC_PER_SEC})})
  <1>0. x \in Int /\ TSC_PER_SEC \in Int /\ TSC_PER_SEC > 0
    BY TargetType DEF LaunchTypes
  <1>a. Min({x, TSC_PER_SEC}) = IF x <= TSC_PER_SEC THEN x ELSE TSC_PER_SEC
    BY <1>0, MinOfTwo, Zenon
  <1>1. /\ Min({x, TSC_PER_SEC}) \in Nat /\ Min({x, TSC_PER_SEC}) <= TSC_PER_SEC
        /\ x = 0 => Min({x, TSC_PER_SEC}) = 0
    BY <1>0, <1>a
  <1>2. ASSUME NEW w \in DOMAIN cl
        PROVE  /\ cl[w] \in ClType
               /\ I(w) \in Nat /\ I(w) >= cl[w].default
               /\ cl[w].default <= TSC_PER_SEC => I(w) <= TSC_PER_SEC
               /\ x = 0 => I(w) = cl[w].default
    <2>1. cl[w] \in ClType
      BY DEF LaunchTypes
    <2>2. cl[w].default \in Nat
      BY <2>1 DEF ClType
    <2> DEFINE d == cl[w].default
               m == Min({x, TSC_PER_SEC})
    <2>3. d \in Int /\ m \in Int
      BY <1>1, <2>2
    <2> HIDE DEF d, m
    <2>4. Max({d, m}) = IF d >= m THEN d ELSE m
      BY <2>3, MaxOfTwo, Zenon
    <2> QED
      BY <1>1, <2>1, <2>2, <2>4 DEF d, m
  <1> HIDE DEF I
  <1>3. SetInterval(x) = [w \in DOMAIN cl |-> [cl[w] EXCEPT !.interval = I(w)]]
    BY DEF SetInterval, I
  <1> QED
    BY <1>2, <1>3 DEF ClType

(* The interval of a second of slow start is a number.                     *)
LEMMA SlowIntervalType ==
  ASSUME LaunchTypes, NEW i \in Nat \ {0}
  PROVE  SlowInterval(i) \in Nat
  <1> DEFINE c == (CPS \div CPU_NUM) \div SLOW_START
             step == Max({c, 1})
  <1>1. c \in Nat
    BY TargetType, Quotient DEF LaunchTypes
  <1>2. step \in Nat \ {0}
    <2> HIDE DEF c
    <2> QED BY <1>1, MaxOfTwo
  <1> HIDE DEF step
  <1>3. step * i \in Nat \ {0} /\ TSC_PER_SEC * launchNum \in Nat
    BY <1>2, TimesNat, TargetType DEF LaunchTypes
  <1>4. (TSC_PER_SEC * launchNum) \div (step * i) \in Nat
    BY <1>3, Quotient
  <1> QED
    BY <1>4 DEF SlowInterval, step

(* The launch record that client_init computes, in terms of the launch_num *)
(* it uses.                                                                *)
LEMMA InitRecord ==
  ASSUME LaunchTypes, NEW w \in Workers, NEW n \in Nat \ {0},
         NEW cps, cps = AssignTask(w, CPS), cps > 0, NEW rec,
         rec = [cc |-> AssignTask(w, CC), num |-> IF cps <= n THEN cps ELSE n,
                interval |-> IF cps <= n THEN TSC_PER_SEC ELSE TSC_PER_SEC \div (cps \div n),
                default |-> IF cps <= n THEN TSC_PER_SEC ELSE TSC_PER_SEC \div (cps \div n),
                next |-> tsc + WAIT * TSC_PER_SEC]
  PROVE  /\ rec \in ClType
         /\ CPS <= TSC_PER_SEC => rec.interval > 0 /\ rec.default = rec.interval
  <1>1. cps \in Nat \ {0} /\ (CPS <= TSC_PER_SEC => cps <= TSC_PER_SEC) /\ AssignTask(w, CC) \in Nat
    BY ShareType, TargetType DEF LaunchTypes
  <1>a. TSC_PER_SEC \in Nat \ {0}
    BY TargetType DEF LaunchTypes
  <1>2. cps > n => /\ cps \div n \in Nat \ {0}
                   /\ CPS <= TSC_PER_SEC => cps \div n <= TSC_PER_SEC
    <2>1. cps \in Nat
      BY <1>1
    <2>2. cps \div n \in Nat /\ cps \div n <= cps /\ (n <= cps => cps \div n > 0)
      BY <2>1, Quotient, QuotientSmaller, Zenon
    <2> QED
      BY <1>1, <1>a, <2>1, <2>2
  <1> DEFINE iv == IF cps <= n THEN TSC_PER_SEC ELSE TSC_PER_SEC \div (cps \div n)
  <1>3. iv \in Nat /\ (CPS <= TSC_PER_SEC => iv > 0)
    <2>1. CASE cps <= n
      BY <2>1, TargetType DEF LaunchTypes
    <2>2. CASE ~(cps <= n)
      <3> DEFINE d == cps \div n
      <3>1. d \in Nat \ {0} /\ (CPS <= TSC_PER_SEC => d <= TSC_PER_SEC)
        BY <1>1, <1>2, <2>2
      <3> HIDE DEF d
      <3>2. /\ TSC_PER_SEC \div d \in Nat
            /\ CPS <= TSC_PER_SEC => TSC_PER_SEC \div d > 0
        BY <3>1, Quotient, QuotientSmaller, TargetType DEF LaunchTypes
      <3> QED
        BY <2>2, <3>2 DEF d
    <2> QED
      BY <2>1, <2>2
  <1> HIDE DEF iv
  <1>4. WAIT * TSC_PER_SEC \in Nat
    BY TimesNat, TargetType DEF LaunchTypes
  <1>5. tsc + WAIT * TSC_PER_SEC \in Nat
    BY <1>4 DEF LaunchTypes
  <1>6. rec = [cc |-> AssignTask(w, CC), num |-> IF cps <= n THEN cps ELSE n,
               interval |-> iv, default |-> iv, next |-> tsc + WAIT * TSC_PER_SEC]
    BY DEF iv
  <1> QED
    BY <1>1, <1>3, <1>5, <1>6 DEF ClType

(* socket_current of a worker is a number.                                 *)
LEMMA CurrentType ==
  ASSUME LaunchTypes, NEW w \in Workers
  PROVE  IsFiniteSet(busy[w]) /\ Current(w) \in Nat
  <1>1. busy[w] \in SUBSET (0 .. SOCKET_NUM - 1) /\ SOCKET_NUM - 1 \in Int
    BY TargetType DEF LaunchTypes
  <1>2. IsFiniteSet(0 .. SOCKET_NUM - 1)
    BY <1>1, FS_Interval
  <1>3. IsFiniteSet(busy[w])
    BY <1>1, <1>2, FS_Subset, Zenon
  <1> QED
    BY <1>3, FS_CardinalityType DEF Current

(* work_space_client_launch_num launches no more than launch_num, and with *)
(* a cap no more than fit under it.                                        *)
LEMMA LaunchCountFacts ==
  ASSUME LaunchTypes, NEW w \in Workers, w \in DOMAIN cl
  PROVE  /\ LaunchCount(w) \in Nat /\ LaunchCount(w) <= cl[w].num
         /\ cl[w].cc > 0 => LaunchCount(w) = 0 \/ Current(w) + LaunchCount(w) <= cl[w].cc
  <1> DEFINE cc == cl[w].cc
             num == cl[w].num
             cur == Current(w)
             room == Max({cc - cur, 0})
  <1>1. cc \in Nat /\ num \in Nat /\ cur \in Nat
    BY CurrentType DEF LaunchTypes, ClType
  <1> HIDE DEF cc, num, cur
  <1>2. cc - cur \in Int /\ 0 \in Int
    BY <1>1
  <1>3. room = IF cc - cur >= 0 THEN cc - cur ELSE 0
    BY <1>2, MaxOfTwo, Zenon
  <1>4. room \in Nat /\ num \in Int
    BY <1>1, <1>3
  <1>5. room \in Int
    BY <1>4
  <1>6. LaunchCount(w) = IF cc > 0 THEN Min({room, num}) ELSE num
    BY DEF LaunchCount, cc, num, cur
  <1> HIDE DEF room
  <1>7. Min({room, num}) = IF room <= num THEN room ELSE num
    BY <1>4, <1>5, MinOfTwo, Zenon
  <1>8. /\ LaunchCount(w) \in Nat /\ LaunchCount(w) <= num
        /\ cc > 0 => LaunchCount(w) = 0 \/ cur + LaunchCount(w) <= cc
    BY <1>1, <1>3, <1>4, <1>6, <1>7
  <1> QED
    BY <1>8 DEF cc, num, cur

(* A place in the socket pool, however far the circle is turned.           *)
LEMMA InPool ==
  ASSUME NEW a \in Nat, NEW b \in Nat, target \in Targets
  PROVE  (a + b) % SOCKET_NUM \in 0 .. SOCKET_NUM - 1
  BY TargetType
-----------------------------------------------------------------------------
(* The invariant holds when the workers have their work spaces and before  *)
(* client_init.                                                            *)
LEMMA InitSpeed == Init => SpeedInv
  <1> SUFFICES ASSUME Init PROVE SpeedInv
    OBVIOUS
  <1>1. target \in Targets
    BY DEF Init
  <1>2. DOMAIN cl = {} /\ cl \in [DOMAIN cl -> ClType]
    BY DEF Init
  <1> QED
    BY <1>1, <1>2, TargetType DEF Init, SpeedInv, LaunchTypes, Speed, SOCKET_NUM

(* client_init of a worker leaves the others alone, and gives this one a   *)
(* positive interval or nothing to launch.                                 *)
LEMMA ClientInitSpeed ==
  ASSUME SpeedInv, NEW w \in Workers, ClientInit(w)
  PROVE  SpeedInv'
  <1> DEFINE cps == AssignTask(w, CPS)
             n == IF launchNum = 0 THEN DefaultLaunch(cps) ELSE launchNum
             iv == IF cps <= n THEN TSC_PER_SEC ELSE TSC_PER_SEC \div (cps \div n)
             rec == [cc |-> AssignTask(w, CC), num |-> IF cps <= n THEN cps ELSE n,
                     interval |-> iv, default |-> iv,
                     next |-> tsc + WAIT * TSC_PER_SEC]
             mine == IF cps > 0 THEN rec ELSE Idle
  <1>1. LaunchTypes /\ Speed /\ target \in Targets /\ target' = target
    BY DEF SpeedInv, LaunchTypes, ClientInit
  <1>2. cps \in Nat
    BY <1>1, ShareType, TargetType
  <1>3. n \in Nat \ {0}
    <2> HIDE DEF cps
    <2> QED BY <1>1, <1>2, DefaultLaunchType DEF LaunchTypes
  <1>4. CyclesSuffice => CPS <= TSC_PER_SEC
    BY <1>1 DEF CyclesSuffice, CPS
  <1>5. cps > 0 => /\ rec \in ClType
                   /\ CyclesSuffice => rec.interval > 0 /\ rec.default = rec.interval
    <2> HIDE DEF n
    <2> QED BY <1>1, <1>3, <1>4, InitRecord
  <1>6. /\ cl' = [v \in DOMAIN cl \cup {w} |-> IF v # w THEN cl[v] ELSE mine]
        /\ launchNum' = IF cps > 0 THEN n ELSE launchNum
        /\ w \notin DOMAIN cl
    BY DEF ClientInit
  <1>7. mine \in ClType /\ (CyclesSuffice /\ mine.num > 0 => mine.default > 0 /\ mine.interval > 0)
    <2>1. Idle \in ClType /\ Idle.num = 0
      BY DEF Idle, ClType
    <2> HIDE DEF rec, cps
    <2> QED BY <1>5, <2>1 DEF ClType
  <1> HIDE DEF mine, n, cps
  <1>8. LaunchTypes'
    BY <1>1, <1>3, <1>6, <1>7 DEF LaunchTypes, ClientInit, SOCKET_NUM
  <1>9. Speed'
    <2>1. ctl' = ctl /\ DOMAIN cl # Workers
      BY <1>6 DEF ClientInit
    <2> QED
      BY <1>1, <1>6, <1>7, <2>1 DEF Speed, LaunchTypes
  <1> QED
    BY <1>8, <1>9 DEF SpeedInv

(* A launch moves launch_next and nothing else of the record.              *)
LEMMA ClientLaunchSpeed ==
  ASSUME SpeedInv, NEW w \in Workers, ClientLaunch(w)
  PROVE  SpeedInv'
  <1> DEFINE n == LaunchCount(w)
  <1>1. LaunchTypes /\ Speed /\ target \in Targets /\ target' = target /\ DOMAIN cl = Workers
    BY DEF SpeedInv, LaunchTypes, ClientLaunch
  <1>2. n \in Nat
    BY <1>1, LaunchCountFacts
  <1>3. Picked(w, n) \in SUBSET (0 .. SOCKET_NUM - 1)
    <2>1. next[w] \in Nat
      BY <1>1 DEF LaunchTypes
    <2> QED
      BY <1>1, <1>2, <2>1, InPool DEF Picked
  <1>4. (next[w] + n) % SOCKET_NUM \in 0 .. SOCKET_NUM - 1
    BY <1>1, <1>2, InPool DEF LaunchTypes
  <1>5. /\ busy' = [busy EXCEPT ![w] = @ \cup Picked(w, n)]
        /\ next' = [next EXCEPT ![w] = (@ + n) % SOCKET_NUM]
        /\ cl' = [cl EXCEPT ![w].next = @ + cl[w].interval]
        /\ UNCHANGED <<tsc, launchNum, ctl>>
    BY DEF ClientLaunch
  <1> HIDE DEF n
  <1>6. busy' \in [Workers -> SUBSET (0 .. SOCKET_NUM - 1)]
    BY <1>1, <1>3, <1>5 DEF LaunchTypes
  <1>7. next' \in [Workers -> 0 .. SOCKET_NUM - 1]
    BY <1>1, <1>4, <1>5 DEF LaunchTypes
  <1>8. /\ DOMAIN cl' = Workers /\ cl' \in [DOMAIN cl' -> ClType]
        /\ \A v \in Workers : /\ cl'[v].num = cl[v].num
                              /\ cl'[v].interval = cl[v].interval
                              /\ cl'[v].default = cl[v].default
    BY <1>1, <1>5 DEF LaunchTypes, ClType
  <1>9. LaunchTypes'
    BY <1>1, <1>5, <1>6, <1>7, <1>8 DEF LaunchTypes, SOCKET_NUM
  <1>10. Speed'
    BY <1>1, <1>5, <1>8 DEF Speed
  <1> QED
    BY <1>9, <1>10 DEF SpeedInv

(* The control thread only sets intervals to at least the worker's own,    *)
(* and to the worker's own when it leaves slow start, interrupted or not.  *)
LEMMA CtlSpeed ==
  ASSUME SpeedInv, CtlStart \/ CtlSlow
  PROVE  SpeedInv'
  <1>1. LaunchTypes /\ Speed /\ target \in Targets /\ target' = target /\ tsc \in Nat
    BY DEF SpeedInv, LaunchTypes, CtlStart, CtlSlow
  <1>2. DOMAIN cl = Workers
    BY <1>1 DEF CtlStart, CtlSlow, Speed
  <1>3. tsc + TSC_PER_SEC \in Nat
    BY <1>1, TargetType
  <1>4. PICK x \in Nat :
          /\ cl' = SetInterval(x)
          /\ ctl' \in [at : {"wait_start", "slow", "run", "stop"}, i : Nat, wake : Nat]
          /\ ctl'.at \in {"run", "stop"} => x = 0
    <2>1. CASE CtlStart
      <3>1. SlowInterval(1) \in Nat
        BY <1>1, SlowIntervalType
      <3>2. /\ cl' = SetInterval(SlowInterval(1))
            /\ ctl' = [at |-> "slow", i |-> 1, wake |-> tsc + TSC_PER_SEC]
        BY <2>1 DEF CtlStart
      <3> QED
        BY <1>3, <3>1, <3>2
    <2>2. CASE CtlSlow
      <3> DEFINE last == ctl.i = SLOW_START \/ gStop
      <3>1. /\ cl' = SetInterval(IF last THEN 0 ELSE SlowInterval(ctl.i + 1))
            /\ ctl' = [at |-> IF last THEN "run" ELSE "slow",
                        i |-> IF last THEN 1 ELSE ctl.i + 1, wake |-> tsc + TSC_PER_SEC]
        BY <2>2 DEF CtlSlow
      <3>2. ctl.i \in Nat /\ ctl.i + 1 \in Nat \ {0}
        BY <1>1 DEF LaunchTypes
      <3>3. SlowInterval(ctl.i + 1) \in Nat
        BY <1>1, <3>2, SlowIntervalType
      <3> HIDE DEF last
      <3>4. CASE last
        BY <3>1, <3>2, <3>4, <1>3
      <3>5. CASE ~last
        BY <3>1, <3>2, <3>3, <3>5, <1>3
      <3> QED
        BY <3>4, <3>5
    <2> QED
      BY <2>1, <2>2
  <1>5. /\ DOMAIN cl' = Workers /\ cl' \in [DOMAIN cl' -> ClType]
        /\ \A v \in Workers : /\ cl'[v].num = cl[v].num
                              /\ cl'[v].interval >= cl'[v].default
                              /\ cl'[v].default = cl[v].default
                              /\ x = 0 => cl'[v].interval = cl'[v].default
    BY <1>1, <1>2, <1>4, SetIntervalFacts
  <1>6. UNCHANGED <<tsc, launchNum, next, busy>>
    BY DEF CtlStart, CtlSlow
  <1>7. LaunchTypes'
    BY <1>1, <1>4, <1>5, <1>6 DEF LaunchTypes, SOCKET_NUM
  <1>8. Speed'
    <2>1. \A v \in Workers : cl'[v].default \in Nat /\ cl'[v].interval \in Nat
      BY <1>5 DEF ClType
    <2> QED
      BY <1>1, <1>2, <1>4, <1>5, <2>1 DEF Speed
  <1> QED
    BY <1>7, <1>8 DEF SpeedInv

(* The other steps leave intervals alone; the stop takes away launch_num.  *)
LEMMA RestSpeed ==
  ASSUME SpeedInv, (\E w \in Workers : Close(w)) \/ CtlRun \/ Interrupt \/ Tick \/ UNCHANGED vars
  PROVE  SpeedInv'
  <1>1. LaunchTypes /\ Speed
    BY DEF SpeedInv
  <1>2. CASE \E w \in Workers : Close(w)
    <2>1. PICK w \in Workers : Close(w)
      BY <1>2
    <2>2. PICK s \in busy[w] : busy' = [busy EXCEPT ![w] = @ \ {s}]
      BY <2>1 DEF Close
    <2>3. UNCHANGED <<target, tsc, launchNum, cl, next, ctl>>
      BY <2>1 DEF Close
    <2> QED
      BY <1>1, <2>2, <2>3 DEF SpeedInv, LaunchTypes, Speed, SOCKET_NUM
  <1>3. CASE CtlRun
    <2> DEFINE last == ctl.i = DURATION \/ gStop
    <2>1. /\ ctl.at = "run" /\ UNCHANGED <<target, tsc, launchNum, next, busy>>
          /\ ctl' = [at |-> IF last THEN "stop" ELSE "run",
                     i |-> IF last THEN 0 ELSE ctl.i + 1, wake |-> tsc + TSC_PER_SEC]
          /\ cl' = IF last THEN [w \in Workers |-> [cl[w] EXCEPT !.num = 0]] ELSE cl
      BY <1>3 DEF CtlRun
    <2>2. DOMAIN cl = Workers
      BY <1>1, <2>1 DEF Speed
    <2>3. tsc + TSC_PER_SEC \in Nat
      BY <1>1, TargetType DEF LaunchTypes
    <2> HIDE DEF last
    <2>4. /\ DOMAIN cl' = Workers /\ cl' \in [DOMAIN cl' -> ClType]
          /\ \A v \in Workers : /\ cl'[v].num = cl[v].num \/ cl'[v].num = 0
                                /\ cl'[v].interval = cl[v].interval
                                /\ cl'[v].default = cl[v].default
      BY <1>1, <2>1, <2>2 DEF LaunchTypes, ClType
    <2>5. LaunchTypes'
      BY <1>1, <2>1, <2>3, <2>4 DEF LaunchTypes, SOCKET_NUM
    <2>6. Speed'
      BY <1>1, <2>1, <2>2, <2>4 DEF Speed
    <2> QED
      BY <2>5, <2>6 DEF SpeedInv
  <1>4. CASE Interrupt \/ Tick \/ UNCHANGED vars
    BY <1>1, <1>4 DEF Interrupt, Tick, vars, SpeedInv, LaunchTypes, Speed, SOCKET_NUM
  <1> QED
    BY <1>2, <1>3, <1>4

(* Types, and the control thread's hold on the launch intervals.           *)
THEOREM SpeedInvariant == Spec => []SpeedInv
  <1>1. Init => SpeedInv
    BY InitSpeed
  <1>2. SpeedInv /\ [Next]_vars => SpeedInv'
    <2> SUFFICES ASSUME SpeedInv, [Next]_vars PROVE SpeedInv'
      OBVIOUS
    <2>1. ASSUME NEW w \in Workers, ClientInit(w) PROVE SpeedInv'
      BY <2>1, ClientInitSpeed
    <2>2. ASSUME NEW w \in Workers, ClientLaunch(w) PROVE SpeedInv'
      BY <2>2, ClientLaunchSpeed
    <2>3. ASSUME NEW w \in Workers, Close(w) PROVE SpeedInv'
      BY <2>3, RestSpeed
    <2>4. ASSUME CtlStart \/ CtlSlow PROVE SpeedInv'
      BY <2>4, CtlSpeed
    <2>5. ASSUME CtlRun \/ Interrupt \/ Tick \/ UNCHANGED vars PROVE SpeedInv'
      BY <2>5, RestSpeed
    <2> QED
      BY <2>1, <2>2, <2>3, <2>4, <2>5, Zenon DEF Next
  <1> QED
    BY <1>1, <1>2, PTL DEF Spec

(* However slow start ends, the workers then launch at their own full      *)
(* rate, and no active worker launches without a pause: for every number   *)
(* of workers, every target a second has cycles for, and interrupts at any *)
(* time.                                                                   *)
THEOREM SlowStartEndsAtFullSpeed ==
  ASSUME CyclesSuffice
  PROVE  Spec => []FullSpeed
  <1>1. Spec => []SpeedInv
    BY SpeedInvariant
  <1>3. SpeedInv => FullSpeed
    BY DEF SpeedInv, Speed, FullSpeed
  <1> QED
    BY <1>1, <1>3, PTL
-----------------------------------------------------------------------------
(* No worker with connections to open has a share of 0 in cc, which        *)
(* work_space_client_launch_num takes for "no cap".  A cc below the number *)
(* of active workers leaves some of them uncapped.                         *)
CapReachesAll == \A t \in Targets : t.cc = 0 \/ t.cc >= CPU_NUM \/ t.cc >= t.cps

(* Each worker keeps its own connections within its share.                 *)
Caps ==
    /\ CC > 0 => \A w \in Workers : Current(w) <= AssignTask(w, CC)
    /\ \A w \in DOMAIN cl : cl[w].num > 0 =>
          cl[w].cc = AssignTask(w, CC) /\ (CC > 0 => cl[w].cc > 0)

(* Under CapReachesAll a worker with a share of cps has one of cc.         *)
LEMMA ShareCovers ==
  ASSUME CapReachesAll, target \in Targets, NEW w \in Workers,
         AssignTask(w, CPS) > 0, CC > 0
  PROVE  AssignTask(w, CC) > 0
  <1>1. /\ CPS \in Nat \ {0} /\ CC \in Nat \ {0} /\ CPU_NUM \in Nat \ {0}
        /\ w \in Nat /\ w < CPU_NUM
    BY TargetType DEF Workers
  <1>2. CC >= CPU_NUM \/ CC >= CPS
    BY <1>1 DEF CapReachesAll, CC, CPS
  <1>3. CASE CC <= CPU_NUM
    <2>1. CC = CPU_NUM \/ (CPS <= CC /\ CPS <= CPU_NUM)
      BY <1>1, <1>2, <1>3
    <2>2. w < CC
      BY <1>1, <2>1 DEF AssignTask
    <2> QED
      BY <1>3, <2>2 DEF AssignTask
  <1>4. CASE ~(CC <= CPU_NUM)
    <2> DEFINE v == CC \div CPU_NUM
    <2>1. v \in Nat /\ v * CPU_NUM <= CC /\ v >= 1
      BY <1>1, <1>4, Quotient
    <2> HIDE DEF v
    <2>2. v * (CPU_NUM - 1) = v * CPU_NUM - v /\ v * (CPU_NUM - 1) \in Nat
      BY <1>1, <2>1, OneLess
    <2>3. CC - v * (CPU_NUM - 1) > 0
      BY <1>1, <2>1, <2>2, TimesNat
    <2>4. AssignTask(w, CC) = IF w = 0 THEN CC - v * (CPU_NUM - 1) ELSE v
      BY <1>4 DEF AssignTask, v
    <2> QED
      BY <2>1, <2>3, <2>4
  <1> QED
    BY <1>3, <1>4

(* A call takes at most as many sockets as it counts.                      *)
LEMMA PickedSize ==
  ASSUME NEW w \in Workers, NEW n \in Nat
  PROVE  IsFiniteSet(Picked(w, n)) /\ Cardinality(Picked(w, n)) <= n
  <1> DEFINE f == [i \in 0 .. n - 1 |-> (next[w] + i) % SOCKET_NUM]
             S == 0 .. n - 1
  <1>1. IsFiniteSet(S) /\ Cardinality(S) = n
    <2>1. n - 1 \in Int /\ 0 \in Int
      OBVIOUS
    <2>2. IsFiniteSet(0 .. n - 1) /\ Cardinality(0 .. n - 1) = IF 0 > n - 1 THEN 0 ELSE (n - 1) - 0 + 1
      BY <2>1, FS_Interval, Zenon
    <2> QED
      BY <2>2
  <1>2. f \in Surjection(S, Picked(w, n))
    <2>1. f \in [S -> Picked(w, n)] /\ \A t \in Picked(w, n) : \E i \in S : f[i] = t
      BY DEF Picked
    <2> QED
      BY <2>1, Fun_IsSurj
  <1>3. IsFiniteSet(Picked(w, n)) /\ Cardinality(Picked(w, n)) <= Cardinality(S)
    <2> HIDE DEF f, S
    <2> QED BY <1>1, <1>2, FS_Surjection, Zenon
  <1> QED
    BY <1>1, <1>3

(* Adding sockets to those in use adds at most their number.               *)
LEMMA UnionSize ==
  ASSUME NEW used, IsFiniteSet(used), NEW more, IsFiniteSet(more)
  PROVE  Cardinality(used \cup more) <= Cardinality(used) + Cardinality(more)
  <1> DEFINE both == Cardinality(used \cap more)
  <1>1. Cardinality(used \cup more) = Cardinality(used) + Cardinality(more) - both
    BY FS_Union, Zenon
  <1>2. IsFiniteSet(used \cap more)
    BY FS_Intersection, Zenon
  <1>3. both \in Nat /\ Cardinality(used) \in Nat /\ Cardinality(more) \in Nat
    BY <1>2, FS_CardinalityType, Zenon
  <1> QED
    BY <1>1, <1>3

(* client_init gives a worker its share of cc as its cap.                  *)
LEMMA ClientInitCaps ==
  ASSUME CapReachesAll, LaunchTypes, Caps, NEW w \in Workers, ClientInit(w)
  PROVE  Caps'
  <1> DEFINE cps == AssignTask(w, CPS)
  <1>1. target \in Targets /\ target' = target /\ busy' = busy
    BY DEF LaunchTypes, ClientInit
  <1>2. cps \in Nat
    BY <1>1, ShareType, TargetType
  <1>3. PICK r : /\ cl' = [v \in DOMAIN cl \cup {w} |-> IF v # w THEN cl[v] ELSE r]
                 /\ r = Idle \/ (cps > 0 /\ r.cc = AssignTask(w, CC))
    BY DEF ClientInit
  <1>4. CC > 0 /\ cps > 0 => AssignTask(w, CC) > 0
    BY <1>1, ShareCovers
  <1>5. r.num > 0 => r.cc = AssignTask(w, CC) /\ (CC > 0 => r.cc > 0)
    BY <1>3, <1>4 DEF Idle
  <1> QED
    BY <1>1, <1>3, <1>5 DEF Caps, CC, Current, AssignTask

(* A launch fills at most the gap between socket_current and the cap.      *)
LEMMA ClientLaunchCaps ==
  ASSUME LaunchTypes, Caps, NEW w \in Workers, ClientLaunch(w)
  PROVE  Caps'
  <1> DEFINE n == LaunchCount(w)
             P == Picked(w, n)
  <1>1. target \in Targets /\ target' = target /\ DOMAIN cl = Workers
    BY DEF LaunchTypes, ClientLaunch
  <1>2. /\ n \in Nat /\ n <= cl[w].num
        /\ cl[w].cc > 0 => n = 0 \/ Current(w) + n <= cl[w].cc
    BY <1>1, LaunchCountFacts
  <1>3. /\ busy' = [busy EXCEPT ![w] = @ \cup P]
        /\ cl' = [cl EXCEPT ![w].next = @ + cl[w].interval]
    BY DEF ClientLaunch
  <1> HIDE DEF n
  <1>4. IsFiniteSet(P) /\ Cardinality(P) <= n
    BY <1>2, PickedSize
  <1>5. IsFiniteSet(busy[w]) /\ Current(w) \in Nat /\ Current(w) = Cardinality(busy[w])
    BY CurrentType DEF Current
  <1> HIDE DEF P
  <1>6. Cardinality(P) \in Nat /\ IsFiniteSet(busy[w] \cup P) /\ Cardinality(busy[w] \cup P) \in Nat
    BY <1>4, <1>5, FS_CardinalityType, FS_Union, Zenon
  <1>7. Cardinality(busy[w] \cup P) <= Cardinality(busy[w]) + Cardinality(P)
    BY <1>4, <1>5, UnionSize, Zenon
  <1>8. CC > 0 => Cardinality(busy[w] \cup P) <= AssignTask(w, CC)
    <2> SUFFICES ASSUME CC > 0 PROVE Cardinality(busy[w] \cup P) <= AssignTask(w, CC)
      OBVIOUS
    <2>1. Current(w) <= AssignTask(w, CC) /\ AssignTask(w, CC) \in Nat
      BY <1>1, ShareType, TargetType DEF Caps
    <2>2. cl[w].num \in Nat /\ cl[w].cc \in Nat
      BY <1>1 DEF LaunchTypes, ClType
    <2>3. CASE n = 0
      BY <1>2, <1>4, <1>5, <1>6, <1>7, <2>1, <2>3
    <2>4. CASE n > 0
      <3>1. cl[w].num > 0
        BY <1>2, <2>2, <2>4
      <3>2. cl[w].cc = AssignTask(w, CC) /\ cl[w].cc > 0
        BY <1>1, <3>1 DEF Caps
      <3> QED
        BY <1>2, <1>4, <1>5, <1>6, <1>7, <2>1, <2>2, <2>4, <3>2
    <2> QED
      BY <1>2, <2>3, <2>4
  <1>9. \A v \in Workers : Current(v)' = IF v = w THEN Cardinality(busy[w] \cup P) ELSE Current(v)
    BY <1>3 DEF Current, LaunchTypes
  <1>10. DOMAIN cl' = Workers /\ \A v \in Workers : cl'[v].num = cl[v].num /\ cl'[v].cc = cl[v].cc
    BY <1>1, <1>3 DEF LaunchTypes, ClType
  <1>11. CC' = CC /\ \A v \in Workers : AssignTask(v, CC)' = AssignTask(v, CC)
    BY <1>1 DEF CC, AssignTask
  <1>12. (CC > 0 => \A v \in Workers : Current(v) <= AssignTask(v, CC))'
    BY <1>8, <1>9, <1>11 DEF Caps
  <1>13. \A v \in DOMAIN cl' : cl'[v].num > 0 =>
           cl'[v].cc = AssignTask(v, CC)' /\ (CC' > 0 => cl'[v].cc > 0)
    BY <1>1, <1>10, <1>11 DEF Caps
  <1> QED
    BY <1>12, <1>13 DEF Caps

(* No other step opens a connection or changes a cap.                      *)
LEMMA RestCaps ==
  ASSUME SpeedInv, Caps,
         \/ \E w \in Workers : Close(w)
         \/ CtlStart \/ CtlSlow \/ CtlRun \/ Interrupt \/ Tick \/ UNCHANGED vars
  PROVE  Caps'
  <1>1. LaunchTypes /\ target' = target /\ CC' = CC
    BY DEF SpeedInv, Close, CtlStart, CtlSlow, CtlRun, Interrupt, Tick, vars, CC
  <1>2. ASSUME NEW v \in Workers PROVE CC > 0 => Current(v)' <= AssignTask(v, CC)
    <2>1. CASE \E w \in Workers : Close(w)
      <3>1. PICK w \in Workers : Close(w)
        BY <2>1
      <3>2. PICK s \in busy[w] : busy' = [busy EXCEPT ![w] = @ \ {s}]
        BY <3>1 DEF Close
      <3>3. busy'[v] \in SUBSET busy[v]
        BY <1>1, <3>2 DEF LaunchTypes
      <3>4. IsFiniteSet(busy[v])
        BY <1>1, CurrentType
      <3>5. IsFiniteSet(busy'[v]) /\ Cardinality(busy'[v]) <= Cardinality(busy[v])
        BY <3>3, <3>4, FS_Subset, Zenon
      <3>6. Cardinality(busy'[v]) \in Nat /\ Cardinality(busy[v]) \in Nat
        BY <3>4, <3>5, FS_CardinalityType, Zenon
      <3>7. CC > 0 => AssignTask(v, CC) \in Nat /\ Cardinality(busy[v]) <= AssignTask(v, CC)
        BY <1>1, ShareType, TargetType DEF Caps, LaunchTypes, Current
      <3> QED
        BY <3>5, <3>6, <3>7 DEF Current
    <2>2. CASE CtlStart \/ CtlSlow \/ CtlRun \/ Interrupt \/ Tick \/ UNCHANGED vars
      <3>1. busy' = busy
        BY <2>2 DEF CtlStart, CtlSlow, CtlRun, Interrupt, Tick, vars
      <3> QED
        BY <3>1 DEF Caps, Current
    <2> QED
      BY <2>1, <2>2
  <1>3. \A v \in DOMAIN cl' : cl'[v].num > 0 => v \in DOMAIN cl /\ cl[v].num > 0 /\ cl'[v].cc = cl[v].cc
    <2>1. CASE CtlStart \/ CtlSlow
      <3>1. PICK x : cl' = SetInterval(x)
        BY <2>1 DEF CtlStart, CtlSlow
      <3> QED
        BY <1>1, <3>1 DEF SetInterval, LaunchTypes, ClType
    <2>2. CASE CtlRun
      <3>1. DOMAIN cl = Workers
        BY <2>2 DEF CtlRun, SpeedInv, Speed
      <3> QED
        BY <1>1, <2>2, <3>1 DEF CtlRun, LaunchTypes, ClType
    <2>3. CASE (\E w \in Workers : Close(w)) \/ Interrupt \/ Tick \/ UNCHANGED vars
      BY <2>3 DEF Close, Interrupt, Tick, vars
    <2> QED
      BY <2>1, <2>2, <2>3
  <1>4. \A v : AssignTask(v, CC)' = AssignTask(v, CC)
    BY <1>1 DEF AssignTask
  <1> QED
    BY <1>1, <1>2, <1>3, <1>4 DEF Caps

(* Types, speeds and caps hold throughout.                                 *)
THEOREM CapsHold ==
  ASSUME CapReachesAll
  PROVE  Spec => [](SpeedInv /\ Caps)
  <1>1. Init => SpeedInv /\ Caps
    <2> SUFFICES ASSUME Init PROVE SpeedInv /\ Caps
      OBVIOUS
    <2>1. SpeedInv
      BY InitSpeed
    <2>2. ASSUME NEW w \in Workers PROVE CC > 0 => Current(w) <= AssignTask(w, CC)
      <3>1. Current(w) = 0
        BY FS_EmptySet DEF Init, Current
      <3>2. AssignTask(w, CC) \in Nat
        BY <2>1, ShareType, TargetType DEF SpeedInv, LaunchTypes
      <3> QED
        BY <3>1, <3>2
    <2> QED
      BY <2>1, <2>2 DEF Caps, Init
  <1>2. SpeedInv /\ Caps /\ [Next]_vars => Caps'
    <2> SUFFICES ASSUME SpeedInv, Caps, [Next]_vars PROVE Caps'
      OBVIOUS
    <2>1. LaunchTypes
      BY DEF SpeedInv
    <2>2. ASSUME NEW w \in Workers, ClientInit(w) PROVE Caps'
      BY <2>1, <2>2, ClientInitCaps
    <2>3. ASSUME NEW w \in Workers, ClientLaunch(w) PROVE Caps'
      BY <2>1, <2>3, ClientLaunchCaps
    <2>4. ASSUME NEW w \in Workers, Close(w) PROVE Caps'
      BY <2>4, RestCaps
    <2>5. ASSUME CtlStart \/ CtlSlow \/ CtlRun \/ Interrupt \/ Tick \/ UNCHANGED vars
          PROVE  Caps'
      BY <2>5, RestCaps
    <2> QED
      BY <2>2, <2>3, <2>4, <2>5, Zenon DEF Next
  <1>3. Spec => []SpeedInv
    BY SpeedInvariant
  <1> QED
    BY <1>1, <1>2, <1>3, PTL DEF Spec
-----------------------------------------------------------------------------
(* Where the share of a worker begins when the shares of goal are laid end *)
(* to end.                                                                 *)
Offset(w, goal) ==
    LET val == goal \div CPU_NUM
    IN  IF goal <= CPU_NUM THEN w
        ELSE IF w = 0 THEN 0
        ELSE (goal - val * (CPU_NUM - 1)) + val * (w - 1)

(* The shares do not overlap and stay within the goal: client_assign_task  *)
(* hands out no more than there is.                                        *)
LEMMA SharesDisjoint ==
  ASSUME NEW g \in Nat, CPU_NUM \in Nat \ {0}, NEW v \in Workers, NEW w \in Workers
  PROVE  /\ Offset(w, g) \in Nat
         /\ AssignTask(w, g) > 0 => Offset(w, g) + AssignTask(w, g) <= g
         /\ v < w => Offset(v, g) + AssignTask(v, g) <= Offset(w, g)
  <1>1. v \in Nat /\ w \in Nat /\ v <= CPU_NUM - 1 /\ w <= CPU_NUM - 1
    BY DEF Workers
  <1>2. CASE g <= CPU_NUM
    BY <1>1, <1>2 DEF Offset, AssignTask
  <1>3. CASE ~(g <= CPU_NUM)
    <2> DEFINE q == g \div CPU_NUM
               r == g - q * (CPU_NUM - 1)
    <2>1. q \in Nat /\ q * CPU_NUM <= g
      BY Quotient
    <2> HIDE DEF q
    <2>2. q * (CPU_NUM - 1) \in Nat /\ q * CPU_NUM \in Nat /\ q * (CPU_NUM - 1) = q * CPU_NUM - q
      BY <2>1, OneLess, TimesNat
    <2>3. r \in Nat /\ r + q * (CPU_NUM - 1) = g
      BY <2>1, <2>2
    <2> HIDE DEF r
    <2>4. \A x \in Workers : /\ AssignTask(x, g) = IF x = 0 THEN r ELSE q
                             /\ Offset(x, g) = IF x = 0 THEN 0 ELSE r + q * (x - 1)
      BY <1>3 DEF AssignTask, Offset, q, r
    <2>5. ASSUME NEW x \in Nat \ {0}, x <= CPU_NUM - 1
          PROVE  /\ q * (x - 1) \in Nat /\ q * (x - 1) + q = q * x
                 /\ q * x \in Nat /\ q * x <= q * (CPU_NUM - 1)
      <3>1. q * (x - 1) = q * x - q /\ q * (x - 1) \in Nat /\ q * x \in Nat
        BY <2>1, OneLess, TimesNat
      <3>2. q * x <= q * (CPU_NUM - 1)
        <4>1. x \in Nat /\ CPU_NUM - 1 \in Nat
          OBVIOUS
        <4> QED
          BY <2>1, <2>5, <4>1, TimesMonotone
      <3> QED
        BY <2>1, <3>1, <3>2
    <2>6. Offset(w, g) \in Nat
      BY <1>1, <2>3, <2>4, <2>5
    <2>7. Offset(w, g) + AssignTask(w, g) <= g
      <3>1. CASE w = 0
        BY <2>2, <2>3, <2>4, <3>1
      <3>2. CASE w # 0
        BY <1>1, <2>1, <2>2, <2>3, <2>4, <2>5, <3>2
      <3> QED
        BY <3>1, <3>2
    <2>8. v < w => Offset(v, g) + AssignTask(v, g) <= Offset(w, g)
      <3> SUFFICES ASSUME v < w PROVE Offset(v, g) + AssignTask(v, g) <= Offset(w, g)
        OBVIOUS
      <3>1. w # 0 /\ w \in Nat \ {0} /\ q * (w - 1) \in Nat
        BY <1>1, <2>5
      <3>2. CASE v = 0
        BY <1>1, <2>3, <2>4, <3>1, <3>2
      <3>3. CASE v # 0
        <4>1. v \in Nat \ {0} /\ v <= w - 1 /\ w - 1 \in Nat
          BY <1>1, <3>3
        <4>2. q * v <= q * (w - 1)
          BY <2>1, <4>1, TimesMonotone
        <4>3. q * (v - 1) + q = q * v /\ q * (v - 1) \in Nat /\ q * v \in Nat
          BY <1>1, <2>5, <4>1
        <4> QED
          BY <2>1, <2>3, <2>4, <3>1, <3>3, <4>2, <4>3
      <3> QED
        BY <3>2, <3>3
    <2> QED
      BY <2>6, <2>7, <2>8
  <1> QED
    BY <1>2, <1>3

(* The connections of a worker can be numbered within its share.           *)
LEMMA Numbering ==
  ASSUME NEW S, IsFiniteSet(S), NEW k \in Nat, Cardinality(S) <= k
  PROVE  \E h \in [S -> 1 .. k] : \A a, b \in S : h[a] = h[b] => a = b
  <1> DEFINE n == Cardinality(S)
  <1>1. n \in Nat /\ ExistsBijection(1 .. n, S)
    BY FS_CardinalityType, Zenon
  <1> HIDE DEF n
  <1>2. PICK f \in Bijection(1 .. n, S) : TRUE
    BY <1>1 DEF ExistsBijection
  <1>3. f \in [1 .. n -> S] /\ \A t \in S : \E i \in 1 .. n : f[i] = t
    BY <1>2 DEF Bijection, Surjection, Injection
  <1> DEFINE h == [t \in S |-> CHOOSE i \in 1 .. n : f[i] = t]
  <1>4. \A t \in S : h[t] \in 1 .. n /\ f[h[t]] = t
    BY <1>3
  <1>5. 1 .. n \subseteq 1 .. k
    BY <1>1 DEF n
  <1>6. h \in [S -> 1 .. k] /\ \A a, b \in S : h[a] = h[b] => a = b
    <2>1. h = [t \in S |-> h[t]]
      OBVIOUS
    <2> HIDE DEF h
    <2> QED BY <1>4, <1>5, <2>1
  <1> QED
    BY <1>6

(* Each worker within its share means the client within cc: the            *)
(* connections can be numbered from 1 to cc.                               *)
LEMMA CapsAddUp ==
  ASSUME LaunchTypes, Caps, CC > 0
  PROVE  Cardinality(Connections) <= CC
  <1>1. CC \in Nat /\ CPU_NUM \in Nat \ {0}
    BY TargetType DEF LaunchTypes
  <1> DEFINE k(w) == AssignTask(w, CC)
             o(w) == Offset(w, CC)
             IsNum(w, h) == h \in [busy[w] -> 1 .. k(w)] /\ \A a, b \in busy[w] : h[a] = h[b] => a = b
             num(w) == CHOOSE h : IsNum(w, h)
  <1>2. ASSUME NEW w \in Workers PROVE k(w) \in Nat /\ IsNum(w, num(w))
    <2>1. k(w) \in Nat
      BY <1>1, ShareType
    <2>2. IsFiniteSet(busy[w]) /\ Cardinality(busy[w]) <= k(w)
      BY CurrentType DEF Caps, Current
    <2> HIDE DEF k
    <2>3. \E h \in [busy[w] -> 1 .. k(w)] : \A a, b \in busy[w] : h[a] = h[b] => a = b
      BY <2>1, <2>2, Numbering, Zenon
    <2>4. \E h : IsNum(w, h)
      BY <2>3, Zenon
    <2> HIDE DEF IsNum
    <2> QED BY <2>1, <2>4, Zenon
  <1>3. ASSUME NEW v \in Workers, NEW w \in Workers
        PROVE  /\ o(w) \in Nat
               /\ k(w) > 0 => o(w) + k(w) <= CC
               /\ v < w => o(v) + k(v) <= o(w)
    BY <1>1, SharesDisjoint
  <1> HIDE DEF k, o, num
  <1> DEFINE F == [c \in Connections |-> o(c[1]) + num(c[1])[c[2]]]
  <1>4. ASSUME NEW c \in Connections
        PROVE  /\ c = <<c[1], c[2]>> /\ c[1] \in Workers /\ c[2] \in busy[c[1]]
               /\ num(c[1])[c[2]] \in 1 .. k(c[1])
               /\ F[c] \in 1 .. CC /\ o(c[1]) < F[c] /\ F[c] <= o(c[1]) + k(c[1])
    <2>1. c = <<c[1], c[2]>> /\ c[1] \in Workers /\ c[2] \in busy[c[1]]
      BY DEF Connections
    <2>2. k(c[1]) \in Nat /\ num(c[1])[c[2]] \in 1 .. k(c[1])
      BY <1>2, <2>1
    <2>3. o(c[1]) \in Nat /\ (k(c[1]) > 0 => o(c[1]) + k(c[1]) <= CC)
      BY <1>3, <2>1
    <2>4. F[c] = o(c[1]) + num(c[1])[c[2]]
      OBVIOUS
    <2> QED
      BY <1>1, <2>1, <2>2, <2>3, <2>4
  <1>5. ASSUME NEW c \in Connections, NEW d \in Connections, F[c] = F[d]
        PROVE  c = d
    <2>1. c[1] \in Nat /\ d[1] \in Nat
      BY <1>4 DEF Workers
    <2>2. k(c[1]) \in Nat /\ k(d[1]) \in Nat /\ o(c[1]) \in Nat /\ o(d[1]) \in Nat
      BY <1>2, <1>3, <1>4
    <2>3. ~(c[1] < d[1])
      <3>1. c[1] < d[1] => o(c[1]) + k(c[1]) <= o(d[1])
        BY <1>3, <1>4
      <3> QED
        BY <1>4, <1>5, <2>1, <2>2, <3>1
    <2>4. ~(d[1] < c[1])
      <3>1. d[1] < c[1] => o(d[1]) + k(d[1]) <= o(c[1])
        BY <1>3, <1>4
      <3> QED
        BY <1>4, <1>5, <2>1, <2>2, <3>1
    <2>5. c[1] = d[1]
      BY <2>1, <2>3, <2>4
    <2>6. num(c[1])[c[2]] = num(c[1])[d[2]]
      BY <1>4, <1>5, <2>2, <2>5
    <2>7. c[2] = d[2]
      BY <1>2, <1>4, <2>5, <2>6
    <2> QED
      BY <1>4, <2>5, <2>7
  <1>6. F \in Injection(Connections, 1 .. CC)
    <2>1. F \in [Connections -> 1 .. CC] /\ \A a, b \in Connections : F[a] = F[b] => a = b
      <3>1. F = [c \in Connections |-> F[c]]
        OBVIOUS
      <3> HIDE DEF F
      <3> QED BY <1>4, <1>5, <3>1
    <2> HIDE DEF F
    <2> QED BY <2>1, Fun_IsInj
  <1>7. IsFiniteSet(1 .. CC) /\ Cardinality(1 .. CC) = CC
    <2>1. CC \in Int /\ 1 \in Int
      BY <1>1
    <2>2. IsFiniteSet(1 .. CC) /\ Cardinality(1 .. CC) = IF 1 > CC THEN 0 ELSE CC - 1 + 1
      BY <2>1, FS_Interval, Zenon
    <2> QED
      BY <1>1, <2>2
  <1>8. Cardinality(Connections) <= Cardinality(1 .. CC)
    <2> HIDE DEF F
    <2> QED BY <1>6, <1>7, FS_Injection, Zenon
  <1> QED
    BY <1>7, <1>8

(* cc caps the connections of the whole client: workers that look only at  *)
(* their own socket_current never have more than cc between them, for      *)
(* every number of workers and every target that gives each active worker  *)
(* a share.                                                                *)
THEOREM CcIsACap ==
  ASSUME CapReachesAll
  PROVE  Spec => []WithinCc
  <1>1. Spec => [](SpeedInv /\ Caps)
    BY CapsHold
  <1>2. SpeedInv /\ Caps => WithinCc
    BY CapsAddUp DEF SpeedInv, WithinCc
  <1> QED
    BY <1>1, <1>2, PTL
-----------------------------------------------------------------------------
Share(w) == AssignTask(w, CPS)

(* What one worker may have opened: launch_next runs ahead of the          *)
(* connections opened, counted from the first launch in the cycles the     *)
(* share takes, and is no more than a second after the time.               *)
Paced(w) ==
    /\ cl[w].num * ShareCycles(w) <= Share(w) * cl[w].default
    /\ cl[w].default <= cl[w].interval /\ cl[w].interval <= TSC_PER_SEC
    /\ Share(w) > 0 => first <= cl[w].next /\ launchNum > 0
    /\ Share(w) = 0 => cl[w].num = 0
    /\ opened[w] * ShareCycles(w) <= Share(w) * (cl[w].next - first)
    /\ opened[w] > 0 => Share(w) > 0 /\ first <= tsc /\ cl[w].next <= tsc + TSC_PER_SEC

Pace ==
    /\ first \in Nat /\ opened \in [Workers -> Nat]
    /\ \A w \in Workers : w \notin DOMAIN cl => opened[w] = 0
    /\ \A w \in DOMAIN cl : Paced(w)

(* The intervals of a second, and what rounding them leaves of it.         *)
LEMMA RoundedQuotient ==
  ASSUME NEW g \in Nat, NEW k \in Nat \ {0}
  PROVE  g % k \in Nat /\ g - (g % k) = (g \div k) * k
  OBVIOUS

(* A product grows with its factors.                                       *)
LEMMA TimesBoth ==
  ASSUME NEW a \in Nat, NEW b \in Nat, NEW c \in Nat, a <= b
  PROVE  a * c <= b * c /\ c * a <= c * b
  OBVIOUS

(* Products and sums of natural numbers.                                   *)
LEMMA Distribute ==
  ASSUME NEW a \in Int, NEW b \in Int, NEW c \in Int
  PROVE  /\ (a + b) * c = a * c + b * c
         /\ c * (a + b) = c * a + c * b
         /\ a * b = b * a /\ (a * b) * c = a * (b * c)
         /\ a * b \in Int
  OBVIOUS

(* The interval of client_init, and the cycles of a share, of c            *)
(* connections in launches of n with T cycles a second.                    *)
IntervalOf(c, n, T) == IF c <= n THEN T ELSE T \div (c \div n)
CyclesOf(c, n, T) == IF c <= n THEN T ELSE T - (T % (c \div n))

(* The record of client_init keeps the share: num connections every        *)
(* interval are share connections in the cycles its launches take.         *)
LEMMA RateOfRecord ==
  ASSUME NEW c \in Nat \ {0}, NEW n \in Nat \ {0}, NEW T \in Nat \ {0}
  PROVE  /\ IntervalOf(c, n, T) \in Nat /\ IntervalOf(c, n, T) <= T
         /\ CyclesOf(c, n, T) \in Nat /\ CyclesOf(c, n, T) <= T
         /\ (IF c <= n THEN c ELSE n) * CyclesOf(c, n, T) <= c * IntervalOf(c, n, T)
  <1> DEFINE iv == IntervalOf(c, n, T)
             cycles == CyclesOf(c, n, T)
  <1>1. CASE c <= n
    BY <1>1 DEF IntervalOf, CyclesOf
  <1>2. CASE ~(c <= n)
    <2> DEFINE k == c \div n
    <2>1. k \in Nat /\ k * n <= c /\ k > 0
      BY <1>2, Quotient
    <2>2. cycles = T - (T % k) /\ iv = T \div k
      BY <1>2 DEF IntervalOf, CyclesOf
    <2> HIDE DEF k, iv, cycles
    <2>3. iv \in Nat /\ iv <= T /\ cycles = iv * k
      <3>1. T \div k \in Nat /\ T \div k <= T
        BY <2>1, Quotient, QuotientSmaller
      <3>2. T - (T % k) = (T \div k) * k
        BY <2>1, RoundedQuotient
      <3> QED
        BY <2>2, <3>1, <3>2, Zenon
    <2>6. cycles \in Nat /\ cycles <= T
      <3>1. T % k \in Nat
        BY <2>1, RoundedQuotient
      <3>2. iv * k \in Nat
        BY <2>1, <2>3, TimesNat
      <3> QED
        BY <2>2, <2>3, <3>1, <3>2
    <2>4. n * cycles = (k * n) * iv
      <3>1. n * (iv * k) = (k * n) * iv
        BY <2>1, <2>3
      <3> QED
        BY <2>3, <3>1
    <2>5. (k * n) * iv <= c * iv
      <3>1. k * n \in Nat
        BY <2>1, TimesNat
      <3> QED
        BY <2>1, <2>3, <3>1, TimesBoth
    <2> QED
      BY <1>2, <2>3, <2>4, <2>5, <2>6 DEF iv, cycles
  <1> QED
    BY <1>1, <1>2

(* The cycles of a share are those of a second or fewer.                   *)
LEMMA ShareCyclesType ==
  ASSUME LaunchTypes, NEW w \in Workers
  PROVE  ShareCycles(w) \in Nat /\ ShareCycles(w) <= TSC_PER_SEC
  <1> DEFINE c == AssignTask(w, CPS)
  <1>1. c \in Nat /\ TSC_PER_SEC \in Nat \ {0} /\ launchNum \in Nat
    BY ShareType, TargetType DEF LaunchTypes
  <1>2. CASE launchNum = 0 \/ c <= launchNum
    BY <1>1, <1>2 DEF ShareCycles
  <1>3. CASE ~(launchNum = 0 \/ c <= launchNum)
    <2>1. ShareCycles(w) = CyclesOf(c, launchNum, TSC_PER_SEC)
      BY <1>3 DEF ShareCycles, CyclesOf
    <2> HIDE DEF c
    <2>2. c \in Nat \ {0} /\ launchNum \in Nat \ {0}
      BY <1>1, <1>3
    <2> QED
      BY <1>1, <2>1, <2>2, RateOfRecord
  <1> QED
    BY <1>2, <1>3

(* The difference of natural numbers.                                      *)
LEMMA Difference ==
  ASSUME NEW a \in Nat, NEW b \in Nat, b <= a
  PROVE  a - b \in Nat
  OBVIOUS

(* A later number is further from an earlier one.                          *)
LEMMA Between ==
  ASSUME NEW a \in Nat, NEW b \in Nat, NEW c \in Nat
  PROVE  c - a \in Int /\ c - b = (c - a) + (a - b)
  OBVIOUS

(* Before client_init nothing is opened.                                   *)
LEMMA InitPace == Init => Pace
  <1> SUFFICES ASSUME Init PROVE Pace
    OBVIOUS
  <1>1. MaxTsc \in Nat
    BY LaunchAssumption
  <1> QED
    BY <1>1 DEF Init, Pace

(* The launch_num a worker uses is not 0.                                  *)
LEMMA LaunchNumUsed ==
  ASSUME LaunchTypes, NEW w \in Workers, NEW n,
         n = IF launchNum = 0 THEN DefaultLaunch(AssignTask(w, CPS)) ELSE launchNum
  PROVE  n \in Nat \ {0}
  <1>1. AssignTask(w, CPS) \in Nat
    BY ShareType, TargetType DEF LaunchTypes
  <1>2. DefaultLaunch(AssignTask(w, CPS)) \in Nat \ {0}
    <2> DEFINE c == AssignTask(w, CPS)
    <2>1. c \in Nat /\ target \in Targets
      BY <1>1 DEF LaunchTypes
    <2> HIDE DEF c
    <2>2. DefaultLaunch(c) \in Nat \ {0}
      BY <2>1, DefaultLaunchType
    <2> QED BY <2>2 DEF c
  <1> QED
    BY <1>2 DEF LaunchTypes

(* client_init gives a worker its pace, and the others keep theirs: the    *)
(* first launch can only become earlier.                                   *)
LEMMA ClientInitPace ==
  ASSUME SpeedInv, Pace, NEW w \in Workers, ClientInit(w)
  PROVE  Pace'
  <1> DEFINE c == AssignTask(w, CPS)
             n == IF launchNum = 0 THEN DefaultLaunch(c) ELSE launchNum
             iv == IntervalOf(c, n, TSC_PER_SEC)
             at == tsc + WAIT * TSC_PER_SEC
             rec == [cc |-> AssignTask(w, CC), num |-> IF c <= n THEN c ELSE n,
                     interval |-> iv, default |-> iv, next |-> at]
             mine == IF c > 0 THEN rec ELSE Idle
  <1>1. LaunchTypes /\ target \in Targets /\ target' = target /\ CPS' = CPS
    BY DEF SpeedInv, LaunchTypes, ClientInit, CPS
  <1>2. c \in Nat /\ TSC_PER_SEC \in Nat /\ first \in Nat /\ opened \in [Workers -> Nat]
    BY <1>1, ShareType, TargetType DEF Pace
  <1>3. at \in Nat
    <2>1. WAIT * TSC_PER_SEC \in Nat
      BY <1>1, TimesNat, TargetType
    <2> QED BY <2>1 DEF SpeedInv, LaunchTypes
  <1>4. n \in Nat \ {0} /\ (launchNum # 0 => n = launchNum)
    BY <1>1, LaunchNumUsed
  <1>5. /\ cl' = [v \in DOMAIN cl \cup {w} |-> IF v # w THEN cl[v] ELSE mine]
        /\ launchNum' = IF c > 0 THEN n ELSE launchNum
        /\ first' = IF c > 0 THEN Min({first, rec.next}) ELSE first
        /\ w \notin DOMAIN cl /\ opened' = opened /\ tsc' = tsc
    BY DEF ClientInit, IntervalOf
  <1> HIDE DEF n
  <1> DEFINE cycles == CyclesOf(c, n, TSC_PER_SEC)
  <1>6. c > 0 => /\ iv \in Nat /\ iv <= TSC_PER_SEC /\ cycles \in Nat
                 /\ (IF c <= n THEN c ELSE n) * cycles <= c * iv
    <2>1. TSC_PER_SEC \in Nat \ {0}
      BY <1>1, TargetType
    <2> HIDE DEF c
    <2> QED
      BY <1>2, <1>4, <2>1, RateOfRecord
  <1>7. rec.num = (IF c <= n THEN c ELSE n) /\ rec.interval = iv /\ rec.default = iv /\ rec.next = at
    OBVIOUS
  <1>b. (\A v : AssignTask(v, CPS)' = AssignTask(v, CPS)) /\ Share(w) = c
    BY <1>1 DEF AssignTask, Share
  <1>c. c > 0 => ShareCycles(w)' = cycles
    <2>1. c > 0 => launchNum' = n /\ AssignTask(w, CPS)' = c
      BY <1>5, <1>b
    <2> HIDE DEF c
    <2> QED
      BY <1>4, <2>1 DEF ShareCycles, CyclesOf
  <1> HIDE DEF iv, at, rec, c, cycles
  <1>8. first' \in Nat /\ first' <= first /\ (c > 0 => first' <= at)
    <2>1. CASE c > 0
      <3>1. first' = Min({first, at})
        BY <1>5, <1>7, <2>1
      <3>2. first \in Int /\ at \in Int
        BY <1>2, <1>3
      <3>3. Min({first, at}) = IF first <= at THEN first ELSE at
        BY <3>2, MinOfTwo, Zenon
      <3> QED
        BY <1>2, <1>3, <3>1, <3>3
    <2>2. CASE ~(c > 0)
      BY <1>2, <1>5, <2>2
    <2> QED
      BY <2>1, <2>2
  <1>9. opened[w] = 0
    BY <1>5 DEF Pace
  <1>10. \A v : Share(v)' = Share(v)
    BY <1>b DEF Share
  <1>11. Paced(w)'
    <2>1. cl'[w] = mine /\ opened'[w] = 0 /\ Share(w)' = c
      BY <1>5, <1>9, <1>10, <1>b
    <2>2. CASE c > 0
      <3>1. cl'[w].num = (IF c <= n THEN c ELSE n) /\ cl'[w].interval = iv /\ cl'[w].default = iv /\ cl'[w].next = at
        BY <1>7, <2>1, <2>2
      <3>2. cl'[w].num * ShareCycles(w)' <= c * cl'[w].default
        BY <1>6, <1>c, <2>2, <3>1
      <3>3. at - first' \in Nat
        BY <1>3, <1>8, <2>2, Difference, Zenon
      <3>4. opened'[w] * ShareCycles(w)' <= c * (cl'[w].next - first')
        BY <1>2, <1>6, <1>c, <2>1, <2>2, <3>1, <3>3, TimesNat
      <3>5. cl'[w].default <= cl'[w].interval /\ cl'[w].interval <= TSC_PER_SEC /\ first' <= cl'[w].next
        BY <1>6, <1>8, <2>2, <3>1
      <3>6. launchNum' > 0
        BY <1>4, <1>5, <2>2
      <3> QED
        BY <2>1, <2>2, <3>2, <3>4, <3>5, <3>6 DEF Paced
    <2>3. CASE c = 0
      <3>1. cl'[w].num = 0 /\ cl'[w].interval = 0 /\ cl'[w].default = 0 /\ cl'[w].next = 0
        BY <2>1, <2>3 DEF Idle
      <3>2. cl'[w].num * ShareCycles(w)' = 0 /\ opened'[w] * ShareCycles(w)' = 0
        <4>1. AssignTask(w, CPS)' = 0 /\ launchNum' \in Nat
          BY <1>1, <1>5, <1>b, <2>3 DEF LaunchTypes, c
        <4>2. ShareCycles(w)' = TSC_PER_SEC
          BY <4>1 DEF ShareCycles
        <4> QED
          BY <1>2, <2>1, <3>1, <4>2
      <3>3. c * cl'[w].default = 0 /\ c * (cl'[w].next - first') = 0
        <4>1. 0 - first' \in Int
          BY <1>8
        <4> QED
          BY <2>3, <3>1, <4>1
      <3> QED
        BY <1>2, <1>8, <2>1, <2>3, <3>1, <3>2, <3>3 DEF Paced
    <2> QED
      BY <1>2, <2>2, <2>3
  <1>12. ASSUME NEW v \in DOMAIN cl PROVE Paced(v)'
    <2>1. cl'[v] = cl[v] /\ opened'[v] = opened[v] /\ Share(v)' = Share(v) /\ v \in Workers
      BY <1>1, <1>5, <1>10 DEF LaunchTypes
    <2>2. Paced(v)
      BY DEF Pace
    <2>3. Share(v) \in Nat /\ cl[v].next \in Nat /\ opened[v] \in Nat /\ tsc \in Nat
      BY <1>1, <1>2, <2>1, ShareType, TargetType DEF LaunchTypes, ClType, Share
    <2>4. Share(v) * (cl[v].next - first) <= Share(v) * (cl[v].next - first')
      <3> DEFINE a == cl[v].next - first
                 d == first - first'
      <3>1. a \in Int /\ d \in Nat /\ cl[v].next - first' = a + d
        <4>1. first \in Nat /\ first' \in Nat /\ first' <= first /\ cl[v].next \in Nat
          BY <1>2, <1>8, <2>3
        <4>2. first - first' \in Nat
          BY <4>1, Difference, Zenon
        <4>3. cl[v].next - first \in Int /\ cl[v].next - first' = (cl[v].next - first) + (first - first')
          BY <4>1, Between, Zenon
        <4> QED
          BY <4>2, <4>3
      <3> HIDE DEF a, d
      <3>2. Share(v) * (a + d) = Share(v) * a + Share(v) * d /\ Share(v) * d \in Nat /\ Share(v) * a \in Int
        BY <2>3, <3>1, Distribute, TimesNat
      <3>3. Share(v) * a <= Share(v) * (a + d)
        BY <3>2
      <3> QED
        BY <3>1, <3>3 DEF a
    <2>5. Share(v) * (cl[v].next - first) \in Int /\ Share(v) * (cl[v].next - first') \in Int
      BY <1>2, <1>8, <2>3
    <2>a. ShareCycles(v)' = ShareCycles(v) /\ (Share(v) > 0 => launchNum' = launchNum)
      <3>1. AssignTask(v, CPS)' = Share(v) /\ AssignTask(v, CPS) = Share(v)
        BY <1>b DEF Share
      <3>2. CASE Share(v) = 0
        <4>1. launchNum \in Nat /\ launchNum' \in Nat
          BY <1>1, <1>4, <1>5 DEF LaunchTypes
        <4> QED
          BY <3>1, <3>2, <4>1 DEF ShareCycles
      <3>3. CASE Share(v) > 0
        <4>1. launchNum' = launchNum
          BY <1>4, <1>5, <2>2, <3>3 DEF Paced
        <4> QED
          BY <3>1, <4>1 DEF ShareCycles
      <3> QED
        BY <2>3, <3>2, <3>3
    <2>6. opened[v] * ShareCycles(v) \in Nat
      BY <1>1, <2>1, <2>3, ShareCyclesType, TimesNat
    <2>7. opened[v] * ShareCycles(v) <= Share(v) * (cl[v].next - first')
      BY <2>2, <2>4, <2>5, <2>6 DEF Paced
    <2>8. /\ Share(v) > 0 => first' <= cl[v].next /\ launchNum' > 0
          /\ opened[v] > 0 => first' <= tsc
      BY <1>2, <1>8, <2>2, <2>3, <2>a DEF Paced
    <2> QED
      BY <1>5, <2>1, <2>2, <2>7, <2>8, <2>a DEF Paced
  <1>13. DOMAIN cl' = DOMAIN cl \cup {w}
    BY <1>5
  <1> QED
    BY <1>2, <1>5, <1>8, <1>11, <1>12, <1>13 DEF Pace

(* A launch opens at most launch_num connections and moves launch_next by  *)
(* at least the worker's own interval, to at most a second from now.       *)
LEMMA ClientLaunchPace ==
  ASSUME SpeedInv, Pace, NEW w \in Workers, ClientLaunch(w)
  PROVE  Pace'
  <1> DEFINE n == LaunchCount(w)
             k == Cardinality(Picked(w, n) \ busy[w])
             num == cl[w].num
             iv == cl[w].interval
             at == cl[w].next
             s == Share(w)
             T == TSC_PER_SEC
             C == ShareCycles(w)
             o == opened[w]
  <1>1. LaunchTypes /\ target \in Targets /\ UNCHANGED <<target, tsc, first, launchNum>> /\ DOMAIN cl = Workers
    BY DEF SpeedInv, LaunchTypes, ClientLaunch
  <1>2. n \in Nat /\ n <= num
    BY <1>1, LaunchCountFacts
  <1>3. k \in Nat /\ k <= n
    <2> HIDE DEF n
    <2>1. IsFiniteSet(Picked(w, n)) /\ Cardinality(Picked(w, n)) <= n
      BY <1>2, PickedSize
    <2>2. Picked(w, n) \ busy[w] \in SUBSET Picked(w, n)
      OBVIOUS
    <2>3. /\ IsFiniteSet(Picked(w, n) \ busy[w])
          /\ Cardinality(Picked(w, n) \ busy[w]) <= Cardinality(Picked(w, n))
      BY <2>1, <2>2, FS_Subset, Zenon
    <2>4. k \in Nat /\ Cardinality(Picked(w, n)) \in Nat
      BY <2>1, <2>3, FS_CardinalityType, Zenon
    <2>5. k <= Cardinality(Picked(w, n))
      BY <2>3
    <2> HIDE DEF k
    <2> QED
      BY <1>2, <2>1, <2>4, <2>5
  <1>4. /\ cl' = [cl EXCEPT ![w].next = @ + cl[w].interval]
        /\ opened' = [opened EXCEPT ![w] = @ + k]
        /\ cl[w].next <= tsc
    BY DEF ClientLaunch
  <1> HIDE DEF k, n
  <1>5. /\ DOMAIN cl' = Workers
        /\ \A v \in Workers \ {w} : cl'[v] = cl[v]
        /\ cl'[w].num = num /\ cl'[w].interval = iv /\ cl'[w].default = cl[w].default
        /\ cl'[w].next = at + iv
    BY <1>1, <1>4 DEF LaunchTypes, ClType
  <1>6. /\ first \in Nat /\ opened' \in [Workers -> Nat] /\ opened'[w] = o + k
        /\ \A v \in Workers \ {w} : opened'[v] = opened[v]
    BY <1>3, <1>4 DEF Pace
  <1>7. /\ num \in Nat /\ iv \in Nat /\ at \in Nat /\ s \in Nat /\ T \in Nat \ {0} /\ o \in Nat
        /\ cl[w].default \in Nat /\ tsc \in Nat /\ C \in Nat
    BY <1>1, ShareType, TargetType, ShareCyclesType DEF LaunchTypes, ClType, Share, Pace
  <1>8. Paced(w)
    BY <1>1 DEF Pace
  <1>9. \A v : Share(v)' = Share(v) /\ ShareCycles(v)' = ShareCycles(v)
    BY <1>1 DEF Share, ShareCycles, AssignTask, CPS
  <1>a. cl[w].default <= iv /\ iv <= T /\ num * C <= s * cl[w].default
    BY <1>8 DEF Paced
  <1>b. o * C <= s * (at - first) /\ (s > 0 => first <= at /\ launchNum > 0)
    BY <1>8 DEF Paced
  <1>e. (s = 0 => num = 0) /\ (o > 0 => s > 0)
    BY <1>8 DEF Paced
  <1>c. at <= tsc
    BY <1>4
  <1>d. s = Share(w) /\ o = opened[w] /\ T = TSC_PER_SEC /\ C = ShareCycles(w)
    OBVIOUS
  <1> HIDE DEF num, iv, at, s, o, T, C
  <1>10. k * C <= s * iv
    <2>1. k <= num
      BY <1>2, <1>3, <1>7
    <2>2. k * C <= num * C
      BY <1>3, <1>7, <2>1, TimesBoth
    <2>3. s * cl[w].default <= s * iv
      BY <1>7, <1>a, TimesBoth
    <2>4. k * C \in Nat /\ num * C \in Nat /\ s * cl[w].default \in Nat /\ s * iv \in Nat
      BY <1>3, <1>7, TimesNat
    <2> QED
      BY <1>a, <2>2, <2>3, <2>4
  <1>11. (o + k) * C <= s * ((at + iv) - first)
    <2> DEFINE d == at - first
    <2>1. d \in Int /\ (at + iv) - first = d + iv
      BY <1>6, <1>7
    <2>2. (o + k) * C = o * C + k * C /\ s * (d + iv) = s * d + s * iv
      BY <1>3, <1>7, <2>1, Distribute
    <2>3. o * C \in Int /\ k * C \in Int /\ s * d \in Int /\ s * iv \in Int
      BY <1>3, <1>7, <2>1, Distribute
    <2>4. o * C <= s * d
      BY <1>b
    <2> HIDE DEF d
    <2>5. o * C + k * C <= s * d + s * iv
      BY <1>10, <2>3, <2>4
    <2> QED
      BY <2>1, <2>2, <2>5
  <1>12. s > 0 => first <= at + iv /\ first <= tsc /\ at + iv <= tsc + T
    BY <1>6, <1>7, <1>a, <1>b, <1>c
  <1>13. o + k > 0 => s > 0
    <2> SUFFICES ASSUME s = 0 PROVE o + k = 0
      BY <1>3, <1>7
    <2>1. num = 0 /\ o = 0
      BY <1>7, <1>e
    <2> QED
      BY <1>2, <1>3, <1>7, <2>1
  <1>14. Paced(w)'
    <2>1. /\ cl'[w].num * C <= s * cl'[w].default
          /\ cl'[w].default <= cl'[w].interval /\ cl'[w].interval <= T
      BY <1>5, <1>a
    <2>2. opened'[w] * C <= s * (cl'[w].next - first)
      BY <1>5, <1>6, <1>11
    <2>3. (s > 0 => first <= cl'[w].next /\ launchNum > 0) /\ (s = 0 => cl'[w].num = 0)
      BY <1>5, <1>12, <1>b, <1>e
    <2>4. opened'[w] > 0 => s > 0 /\ first <= tsc /\ cl'[w].next <= tsc + T
      BY <1>5, <1>6, <1>12, <1>13
    <2> QED
      BY <1>1, <1>9, <1>d, <2>1, <2>2, <2>3, <2>4, Zenon DEF Paced
  <1>15. ASSUME NEW v \in Workers \ {w} PROVE Paced(v)'
    BY <1>1, <1>5, <1>6, <1>9 DEF Pace, Paced
  <1> QED
    BY <1>1, <1>5, <1>6, <1>14, <1>15 DEF Pace

(* The other steps open nothing; the control thread keeps every interval   *)
(* between the worker's own and a second, and time only moves on.          *)
LEMMA RestPace ==
  ASSUME SpeedInv, Pace,
         \/ \E w \in Workers : Close(w)
         \/ CtlStart \/ CtlSlow \/ CtlRun \/ Interrupt \/ Tick \/ UNCHANGED vars
  PROVE  Pace'
  <1>1. LaunchTypes /\ UNCHANGED <<target, launchNum, opened, first>> /\ tsc \in Nat /\ TSC_PER_SEC \in Nat
    BY TargetType DEF SpeedInv, LaunchTypes, Close, CtlStart, CtlSlow, CtlRun, Interrupt, Tick, vars
  <1>2. tsc' = tsc \/ tsc' = tsc + 1
    BY DEF Close, CtlStart, CtlSlow, CtlRun, Interrupt, Tick, vars
  <1>3. DOMAIN cl' = DOMAIN cl /\ \A v \in DOMAIN cl :
          /\ cl'[v].num = cl[v].num \/ cl'[v].num = 0
          /\ cl'[v].default = cl[v].default /\ cl'[v].next = cl[v].next
          /\ cl[v].default <= cl[v].interval /\ cl[v].interval <= TSC_PER_SEC =>
                cl[v].default <= cl'[v].interval /\ cl'[v].interval <= TSC_PER_SEC
    <2>0. \A v \in DOMAIN cl : cl[v] \in ClType
      BY <1>1 DEF LaunchTypes
    <2>1. CASE CtlStart \/ CtlSlow
      <3>1. PICK x \in Nat : cl' = SetInterval(x)
        <4>1. CASE CtlStart
          <5>1. SlowInterval(1) \in Nat
            BY <1>1, SlowIntervalType
          <5> QED BY <4>1, <5>1 DEF CtlStart
        <4>2. CASE CtlSlow
          <5> DEFINE last == ctl.i = SLOW_START \/ gStop
          <5>1. cl' = SetInterval(IF last THEN 0 ELSE SlowInterval(ctl.i + 1))
            BY <4>2 DEF CtlSlow
          <5>2. ctl.i + 1 \in Nat \ {0}
            BY <1>1 DEF LaunchTypes
          <5>3. SlowInterval(ctl.i + 1) \in Nat
            BY <1>1, <5>2, SlowIntervalType
          <5> HIDE DEF last
          <5> QED BY <5>1, <5>3
        <4> QED
          BY <2>1, <4>1, <4>2
      <3>2. DOMAIN cl' = DOMAIN cl
        BY <3>1 DEF SetInterval
      <3>3. ASSUME NEW v \in DOMAIN cl
            PROVE  /\ cl'[v].num = cl[v].num /\ cl'[v].default = cl[v].default
                   /\ cl'[v].next = cl[v].next /\ cl[v].default <= cl'[v].interval
                   /\ cl[v].default <= TSC_PER_SEC => cl'[v].interval <= TSC_PER_SEC
        <4>1. /\ SetInterval(x)[v].num = cl[v].num /\ SetInterval(x)[v].default = cl[v].default
              /\ SetInterval(x)[v].next = cl[v].next /\ SetInterval(x)[v].interval >= cl[v].default
              /\ cl[v].default <= TSC_PER_SEC => SetInterval(x)[v].interval <= TSC_PER_SEC
              /\ SetInterval(x) \in [DOMAIN cl -> ClType]
          BY <1>1, SetIntervalFacts
        <4>2. SetInterval(x)[v].interval \in Nat /\ cl[v].default \in Nat
          BY <2>0, <4>1 DEF ClType
        <4> QED
          BY <3>1, <4>1, <4>2
      <3>4. \A v \in DOMAIN cl : cl[v].default \in Nat /\ cl[v].interval \in Nat
        BY <2>0 DEF ClType
      <3> QED
        BY <1>1, <3>2, <3>3, <3>4
    <2>2. CASE CtlRun
      <3>1. DOMAIN cl = Workers
        BY <2>2 DEF CtlRun, SpeedInv, Speed
      <3>2. cl' = cl \/ cl' = [w \in Workers |-> [cl[w] EXCEPT !.num = 0]]
        BY <2>2 DEF CtlRun
      <3> QED
        BY <2>0, <3>1, <3>2 DEF ClType
    <2>3. CASE (\E w \in Workers : Close(w)) \/ Interrupt \/ Tick \/ UNCHANGED vars
      <3>1. cl' = cl
        BY <2>3 DEF Close, Interrupt, Tick, vars
      <3> QED
        BY <3>1
    <2> QED
      BY <2>1, <2>2, <2>3
  <1>4. \A v : Share(v)' = Share(v) /\ ShareCycles(v)' = ShareCycles(v)
    BY <1>1 DEF Share, ShareCycles, AssignTask, CPS
  <1>5. ASSUME NEW v \in DOMAIN cl PROVE Paced(v)'
    <2>1. Paced(v) /\ v \in Workers
      BY <1>1 DEF Pace, LaunchTypes
    <2>2. /\ cl[v].default \in Nat /\ Share(v) \in Nat /\ cl[v].next \in Nat
          /\ first \in Nat /\ opened[v] \in Nat /\ ShareCycles(v) \in Nat
      BY <1>1, <2>1, ShareType, TargetType, ShareCyclesType DEF LaunchTypes, ClType, Share, Pace
    <2>3. cl'[v].num * ShareCycles(v) <= Share(v) * cl'[v].default
      <3>1. CASE cl'[v].num = cl[v].num
        BY <1>3, <2>1, <3>1 DEF Paced
      <3>2. CASE cl'[v].num = 0
        <4>1. cl'[v].num * ShareCycles(v) = 0
          BY <2>2, <3>2
        <4>2. Share(v) * cl'[v].default \in Nat
          BY <1>3, <2>2, TimesNat
        <4> QED
          BY <4>1, <4>2
      <3> QED
        BY <1>3, <3>1, <3>2
    <2>4. cl'[v].default <= cl'[v].interval /\ cl'[v].interval <= TSC_PER_SEC /\ cl'[v].next = cl[v].next
      BY <1>3, <2>1 DEF Paced
    <2>5. opened[v] > 0 => Share(v) > 0 /\ first <= tsc' /\ cl[v].next <= tsc' + TSC_PER_SEC
      BY <1>1, <1>2, <2>1, <2>2 DEF Paced
    <2>6. /\ Share(v) > 0 => first <= cl[v].next /\ launchNum > 0
          /\ Share(v) = 0 => cl'[v].num = 0
          /\ opened[v] * ShareCycles(v) <= Share(v) * (cl[v].next - first)
      BY <1>3, <2>1 DEF Paced
    <2> QED
      BY <1>1, <1>4, <2>3, <2>4, <2>5, <2>6, Zenon DEF Paced
  <1> QED
    BY <1>1, <1>3, <1>5 DEF Pace

(* Types, speeds and paces hold throughout.                                *)
THEOREM PaceHolds == Spec => [](SpeedInv /\ Pace)
  <1>1. Init => Pace
    BY InitPace
  <1>2. SpeedInv /\ Pace /\ [Next]_vars => Pace'
    <2> SUFFICES ASSUME SpeedInv, Pace, [Next]_vars PROVE Pace'
      OBVIOUS
    <2>1. ASSUME NEW w \in Workers, ClientInit(w) PROVE Pace'
      BY <2>1, ClientInitPace
    <2>2. ASSUME NEW w \in Workers, ClientLaunch(w) PROVE Pace'
      BY <2>2, ClientLaunchPace
    <2>3. ASSUME NEW w \in Workers, Close(w) PROVE Pace'
      BY <2>3, RestPace
    <2>4. ASSUME CtlStart \/ CtlSlow \/ CtlRun \/ Interrupt \/ Tick \/ UNCHANGED vars
          PROVE  Pace'
      BY <2>4, RestPace
    <2> QED
      BY <2>1, <2>2, <2>3, <2>4, Zenon DEF Next
  <1>3. Spec => []SpeedInv
    BY SpeedInvariant
  <1> QED
    BY <1>1, <1>2, <1>3, PTL DEF Spec

(* Euclidean division is unique: equal places in rows of length T are the  *)
(* same row and the same place.                                            *)
LEMMA SamePlace ==
  ASSUME NEW T \in Nat \ {0}, NEW a \in Nat, NEW b \in Nat, NEW i \in 1 .. T, NEW j \in 1 .. T,
         a * T + i = b * T + j
  PROVE  a = b /\ i = j
  <1>1. ASSUME NEW x \in Nat, NEW y \in Nat, x < y PROVE x * T + T <= y * T /\ x * T \in Nat /\ y * T \in Nat
    <2>1. x + 1 \in Nat /\ x + 1 <= y
      BY <1>1
    <2>2. (x + 1) * T <= y * T
      BY <2>1, TimesBoth
    <2>3. (x + 1) * T = x * T + 1 * T /\ 1 * T = T
      BY Distribute
    <2>4. x * T \in Nat /\ y * T \in Nat
      BY TimesNat
    <2> QED
      BY <2>2, <2>3, <2>4
  <1>2. a * T \in Nat /\ b * T \in Nat
    BY TimesNat
  <1>3. ~(a < b)
    BY <1>1, <1>2
  <1>4. ~(b < a)
    BY <1>1, <1>2
  <1> QED
    BY <1>2, <1>3, <1>4

(* The unit j of connection k of a worker lies in the rows of its share.   *)
LEMMA UnitInShare ==
  ASSUME NEW P \in Nat \ {0}, NEW T \in Nat, NEW o \in Nat, NEW s \in Nat, NEW m \in Nat,
         m * P <= s * T, NEW k \in 1 .. m, NEW j \in 1 .. P
  PROVE  /\ o * T + ((k - 1) * P + j) \in Nat
         /\ o * T < o * T + ((k - 1) * P + j)
         /\ o * T + ((k - 1) * P + j) <= (o + s) * T
  <1>1. k - 1 \in Nat /\ k \in Nat /\ k <= m
    OBVIOUS
  <1>2. (k - 1) * P \in Nat /\ k * P \in Nat /\ o * T \in Nat /\ m * P \in Nat /\ s * T \in Nat
    BY <1>1, TimesNat
  <1>3. ((k - 1) + 1) * P = (k - 1) * P + 1 * P /\ (o + s) * T = o * T + s * T
    BY <1>1, Distribute
  <1>4. k * P <= m * P
    BY <1>1, TimesBoth
  <1>5. (k - 1) + 1 = k /\ 1 * P = P
    BY <1>1
  <1>6. (k - 1) * P + P = k * P
    BY <1>3, <1>5
  <1> QED
    BY <1>2, <1>3, <1>4, <1>6

(* Finitely many connections have been opened.                             *)
LEMMA OpeningsFinite ==
  ASSUME LaunchTypes, opened \in [Workers -> Nat]
  PROVE  IsFiniteSet(Openings)
  <1>1. \A w \in Workers : IsFiniteSet({w} \X (1 .. opened[w]))
    <2> TAKE w \in Workers
    <2>1. opened[w] \in Int /\ 1 \in Int
      OBVIOUS
    <2>2. IsFiniteSet(1 .. opened[w]) /\ IsFiniteSet({w})
      BY <2>1, FS_Interval, FS_Singleton, Zenon
    <2> QED
      BY <2>2, FS_Product, Zenon
  <1>2. 0 \in Int /\ CPU_NUM - 1 \in Int
    BY TargetType DEF LaunchTypes
  <1>3. IsFiniteSet(Workers)
    BY <1>2, FS_Interval, Zenon DEF Workers
  <1> DEFINE G == {{w} \X (1 .. opened[w]) : w \in Workers}
  <1>4. IsFiniteSet(G) /\ \A S \in G : IsFiniteSet(S)
    <2> DEFINE g == [w \in Workers |-> {w} \X (1 .. opened[w])]
    <2>1. G = {g[w] : w \in Workers}
      OBVIOUS
    <2>2. g \in Surjection(Workers, G)
      BY DEF Surjection
    <2> HIDE DEF g, G
    <2>3. IsFiniteSet(G)
      BY <1>3, <2>2, FS_Surjection, Zenon
    <2> QED
      BY <1>1, <2>3 DEF G
  <1> QED
    BY <1>4, FS_UNION DEF Openings

(* Each worker within its share of the rate means the client within cps:   *)
(* the connections, P units each, can be laid without overlap              *)
(* into CPS rows of T units.                                               *)
LEMMA PacesAddUp ==
  ASSUME LaunchTypes, opened \in [Workers -> Nat], NEW T \in Nat \ {0}, NEW P \in Nat \ {0},
         \A w \in Workers : opened[w] * P <= Share(w) * T
  PROVE  Cardinality(Openings) * P <= CPS * T
  <1> DEFINE s(w) == AssignTask(w, CPS)
             o(w) == Offset(w, CPS)
             D == Openings \X (1 .. P)
             N == CPS * T
             U(d) == o(d[1][1]) * T + ((d[1][2] - 1) * P + d[2])
             F == [d \in D |-> U(d)]
  <1>1. CPS \in Nat /\ CPU_NUM \in Nat \ {0} /\ P \in Nat \ {0} /\ N \in Nat
    BY TimesNat, TargetType DEF LaunchTypes
  <1>2. ASSUME NEW v \in Workers, NEW w \in Workers
        PROVE  /\ o(w) \in Nat /\ s(w) \in Nat
               /\ s(w) > 0 => o(w) + s(w) <= CPS
               /\ v < w => o(v) + s(v) <= o(w)
    BY <1>1, SharesDisjoint, ShareType
  <1>3. \A w \in Workers : opened[w] \in Nat /\ opened[w] * P <= s(w) * T
    BY DEF Share
  <1> HIDE DEF s, o, N
  <1>4. ASSUME NEW d \in D
        PROVE  /\ d = <<<<d[1][1], d[1][2]>>, d[2]>> /\ d[1][1] \in Workers
               /\ d[1][2] \in 1 .. opened[d[1][1]] /\ d[2] \in 1 .. P
    <2>1. d = <<d[1], d[2]>> /\ d[1] \in Openings /\ d[2] \in 1 .. P
      OBVIOUS
    <2>2. PICK w \in Workers : d[1] \in {w} \X (1 .. opened[w])
      BY <2>1 DEF Openings
    <2>3. d[1] = <<d[1][1], d[1][2]>> /\ d[1][1] = w /\ d[1][2] \in 1 .. opened[w]
      BY <2>2
    <2> QED
      BY <2>1, <2>3
  <1>5. ASSUME NEW d \in D
        PROVE  /\ U(d) \in 1 .. N
               /\ o(d[1][1]) * T < U(d) /\ U(d) <= (o(d[1][1]) + s(d[1][1])) * T
    <2> DEFINE w == d[1][1]
               k == d[1][2]
               j == d[2]
    <2>1. w \in Workers /\ k \in 1 .. opened[w] /\ j \in 1 .. P
      BY <1>4
    <2> HIDE DEF w, k, j
    <2>2. o(w) \in Nat /\ s(w) \in Nat /\ opened[w] \in Nat /\ opened[w] * P <= s(w) * T
      BY <1>2, <1>3, <2>1
    <2>3. /\ o(w) * T + ((k - 1) * P + j) \in Nat
          /\ o(w) * T < o(w) * T + ((k - 1) * P + j)
          /\ o(w) * T + ((k - 1) * P + j) <= (o(w) + s(w)) * T
      BY <1>1, <2>1, <2>2, UnitInShare
    <2>4. s(w) > 0
      <3>1. opened[w] > 0
        BY <2>1, <2>2
      <3>2. opened[w] * P > 0 /\ opened[w] * P \in Nat
        BY <1>1, <2>2, <3>1, TimesNat
      <3>3. s(w) = 0 => s(w) * T = 0
        OBVIOUS
      <3> QED
        BY <2>2, <3>2, <3>3
    <2>5. (o(w) + s(w)) * T <= N
      <3>1. o(w) + s(w) <= CPS /\ o(w) + s(w) \in Nat
        BY <1>2, <2>1, <2>2, <2>4
      <3> QED
        BY <1>1, <3>1, TimesBoth DEF N
    <2>6. o(w) * T \in Nat /\ (o(w) + s(w)) * T \in Nat
      BY <2>2, TimesNat
    <2>7. o(w) * T + ((k - 1) * P + j) \in 1 .. N
      BY <1>1, <2>3, <2>5, <2>6
    <2> QED
      BY <2>3, <2>7 DEF w, k, j
  <1>6. ASSUME NEW c \in D, NEW d \in D, U(c) = U(d)
        PROVE  c = d
    <2> DEFINE v == c[1][1]
               w == d[1][1]
    <2>1. v \in Workers /\ w \in Workers /\ v \in Nat /\ w \in Nat
      BY <1>4 DEF Workers
    <2>2. /\ o(v) * T < U(c) /\ U(c) <= (o(v) + s(v)) * T /\ U(c) \in Nat
          /\ o(w) * T < U(c) /\ U(c) <= (o(w) + s(w)) * T
      BY <1>5, <1>6
    <2>a. c[1][2] \in 1 .. opened[v] /\ d[1][2] \in 1 .. opened[w] /\ c[2] \in 1 .. P /\ d[2] \in 1 .. P
      BY <1>4
    <2>b. o(v) * T + ((c[1][2] - 1) * P + c[2]) = o(w) * T + ((d[1][2] - 1) * P + d[2])
      BY <1>6
    <2> HIDE DEF U, v, w
    <2>3. ASSUME NEW x \in Workers, NEW y \in Workers, x < y
          PROVE  (o(x) + s(x)) * T <= o(y) * T /\ (o(x) + s(x)) * T \in Nat /\ o(y) * T \in Nat
      <3>1. o(x) + s(x) <= o(y) /\ o(x) + s(x) \in Nat /\ o(y) \in Nat
        BY <1>2, <2>3
      <3> QED
        BY <3>1, TimesBoth, TimesNat
    <2>4. ~(v < w)
      BY <2>1, <2>2, <2>3
    <2>5. ~(w < v)
      BY <2>1, <2>2, <2>3
    <2>6. v = w
      BY <2>1, <2>4, <2>5
    <2>7. c[1][2] - 1 \in Nat /\ d[1][2] - 1 \in Nat
      BY <1>3, <2>1, <2>a
    <2>8. (c[1][2] - 1) * P + c[2] = (d[1][2] - 1) * P + d[2]
      <3>1. o(w) * T \in Nat /\ (c[1][2] - 1) * P + c[2] \in Int /\ (d[1][2] - 1) * P + d[2] \in Int
        <4>1. o(w) \in Nat
          BY <1>2, <2>1
        <4>2. (c[1][2] - 1) * P \in Nat /\ (d[1][2] - 1) * P \in Nat
          BY <1>1, <2>7, TimesNat
        <4> QED
          BY <2>a, <4>1, <4>2, TimesNat
      <3> QED
        BY <2>b, <2>6, <3>1
    <2>9. c[1][2] - 1 = d[1][2] - 1 /\ c[2] = d[2]
      <3> DEFINE a == c[1][2] - 1
                 b == d[1][2] - 1
                 i == c[2]
                 j == d[2]
      <3>1. a \in Nat /\ b \in Nat /\ i \in 1 .. P /\ j \in 1 .. P /\ a * P + i = b * P + j
        BY <2>a, <2>7, <2>8
      <3> HIDE DEF a, b, i, j
      <3>2. a = b /\ i = j
        BY <1>1, <3>1, SamePlace
      <3> QED
        BY <3>2 DEF a, b, i, j
    <2>10. c[1][2] = d[1][2]
      BY <1>3, <2>1, <2>a, <2>9
    <2>11. c[1][1] = d[1][1]
      BY <2>6 DEF v, w
    <2> QED
      BY <1>4, <2>9, <2>10, <2>11
  <1>7. F \in Injection(D, 1 .. N)
    <2>1. \A d \in D : F[d] = U(d)
      OBVIOUS
    <2>2. F = [d \in D |-> F[d]]
      OBVIOUS
    <2> HIDE DEF F, D, U
    <2>3. F \in [D -> 1 .. N] /\ \A a, b \in D : F[a] = F[b] => a = b
      BY <1>5, <1>6, <2>1, <2>2
    <2> QED BY <2>3, Fun_IsInj
  <1>8. IsFiniteSet(1 .. N) /\ Cardinality(1 .. N) = N /\ IsFiniteSet(1 .. P) /\ Cardinality(1 .. P) = P
    <2>1. N \in Int /\ 1 \in Int /\ P \in Int
      BY <1>1
    <2>2. /\ IsFiniteSet(1 .. N) /\ Cardinality(1 .. N) = IF 1 > N THEN 0 ELSE N - 1 + 1
          /\ IsFiniteSet(1 .. P) /\ Cardinality(1 .. P) = IF 1 > P THEN 0 ELSE P - 1 + 1
      BY <2>1, FS_Interval, Zenon
    <2> QED
      BY <1>1, <2>2
  <1>9. Cardinality(D) <= N
    <2> HIDE DEF F, D
    <2>1. Cardinality(D) <= Cardinality(1 .. N)
      BY <1>7, <1>8, FS_Injection, Zenon
    <2> QED
      BY <1>8, <2>1
  <1>10. IsFiniteSet(Openings)
    BY OpeningsFinite
  <1>11. Cardinality(D) = Cardinality(Openings) * P
    <2>1. Cardinality(D) = Cardinality(Openings) * Cardinality(1 .. P)
      BY <1>8, <1>10, FS_Product, Zenon
    <2> QED
      BY <1>8, <2>1
  <1>12. Cardinality(Openings) * P <= N
    BY <1>9, <1>11
  <1> QED
    BY <1>12 DEF N

(* What the pace of a worker allows it by now.                             *)
LEMMA PaceIsRate ==
  ASSUME LaunchTypes, Pace
  PROVE  WithinCps
  <1> DEFINE t == Max({tsc - first, 0})
             T == t + TSC_PER_SEC
             P == TSC_PER_SEC
             All == {ShareCycles(w) : w \in Workers}
             second == Min(All)
  <1>1. tsc \in Nat /\ first \in Nat /\ P \in Nat \ {0} /\ opened \in [Workers -> Nat]
    BY TargetType DEF LaunchTypes, Pace
  <1>2. t = IF tsc - first >= 0 THEN tsc - first ELSE 0
    <2>1. tsc - first \in Int /\ 0 \in Int
      BY <1>1
    <2> QED
      BY <2>1, MaxOfTwo, Zenon
  <1>3. T \in Nat \ {0} /\ (first <= tsc => T = (tsc - first) + P)
    <2> HIDE DEF t
    <2> QED BY <1>1, <1>2
  <1> HIDE DEF t
  <1> HIDE DEF T
  <1>4. second \in Nat /\ \A w \in Workers : second <= ShareCycles(w)
    <2>1. All \subseteq Nat
      BY ShareCyclesType
    <2>2. 0 \in Workers
      BY TargetType DEF LaunchTypes, Workers
    <2>3. All # {}
      BY <2>2
    <2> HIDE DEF All
    <2>4. Min(All) \in All /\ \A y \in All : Min(All) <= y
      BY <2>1, <2>3, MinOfNats
    <2>5. Min(All) \in Nat
      BY <2>1, <2>4
    <2> QED
      BY <2>4, <2>5 DEF All
  <1> HIDE DEF second
  <1>5. ASSUME NEW w \in Workers PROVE opened[w] * second <= Share(w) * T
    <2>1. Share(w) \in Nat /\ opened[w] \in Nat /\ ShareCycles(w) \in Nat
      BY <1>1, ShareType, TargetType, ShareCyclesType DEF LaunchTypes, Share
    <2>2. CASE opened[w] = 0
      <3>1. opened[w] * second = 0 /\ Share(w) * T \in Nat
        BY <1>1, <1>3, <1>4, <2>1, <2>2, TimesNat
      <3> QED
        BY <3>1
    <2>3. CASE opened[w] # 0
      <3>1. w \in DOMAIN cl /\ Paced(w)
        BY <2>3 DEF Pace
      <3>2. cl[w].next \in Nat
        BY <3>1 DEF LaunchTypes, ClType
      <3>3. /\ Share(w) > 0 /\ first <= tsc /\ cl[w].next <= tsc + TSC_PER_SEC /\ first <= cl[w].next
            /\ opened[w] * ShareCycles(w) <= Share(w) * (cl[w].next - first)
        BY <2>1, <2>3, <3>1 DEF Paced
      <3> DEFINE d == cl[w].next - first
      <3>4. d \in Nat /\ d <= T
        BY <1>1, <1>3, <3>2, <3>3
      <3>5. opened[w] * ShareCycles(w) <= Share(w) * d
        BY <3>3
      <3> HIDE DEF d
      <3>6. Share(w) * d <= Share(w) * T
        BY <1>3, <2>1, <3>4, TimesBoth
      <3>7. opened[w] * second <= opened[w] * ShareCycles(w)
        BY <1>4, <2>1, TimesBoth
      <3>8. /\ opened[w] * ShareCycles(w) \in Nat /\ opened[w] * second \in Nat
            /\ Share(w) * d \in Nat /\ Share(w) * T \in Nat
        BY <1>3, <1>4, <2>1, <3>4, TimesNat
      <3> QED
        BY <3>5, <3>6, <3>7, <3>8
    <2> QED
      BY <2>2, <2>3
  <1>6. Cardinality(Openings) * second <= CPS * T
    <2>1. CASE second = 0
      <3>1. Cardinality(Openings) \in Nat
        BY <1>1, OpeningsFinite, FS_CardinalityType
      <3>2. CPS * T \in Nat
        BY <1>3, TimesNat, TargetType DEF LaunchTypes
      <3>3. Cardinality(Openings) * 0 = 0
        BY <3>1
      <3> QED
        BY <2>1, <3>2, <3>3
    <2>2. CASE second # 0
      BY <1>1, <1>3, <1>4, <1>5, <2>2, PacesAddUp
    <2> QED
      BY <2>1, <2>2
  <1> QED
    BY <1>6 DEF WithinCps, T, t, second

(* cps caps the rate of the whole client: t seconds after the first worker *)
(* may launch, at most cps * (t + 1) connections have been opened, through *)
(* slow start, late workers that catch up, and interrupts; for every       *)
(* number of workers, every target, every configured launch_num and every  *)
(* frequency of the TSC, with the seconds as short as client_init's        *)
(* rounding of the interval makes them.                                    *)
THEOREM CpsIsACap == Spec => []WithinCps
  <1>1. Spec => [](SpeedInv /\ Pace)
    BY PaceHolds
  <1>2. SpeedInv /\ Pace => WithinCps
    BY PaceIsRate DEF SpeedInv
  <1> QED
    BY <1>1, <1>2, PTL
=============================================================================
