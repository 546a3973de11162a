---------------------------- MODULE S2SAppProofs ----------------------------
(* Theorems about S2SApp, for any of the eight programs and however often   *)
(* their sessions are lost.                                                 *)
EXTENDS S2SApp, TLAPS

(* How much of its three names demo8 has subscribed.                        *)
Subscribed(k) == {g_subscribes[i] : i \in 1 .. k}

(* There is news, or onReadData() is about to act on it.                    *)
Informed == readable \/ at = "polled"

(* demo4 takes one step: it registers itself once all it asked for has been *)
(* pulled, and until then the notification of that is still to come.        *)
Demo4Waits ==
  demo = 4 =>
    /\ unsent \/ registered # "" => mine # ""
    /\ mine # "" => waiting = {}
    /\ mine = "" /\ waiting = {} => Informed

(* demo8 goes from name to name, and is told when it may take the next.     *)
Demo8Walks ==
  demo = 8 =>
    /\ subIndex \in 0 .. 3
    /\ asked = Subscribed(subIndex)
    /\ subIndex < 3 /\ waiting = {} /\ status # "off" => Informed

(* The inductive invariant.                                                 *)
Inv == Demo4Waits /\ Demo8Walks

-----------------------------------------------------------------------------
(* Which program is running is settled at the start. *)
LEMMA SameDemo == Next => demo' = demo
  BY DEF Next, Connected, Lost, Result, Change, Register, Poll, onReadData, Return,
         onTimeout

(* Init leaves demo4 and demo8 without a registration and without a result. *)
LEMMA InvInit == Init => Inv
PROOF
  <1> SUFFICES ASSUME Init PROVE Inv
    OBVIOUS
  <1>1. CASE demo = 4
    <2>1. Started[demo] = Starts({"service"}, "", "none")
      BY <1>1 DEF Started, Demo4Starts
    <2>2. /\ Starts({"service"}, "", "none").registers = ""
          /\ Starts({"service"}, "", "none").subscribes = {"service"}
      BY DEF Starts
    <2>3. mine = "" /\ waiting = {"service"} /\ registered = "" /\ ~unsent
      BY <2>1, <2>2, Zenon DEF Init
    <2>4. Demo4Waits
      BY <2>3 DEF Demo4Waits
    <2> QED BY <1>1, <2>4 DEF Inv, Demo8Walks
  <1>2. CASE demo = 8
    <2>1. Started[demo] = Starts({}, "info", "none")
      BY <1>2 DEF Started, Demo8Starts
    <2>2. Started[demo].subscribes = {}
      BY <2>1 DEF Starts
    <2>3. asked = {} /\ subIndex = 0 /\ status = "off"
      BY <2>2, Zenon DEF Init
    <2>4. asked = Subscribed(subIndex)
      BY <2>3 DEF Subscribed
    <2>5. Demo8Walks
      BY <2>3, <2>4 DEF Demo8Walks
    <2> QED BY <1>2, <2>5 DEF Inv, Demo4Waits
  <1>3. CASE demo \notin {4, 8}
    BY <1>3 DEF Inv, Demo4Waits, Demo8Walks
  <1> QED BY <1>1, <1>2, <1>3

(* demo4 sets its registration in onReadData() alone, and then all it asked *)
(* for has been pulled, which nothing takes back.                           *)
LEMMA Demo4Next == Demo4Waits /\ [Next]_vars => Demo4Waits'
PROOF
  <1> SUFFICES ASSUME Demo4Waits, [Next]_vars, demo' = 4 PROVE Demo4Waits'
    BY DEF Demo4Waits
  <1>1. demo = 4 /\ demo \notin {1, 2, 3, 5, 6, 7, 8}
    <2>1. demo = 4
      BY SameDemo DEF vars
    <2> QED BY <2>1
  <1> USE <1>1 DEF Demo4Waits, Informed
  <1>2. CASE Connected
    BY <1>2 DEF Connected, subVars, regVars
  <1>3. CASE Lost
    BY <1>3 DEF Lost, subVars
  <1>4. ASSUME NEW n, Result(n) PROVE Demo4Waits'
    BY <1>4 DEF Result, regVars
  <1>5. ASSUME NEW n, Change(n) PROVE Demo4Waits'
    BY <1>5 DEF Change, subVars, regVars
  <1>6. CASE Register
    BY <1>6 DEF Register, subVars
  <1>7. CASE Poll
    BY <1>7 DEF Poll, subVars, regVars
  <1>8. CASE onReadData
    <2>1. Demo4Reads /\ registered' = registered
      <3>1. ~Demo1Reads /\ ~OthersRead /\ ~Demo8Reads
        BY <1>1, Zenon DEF Demo1Reads, OthersRead, Demo8Reads
      <3> QED BY <1>8, <3>1 DEF onReadData, Return
    <2>2. CASE waiting = {}
      <3>1. mine' = "info" /\ waiting' = {}
        BY <2>1, <2>2 DEF Demo4Reads, MayRegister, isPullAllSub, SetMine, subVars
      <3>2. mine' # ""
        BY <3>1
      <3> QED BY <3>1, <3>2
    <2>3. CASE waiting # {}
      <3>1. mine' = mine /\ unsent' = unsent /\ waiting' = waiting
        BY <2>1, <2>3 DEF Demo4Reads, MayRegister, isPullAllSub, regVars, subVars
      <3> QED BY <2>1, <2>3, <3>1
    <2> QED BY <2>2, <2>3
  <1>9. CASE onTimeout
    BY <1>1, <1>9, Zenon DEF onTimeout, Demo5Adds, Demo6Changes
  <1>10. CASE UNCHANGED vars
    BY <1>10 DEF vars, subVars, regVars
  <1> QED BY <1>2, <1>3, <1>4, <1>5, <1>6, <1>7, <1>8, <1>9, <1>10 DEF Next

(* demo8 waits for the name it subscribed last, as long as there was one.   *)
LEMMA Demo8Next == Demo8Walks /\ [Next]_vars => Demo8Walks'
PROOF
  <1> SUFFICES ASSUME Demo8Walks, [Next]_vars, demo' = 8 PROVE Demo8Walks'
    BY DEF Demo8Walks
  <1>1. demo = 8 /\ demo \notin {1, 2, 3, 4, 5, 6, 7}
    <2>1. demo = 8
      BY SameDemo DEF vars
    <2> QED BY <2>1
  <1> USE <1>1 DEF Demo8Walks, Informed
  <1>2. CASE Connected
    BY <1>2 DEF Connected, subVars, appVars
  <1>3. CASE Lost
    BY <1>3 DEF Lost, subVars, appVars
  <1>4. ASSUME NEW n, Result(n) PROVE Demo8Walks'
    BY <1>4 DEF Result, appVars
  <1>5. ASSUME NEW n, Change(n) PROVE Demo8Walks'
    BY <1>5 DEF Change, subVars, appVars
  <1>6. CASE Register
    BY <1>6 DEF Register, subVars, appVars
  <1>7. CASE Poll
    BY <1>7 DEF Poll, subVars, appVars
  <1>8. CASE onReadData
    <2>1. Demo8Reads /\ status' = status
      <3>1. ~Demo1Reads /\ ~OthersRead /\ ~Demo4Reads
        BY <1>1, Zenon DEF Demo1Reads, OthersRead, Demo4Reads
      <3> QED BY <1>8, <3>1 DEF onReadData, Return
    <2>2. Len(g_subscribes) = 3
      BY DEF g_subscribes
    <2>3. CASE subIndex = 3
      <3>1. NextIndex = {} /\ subIndex' = 3
        BY <2>1, <2>2, <2>3 DEF NextIndex, Taken, Demo8Reads
      <3>2. asked' = asked
        BY <2>1, <3>1 DEF Demo8Reads, Subscribe
      <3> QED BY <2>3, <3>1, <3>2
    <2>4. CASE subIndex < 3
      <3>1. NextIndex = {subIndex + 1} /\ subIndex' = subIndex + 1
        <4>1. subIndex + 1 \in 1 .. Len(g_subscribes)
          BY <2>2, <2>4
        <4>2. NextIndex = {subIndex + 1}
          BY <4>1 DEF NextIndex
        <4> QED BY <2>1, <4>2 DEF Taken, Demo8Reads
      <3>2. /\ asked' = asked \cup {g_subscribes[subIndex + 1]}
            /\ waiting' = waiting \cup {g_subscribes[subIndex + 1]}
        BY <2>1, <3>1 DEF Demo8Reads, Subscribe
      <3>3. Subscribed(subIndex + 1) = Subscribed(subIndex) \cup {g_subscribes[subIndex + 1]}
        BY <2>4 DEF Subscribed
      <3>4. waiting' # {} /\ subIndex' \in 0 .. 3 /\ asked' = Subscribed(subIndex')
        BY <2>4, <3>1, <3>2, <3>3
      <3> QED BY <3>4
    <2> QED BY <2>3, <2>4
  <1>9. CASE onTimeout
    BY <1>1, <1>9, Zenon DEF onTimeout, Demo5Adds, Demo6Changes
  <1>10. CASE UNCHANGED vars
    BY <1>10 DEF vars, subVars, appVars
  <1> QED BY <1>2, <1>3, <1>4, <1>5, <1>6, <1>7, <1>8, <1>9, <1>10 DEF Next

THEOREM Invariance == Spec => []Inv
PROOF
  <1>1. Inv /\ [Next]_vars => Inv'
    BY Demo4Next, Demo8Next DEF Inv
  <1> QED BY InvInit, <1>1, PTL DEF Spec

(* demo4 is registered only with all it depends on pulled, whatever comes   *)
(* between its onReadData() and the service taking the registration.        *)
THEOREM DependenciesFirst == Spec => []DependsFirst
PROOF
  <1>1. Inv => DependsFirst
    BY DEF Inv, Demo4Waits, DependsFirst
  <1> QED BY <1>1, Invariance, PTL

(* demo4 and demo8 never come to a halt half way.                           *)
THEOREM NoHalt == Spec => []NothingLeftUndone
PROOF
  <1>1. Subscribed(3) = {g_subscribes[i] : i \in DOMAIN g_subscribes}
    BY DEF Subscribed, g_subscribes
  <1>2. ASSUME Inv, at = "loop" /\ ~readable /\ waiting = {} /\ status # "off"
        PROVE  /\ demo = 4 => mine # ""
               /\ demo = 8 => asked = {g_subscribes[i] : i \in DOMAIN g_subscribes}
    <2>1. ~Informed
      BY <1>2 DEF Informed
    <2>2. demo = 4 => mine # ""
      BY <1>2, <2>1 DEF Inv, Demo4Waits
    <2>3. demo = 8 => subIndex = 3 /\ asked = Subscribed(subIndex)
      BY <1>2, <2>1 DEF Inv, Demo8Walks
    <2> QED BY <1>1, <2>2, <2>3
  <1>3. Inv => NothingLeftUndone
    BY <1>2 DEF NothingLeftUndone
  <1> QED BY <1>3, Invariance, PTL
=============================================================================
