------------------------------- MODULE S2SApp -------------------------------
(* The applications demo1 to demo8 of s2s_example: what each asks of its    *)
(* session with the S2S service, from init(), from onReadData() and from    *)
(* its timer.  libev runs the callbacks one at a time; the SDK works in a   *)
(* thread of its own and makes the fd readable when there is news.          *)
(*                                                                          *)
(* The SDK is outside this repository; it is modelled from s2sClientIf.h    *)
(* and from what the applications take for granted.  demo7 has two sessions *)
(* that share nothing, each of which behaves like one here.                 *)
EXTENDS Naturals, Sequences

CONSTANTS Demo,      \* the programs of the instance, among 1 .. 8
          MaxLosses  \* bound of the instances: how often a session is lost
ASSUME DemoAssumption == Demo \subseteq 1 .. 8
ASSUME LossAssumption == MaxLosses \in Nat

VARIABLES
  demo,        \* which program runs
  at,          \* in ev_run's "loop", or in onReadData, having "polled"
  flag,        \* demo1: whether the first notification is still to come
  subIndex,    \* demo8: g_subIndex
  timer,       \* "none", "armed" or "fired"
  status,      \* of the session: "off", "on", or "bind" once registered
  asked,       \* the names subscribed
  waiting,     \* those whose result the SDK has not got
  news,        \* those about which pollNotify() has something to return
  readable,    \* whether the fd is readable
  mine,        \* what was set with setMine() last, "" before
  unsent,      \* whether the service is still to be told of it
  registered,  \* what the service holds for this session, or ""
  known,       \* history: the names about which the application was told
  losses       \* how often the session was lost

appVars == <<flag, subIndex, timer>>
subVars == <<asked, waiting>>
regVars == <<mine, unsent>>
vars == <<demo, at, appVars, status, subVars, news, readable, regVars,
          registered, known, losses>>

(* What the programs subscribe, by its role: the service a program depends  *)
(* on, the one demo5 adds, and the three of demo8.                          *)
g_subscribes == <<"first", "second", "third">>
Name == {"service", "added", "first", "second", "third"}

(* What init(), and main up to ev_run(), leave behind in each program.      *)
Starts(S, d, t) == [subscribes |-> S, registers |-> d, timer |-> t]
Demo1Starts == Starts({"service"}, "", "none")
Demo2Starts == Starts({}, "info", "none")
Demo3Starts == Starts({"service"}, "info", "none")
Demo4Starts == Starts({"service"}, "", "none")
Demo5Starts == Starts({"service"}, "", "armed")
Demo6Starts == Starts({}, "info", "armed")
Demo7Starts == Starts({}, "info", "none")
Demo8Starts == Starts({}, "info", "none")
Started == <<Demo1Starts, Demo2Starts, Demo3Starts, Demo4Starts,
             Demo5Starts, Demo6Starts, Demo7Starts, Demo8Starts>>

Init ==
  /\ demo \in Demo
  /\ at = "loop" /\ flag = TRUE /\ subIndex = 0
  /\ timer = Started[demo].timer
  /\ asked = Started[demo].subscribes
  /\ waiting = asked
  /\ mine = Started[demo].registers
  /\ unsent = (mine # "")
  /\ status = "off" /\ registered = ""
  /\ news = {} /\ readable = FALSE /\ known = {} /\ losses = 0

-----------------------------------------------------------------------------
(* The SDK (external): what the application calls.                          *)
Subscribe(S) == asked' = asked \cup S /\ waiting' = waiting \cup S
SetMine(d) == mine' = d /\ unsent' = TRUE
isPullAllSub == waiting = {}

(* The SDK connects by itself, and again after a loss; then it asks again   *)
(* for what it has not got, and registers again.                            *)
Connected ==
  /\ status = "off"
  /\ status' = "on" /\ readable' = TRUE
  /\ UNCHANGED <<demo, at, appVars, subVars, news, regVars, registered, known, losses>>

Lost ==
  /\ status # "off"
  /\ losses < MaxLosses
  /\ losses' = losses + 1
  /\ status' = "off" /\ readable' = TRUE
  /\ registered' = "" /\ unsent' = (mine # "")
  /\ UNCHANGED <<demo, at, appVars, subVars, news, mine, known>>

(* The result of a subscription comes.  From version 3.0.1 on, isPullAllSub *)
(* tells of it no later than the notification.                              *)
Result(n) ==
  /\ status # "off"
  /\ waiting' = waiting \ {n}
  /\ news' = news \cup {n} /\ readable' = TRUE
  /\ UNCHANGED <<demo, at, appVars, status, asked, regVars, registered, known, losses>>

(* Something changes about a name that was found. *)
Change(n) ==
  /\ status # "off"
  /\ n \notin waiting
  /\ news' = news \cup {n} /\ readable' = TRUE
  /\ UNCHANGED <<demo, at, appVars, status, subVars, regVars, registered, known, losses>>

(* The service takes the registration; only a new status is news.           *)
Register ==
  /\ status # "off"
  /\ unsent
  /\ unsent' = FALSE /\ registered' = mine
  /\ status' = "bind" /\ readable' = (readable \/ status # "bind")
  /\ UNCHANGED <<demo, at, appVars, subVars, news, mine, known, losses>>

-----------------------------------------------------------------------------
(* The applications.                                                        *)

(* onReadData() begins with pollNotify(), which takes all the news.         *)
Poll ==
  /\ at = "loop"
  /\ readable
  /\ at' = "polled"
  /\ readable' = FALSE /\ news' = {}
  /\ known' = known \cup news
  /\ UNCHANGED <<demo, appVars, status, subVars, regVars, registered, losses>>

Return == at' = "loop" /\ UNCHANGED <<demo, timer, status, news, readable,
                                      registered, known, losses>>

(* demo1 subscribes once more on the first notification. *)
Demo1Reads ==
  /\ demo = 1
  /\ Subscribe(IF flag THEN {"service"} ELSE {})
  /\ flag' = FALSE
  /\ UNCHANGED <<subIndex, regVars>>

(* demo2, 3, 5, 6 and 7 only print. *)
OthersRead == demo \in {2, 3, 5, 6, 7} /\ UNCHANGED <<flag, subIndex, subVars, regVars>>

(* demo4 registers itself when everything it subscribed was pulled, on      *)
(* every notification from then on.                                         *)
IfNotSet == mine = ""  \* a mistake: if(!isSet), which is a comment there
WhenBound == status = "bind"  \* a mistake: only registering gets there
MayRegister == isPullAllSub
Demo4Reads ==
  /\ demo = 4
  /\ IF MayRegister THEN SetMine("info") ELSE UNCHANGED regVars
  /\ UNCHANGED <<flag, subIndex, subVars>>

(* demo8 subscribes the next name, if there is one. *)
NextShort ==  \* a mistake: ends an index too early
  {subIndex + 1} \cap 1 .. Len(g_subscribes) - 1
NextIndex == {subIndex + 1} \cap 1 .. Len(g_subscribes)
Taken == IF NextIndex = {} THEN 0 ELSE 1
Demo8Reads ==
  /\ demo = 8
  /\ subIndex' = subIndex + Taken
  /\ Subscribe({g_subscribes[i] : i \in NextIndex})
  /\ UNCHANGED <<flag, regVars>>

onReadData ==
  /\ at = "polled"
  /\ Demo1Reads \/ OthersRead \/ Demo4Reads \/ Demo8Reads
  /\ Return

(* demo5 subscribes one more, demo6 changes its registration. *)
Demo5Adds == demo = 5 /\ Subscribe({"added"}) /\ UNCHANGED regVars
Demo6Changes == demo = 6 /\ SetMine("update") /\ UNCHANGED subVars
onTimeout ==
  /\ at = "loop"
  /\ timer = "armed"
  /\ timer' = "fired"
  /\ Demo5Adds \/ Demo6Changes
  /\ UNCHANGED <<demo, at, flag, subIndex, status, news, readable, registered,
                 known, losses>>

Next ==
  \/ Connected
  \/ Lost
  \/ \E n \in waiting : Result(n)
  \/ \E n \in asked : Change(n)
  \/ Register
  \/ Poll
  \/ onReadData
  \/ onTimeout

(* The event loop runs; it calls an expired timer on its next turn, however *)
(* much news there is; and the service answers a session that is not lost   *)
(* again.                                                                   *)
Spec ==
  /\ Init /\ [][Next]_vars
  /\ WF_vars(Poll \/ onReadData) /\ SF_vars(onTimeout)
  /\ WF_vars(Connected) /\ WF_vars(Register)
  /\ \A n \in Name : WF_vars(n \in waiting /\ Result(n))

-----------------------------------------------------------------------------
(* demo4 is registered only with all it depends on pulled. *)
DependsFirst == demo = 4 /\ registered # "" => waiting = {}

(* What demo4 and demo8 do step by step, on notifications, does not come to *)
(* a halt: when nothing is to be notified, nothing is left to do either.    *)
NothingLeftUndone ==
  at = "loop" /\ ~readable /\ waiting = {} /\ status # "off" =>
    /\ demo = 4 => mine # ""
    /\ demo = 8 => asked = {g_subscribes[i] : i \in DOMAIN g_subscribes}

(* In the end the service holds what the program set last, and knows what   *)
(* the program wants to know, whatever the order of the timer, the answers  *)
(* and the losses of the session.                                           *)
Settles ==
  <>[](/\ registered = IF demo \in {1, 5} THEN "" ELSE IF demo = 6 THEN "update" ELSE "info"
       /\ known = CASE demo \in {1, 3, 4} -> {"service"}
                    [] demo = 5 -> {"service", "added"}
                    [] demo = 8 -> {"first", "second", "third"}
                    [] OTHER -> {})

(* demo4.cpp:91, before it registers itself: what it depends on has been    *)
(* obtained by now.                                                         *)
KnowsBeforeRegistering == demo = 4 /\ mine # "" => asked \subseteq known
=============================================================================
