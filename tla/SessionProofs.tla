---------------------------- MODULE SessionProofs ----------------------------
(***************************************************************************)
(* Theorems about Session, for every set of calls and timeouts, every      *)
(* length of a second and every horizon.                                   *)
(***************************************************************************)
EXTENDS Session, TLAPS

USE SecondAssumption, HorizonAssumption, TimeoutsAssumption

(***************************************************************************)
(* Type correctness.                                                       *)
(***************************************************************************)

\* The client, its clock and its calls stay within their types.
THEOREM SessionTypes == Spec => []TypeOK
<1>1. Init => TypeOK
  <2>1. DefaultOption \in Nat
    BY DEF DefaultOption
  <2>2. [at |-> 0, option |-> 0, timed |-> FALSE, byDefault |-> TRUE,
         closed |-> FALSE] \in Circumstances
    BY DEF Circumstances
  <2>3. 0 \in 0..Horizon
    OBVIOUS
  <2> QED
    BY <2>1, <2>2, <2>3 DEF Init, TypeOK
<1>2. TypeOK /\ [Next]_vars => TypeOK'
  <2> SUFFICES ASSUME TypeOK, [Next]_vars PROVE TypeOK'
    OBVIOUS
  <2> /\ DefaultOption \in Nat
      /\ DefaultTimeout \in Nat
      /\ Timeouts \subseteq Nat
    BY DEF DefaultOption, DefaultTimeout
  <2>1. ASSUME Tick \/ Connect \/ Disconnect PROVE TypeOK'
    <3>1. now' \in 0..Horizon
      BY <2>1 DEF Tick, Connect, Disconnect, TypeOK
    <3> QED
      BY <2>1, <3>1 DEF Tick, Connect, Disconnect, TypeOK, client, calls
  <2>2. ASSUME NEW t \in Timeouts \cup {DefaultOption}, Construct(t)
        PROVE  TypeOK'
    BY <2>2 DEF Construct, TypeOK, calls
  <2>3. ASSUME WaitForConnected \/ ConstructorThrows PROVE TypeOK'
    BY <2>3 DEF WaitForConnected, ConstructorThrows, TypeOK, calls
  <2>4. ASSUME NEW t \in Timeouts, setTimeout(t) PROVE TypeOK'
    BY <2>4 DEF setTimeout, TypeOK, calls
  <2>5. ASSUME closeConnection PROVE TypeOK'
    BY <2>5 DEF closeConnection, TypeOK, calls
  <2>6. ASSUME NEW c \in Calls, NEW t \in Nat, NEW d \in BOOLEAN, Invoke(c, t, d)
        PROVE  TypeOK'
    <3>1. now + t \in 0..Horizon
      BY <2>6 DEF Invoke, TypeOK
    <3>2. [at |-> now, option |-> timeout, timed |-> timed, byDefault |-> d,
           closed |-> ~channel] \in Circumstances
      BY DEF TypeOK, Circumstances
    <3> QED
      BY <2>6, <3>1, <3>2 DEF Invoke, Deadline, TypeOK, client
  <2>7. ASSUME NEW c \in Calls, Answer(c) \/ Unavailable(c) \/ DeadlineExceeded(c)
        PROVE  TypeOK'
    <3>1. \E outcome \in {"answered", "failed"} : Finish(c, outcome)
      BY <2>7 DEF Answer, Unavailable, DeadlineExceeded
    <3> QED
      BY <3>1 DEF Finish, TypeOK, client
  <2>8. CASE UNCHANGED vars
    BY <2>8 DEF vars, client, calls, TypeOK
  <2>9. ASSUME NEW c \in Calls,
               \/ Invoke(c, DefaultTimeout, TRUE)
               \/ \E t \in Timeouts : Invoke(c, t, FALSE)
        PROVE  TypeOK'
    BY <2>6, <2>9
  <2> QED
    BY <2>1, <2>2, <2>3, <2>4, <2>5, <2>7, <2>8, <2>9 DEF Next
<1> QED
  BY <1>1, <1>2, PTL DEF Spec

(***************************************************************************)
(* Calls and the connection.                                               *)
(***************************************************************************)

\* A client that is open has seen its channel ready and has its stub; calls are
\* only made on such a client, and it never stops being one.
SessionInv ==
    /\ link = "up" => connected
    /\ phase = "open" => connected /\ stub
    /\ \A c \in Calls : status[c] # "unissued" => phase = "open"

\* SessionInv holds initially and every step keeps it.
LEMMA OpenClients == Spec => []SessionInv
<1>1. Init => SessionInv
  BY DEF Init, SessionInv
<1>2. TypeOK /\ SessionInv /\ [Next]_vars => SessionInv'
  <2> SUFFICES ASSUME TypeOK, SessionInv, [Next]_vars PROVE SessionInv'
    OBVIOUS
  <2>1. ASSUME Tick \/ Connect \/ Disconnect PROVE SessionInv'
    BY <2>1 DEF Tick, Connect, Disconnect, SessionInv, TypeOK, client, calls
  <2>2. ASSUME NEW t, Construct(t) PROVE SessionInv'
    BY <2>2 DEF Construct, SessionInv, TypeOK, calls
  <2>3. ASSUME WaitForConnected \/ ConstructorThrows PROVE SessionInv'
    BY <2>3 DEF WaitForConnected, ConstructorThrows, SessionInv, TypeOK, calls
  <2>4. ASSUME NEW t, setTimeout(t) PROVE SessionInv'
    BY <2>4 DEF setTimeout, SessionInv, TypeOK, calls
  <2>5. ASSUME closeConnection PROVE SessionInv'
    BY <2>5 DEF closeConnection, SessionInv, TypeOK, calls
  <2>6. ASSUME NEW c \in Calls, NEW t, NEW d, Invoke(c, t, d) PROVE SessionInv'
    BY <2>6 DEF Invoke, SessionInv, TypeOK, client
  <2>7. ASSUME NEW c \in Calls, Answer(c) \/ Unavailable(c) \/ DeadlineExceeded(c)
        PROVE  SessionInv'
    BY <2>7 DEF Answer, Unavailable, DeadlineExceeded, Finish, SessionInv, TypeOK,
                client
  <2>8. CASE UNCHANGED vars
    BY <2>8 DEF vars, client, calls, SessionInv
  <2> QED
    BY <2>1, <2>2, <2>3, <2>4, <2>5, <2>6, <2>7, <2>8 DEF Next
<1> QED
  BY <1>1, <1>2, SessionTypes, PTL DEF Spec

\* No call is made before the channel has been ready.
THEOREM CallsNeedConnection == Spec => []CallsFollowConnection
<1>1. SessionInv => CallsFollowConnection
  BY DEF SessionInv, CallsFollowConnection
<1> QED
  BY <1>1, OpenClients, PTL

\* A pending call keeps its stub, and so its channel, whoever closes the
\* connection.
THEOREM PendingCallsSurviveClose == Spec => []PendingCallsKeepChannel
<1>1. SessionInv => PendingCallsKeepChannel
  BY DEF SessionInv, PendingCallsKeepChannel
<1> QED
  BY <1>1, OpenClients, PTL

(***************************************************************************)
(* How long the constructor waits.                                         *)
(***************************************************************************)

\* Cutting a timeout to whole seconds takes less than a second off it.
LEMMA WholeSeconds ==
    ASSUME NEW t \in Nat
    PROVE  /\ Second * (t \div Second) \in Nat
           /\ t < Second * (t \div Second) + Second
<1>1. /\ t = Second * (t \div Second) + (t % Second)
      /\ t \div Second \in Nat
      /\ t % Second \in 0..(Second - 1)
  OBVIOUS
<1>2. Second * (t \div Second) \in Nat
  BY <1>1
<1> QED
  BY <1>1, <1>2

\* The constructor gives up less than a second before its timeout.
THEOREM ConstructorWaits == Spec => []WaitsWholeSeconds
<1>1. Init => WaitsWholeSeconds
  BY DEF Init, WaitsWholeSeconds
<1>2. TypeOK /\ WaitsWholeSeconds /\ [Next]_vars => WaitsWholeSeconds'
  <2> SUFFICES ASSUME TypeOK, WaitsWholeSeconds, [Next]_vars
               PROVE  WaitsWholeSeconds'
    OBVIOUS
  <2>1. CASE ConstructorThrows
    <3> DEFINE whole == Second * (timeout \div Second)
    <3>1. whole \in Nat /\ timeout < whole + Second
      BY WholeSeconds DEF TypeOK
    <3>2. now >= began + whole
      BY <2>1 DEF ConstructorThrows, WaitUntil
    <3> HIDE DEF whole
    <3>3. now + Second > began + timeout
      BY <3>1, <3>2 DEF TypeOK
    <3> QED
      BY <2>1, <3>3 DEF ConstructorThrows, WaitsWholeSeconds
  <2>2. CASE Tick
    BY <2>2 DEF Tick, WaitsWholeSeconds, TypeOK, client
  <2>3. CASE ~ConstructorThrows /\ ~Tick
    <3>1. \/ UNCHANGED <<now, began, timeout, phase>>
          \/ phase' # "thrown"
      BY <2>3 DEF Next, Connect, Disconnect, Construct, WaitForConnected,
                  setTimeout, closeConnection, Invoke, Answer, Unavailable,
                  DeadlineExceeded, Finish, vars, client
    <3> QED
      BY <3>1 DEF WaitsWholeSeconds
  <2> QED
    BY <2>1, <2>2, <2>3
<1> QED
  BY <1>1, <1>2, SessionTypes, PTL DEF Spec
=============================================================================
