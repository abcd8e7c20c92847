------------------------------- MODULE Session -------------------------------
(***************************************************************************)
(* The connection of one RpcClient: its constructor waits for the channel  *)
(* to be ready and throws if it is not, setTimeout and closeConnection     *)
(* change the client between its calls, and each call blocks in the stub   *)
(* under a deadline of its own.  The channel is shared: grpcChannel_ holds *)
(* one reference to it and stub_ another.                                  *)
(*                                                                         *)
(* Time is counted in ticks, Second of them to 1000 ms, so that a timeout  *)
(* can be a fraction of a second.  What a call does besides waiting is     *)
(* RpcClient's matter.                                                     *)
(***************************************************************************)
EXTENDS Integers

CONSTANTS
    Calls,      \* the calls of the program, each in a thread of its own
    Timeouts,   \* the timeouts it gives to ClientOption, setTimeout and calls
    Second,     \* ticks in a second
    Horizon     \* the end of time (bounds the model)

ASSUME SecondAssumption == Second \in Nat \ {0}
ASSUME HorizonAssumption == Horizon \in Nat
ASSUME TimeoutsAssumption == Timeouts \subseteq 0..Horizon

\* ClientOption::timeout{5000}
DefaultOption == 5 * Second

\* `int timeout = 1000` of every call
DefaultTimeout == Second

VARIABLES
    now,        \* the clock
    link,       \* the channel's connection to the server
    phase,      \* how far the client is constructed
    timeout,    \* option_.timeout
    timed,      \* history: it was set by setTimeout
    began,      \* when the constructor began to wait
    channel,    \* grpcChannel_ refers to the channel
    stub,       \* stub_ does
    status,     \* what each call has told its caller
    deadline,   \* the deadline of its context
    made,       \* history: the circumstances in which each call was made
    connected   \* history: the channel has been ready

vars == <<now, link, phase, timeout, timed, began, channel, stub, status,
          deadline, made, connected>>

client == <<phase, timeout, timed, began, channel, stub>>

calls == <<status, deadline, made>>

\* when, under which option_.timeout, after setTimeout, with the default argument,
\* after closeConnection
Circumstances == [at: 0..Horizon, option: Nat, timed: BOOLEAN,
                  byDefault: BOOLEAN, closed: BOOLEAN]

\* Times stay below the horizon; the client and its calls are in their phases.
TypeOK ==
    /\ now \in 0..Horizon
    /\ link \in {"down", "up"}
    /\ phase \in {"unborn", "waiting", "open", "thrown"}
    /\ timeout \in Nat /\ timed \in BOOLEAN
    /\ began \in 0..Horizon
    /\ channel \in BOOLEAN /\ stub \in BOOLEAN /\ connected \in BOOLEAN
    /\ status \in [Calls -> {"unissued", "pending", "answered", "failed"}]
    /\ deadline \in [Calls -> 0..Horizon]
    /\ made \in [Calls -> Circumstances]

Init ==
    /\ now = 0
    /\ link = "down"
    /\ phase = "unborn"
    /\ timeout = DefaultOption
    /\ timed = FALSE
    /\ began = 0
    /\ channel = FALSE
    /\ stub = FALSE
    /\ status = [c \in Calls |-> "unissued"]
    /\ deadline = [c \in Calls |-> 0]
    /\ made = [c \in Calls |-> [at |-> 0, option |-> 0, timed |-> FALSE,
                                byDefault |-> TRUE, closed |-> FALSE]]
    /\ connected = FALSE

(***************************************************************************)
(* The clock and the network.  gRPC keeps a channel alive, and connects it *)
(* again, as long as something refers to it.                               *)
(***************************************************************************)
Alive == channel \/ stub

Tick ==
    /\ now < Horizon
    /\ now' = now + 1
    /\ UNCHANGED <<link, client, calls, connected>>

Connect ==
    /\ Alive
    /\ link = "down"
    /\ link' = "up"
    /\ connected' = TRUE
    /\ UNCHANGED <<now, client, calls>>

Disconnect ==
    /\ link = "up"
    /\ link' = "down"
    /\ UNCHANGED <<now, client, calls, connected>>

(***************************************************************************)
(* The constructor.                                                        *)
(***************************************************************************)

\* No option, or one with a timeout of the program's: the channel is created
\* and starts to connect.
Construct(t) ==
    /\ phase = "unborn"
    /\ now + t <= Horizon
    /\ phase' = "waiting"
    /\ timeout' = t
    /\ began' = now
    /\ channel' = TRUE
    /\ UNCHANGED <<now, link, timed, stub, calls, connected>>

\* MUTANT: the timeout is taken for seconds.
WaitForSeconds == began + Second * timeout

\* MUTANT: the constructor looks at the channel once and does not wait.
WaitNot == began

\* gpr_time_from_seconds(option_.timeout / 1000)
WaitUntil == began + Second * (timeout \div Second)

\* MUTANT: the result of WaitForConnected is ignored.
ConnectedOrNot ==
    /\ phase = "waiting"
    /\ phase' = "open"
    /\ stub' = TRUE
    /\ UNCHANGED <<now, link, timeout, timed, began, channel, calls, connected>>

\* WaitForConnected returns true: the stub is made, and refers to the channel.
WaitForConnected ==
    /\ phase = "waiting"
    /\ link = "up"
    /\ phase' = "open"
    /\ stub' = TRUE
    /\ UNCHANGED <<now, link, timeout, timed, began, channel, calls, connected>>

\* WaitForConnected returns false: the constructor throws and the member that
\* refers to the channel is destroyed.
ConstructorThrows ==
    /\ phase = "waiting"
    /\ now >= WaitUntil
    /\ phase' = "thrown"
    /\ channel' = FALSE
    /\ link' = "down"
    /\ UNCHANGED <<now, timeout, timed, began, stub, calls, connected>>

(***************************************************************************)
(* The client between its calls.                                           *)
(***************************************************************************)
setTimeout(t) ==
    /\ phase = "open"
    /\ timeout' = t
    /\ timed' = TRUE
    /\ UNCHANGED <<now, link, phase, began, channel, stub, calls, connected>>

\* MUTANT: closeConnection drops the stub as well.
CloseDropsStub ==
    /\ phase = "open"
    /\ channel' = FALSE
    /\ stub' = FALSE
    /\ link' = "down"
    /\ UNCHANGED <<now, phase, timeout, timed, began, calls, connected>>

\* grpcChannel_.reset(): stub_ still refers to the channel.
closeConnection ==
    /\ phase = "open"
    /\ channel' = FALSE
    /\ UNCHANGED <<now, link, phase, timeout, timed, began, stub, calls, connected>>

(***************************************************************************)
(* A call, as far as time and the connection go.                           *)
(***************************************************************************)

\* MUTANT: the milliseconds of the timeout are added as seconds.
DeadlineInSeconds(t) == now + Second * t

\* system_clock::now() + milliseconds(timeout)
Deadline(t) == now + t

Invoke(c, t, byDefault) ==
    /\ phase = "open"
    /\ status[c] = "unissued"
    /\ now + t <= Horizon
    /\ status' = [status EXCEPT ![c] = "pending"]
    /\ deadline' = [deadline EXCEPT ![c] = Deadline(t)]
    /\ made' = [made EXCEPT ![c] = [at |-> now, option |-> timeout, timed |-> timed,
                                    byDefault |-> byDefault,
                                    closed |-> ~channel]]
    /\ UNCHANGED <<now, link, client, connected>>

Finish(c, outcome) ==
    /\ status[c] = "pending"
    /\ status' = [status EXCEPT ![c] = outcome]
    /\ UNCHANGED <<now, link, client, deadline, made, connected>>

Answer(c) == link = "up" /\ Finish(c, "answered")

\* UNAVAILABLE: no handler asks the stub to wait for the channel to be ready.
Unavailable(c) == link = "down" /\ Finish(c, "failed")

DeadlineExceeded(c) == now >= deadline[c] /\ Finish(c, "failed")

Next ==
    \/ Tick \/ Connect \/ Disconnect
    \/ \E t \in Timeouts \cup {DefaultOption} : Construct(t)
    \/ WaitForConnected \/ ConstructorThrows
    \/ \E t \in Timeouts : setTimeout(t)
    \/ closeConnection
    \/ \E c \in Calls :
          \/ Invoke(c, DefaultTimeout, TRUE)
          \/ \E t \in Timeouts : Invoke(c, t, FALSE)
          \/ Answer(c) \/ Unavailable(c) \/ DeadlineExceeded(c)

Spec == Init /\ [][Next]_vars

\* The clock goes on, and gRPC reports an event it waits for once it is due; a
\* connection need never come about.
FairSpec ==
    Spec /\ WF_vars(Tick) /\ WF_vars(WaitForConnected) /\ WF_vars(ConstructorThrows)

(***************************************************************************)
(* Properties.                                                             *)
(***************************************************************************)

\* No call is made before the channel has been ready: a constructor that did not
\* see it connected in time leaves no client to call.
CallsFollowConnection ==
    \A c \in Calls : status[c] # "unissued" => connected

\* A call that blocks in the stub keeps its stub, and with it the channel, even
\* when another thread closes the connection meanwhile.
PendingCallsKeepChannel ==
    \A c \in Calls : status[c] = "pending" => stub

\* The constructor gives up at most a second too early: it waits its timeout,
\* cut to whole seconds.
WaitsWholeSeconds == phase = "thrown" => now + Second > began + timeout

\* Whatever the network does, the constructor ends.
ConstructionEnds == (phase = "waiting") ~> (phase \in {"open", "thrown"})

(***************************************************************************)
(* What the documentation says of a session and the code does not do.      *)
(***************************************************************************)

\* setTimeout is documented to set the timeout, and the example relies on it for
\* the calls that come after: a call made after a setTimeout and without a timeout
\* of its own has the deadline that setTimeout gave it.
SetTimeoutGovernsCalls ==
    \A c \in Calls :
        status[c] # "unissued" /\ made[c].timed /\ made[c].byDefault =>
            deadline[c] = made[c].at + made[c].option

\* "close grpc connection": a call made after closeConnection reaches no server.
NoAnswerAfterClose ==
    \A c \in Calls : status[c] = "answered" => ~made[c].closed
=============================================================================
