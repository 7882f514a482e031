------------------------------ MODULE OAuthFlow ------------------------------
(***************************************************************************)
(* Authorization in the browser: OAuthCoordinator::start and cancel of     *)
(* src-tauri/src/application/oauth.rs, and the listener on the loopback    *)
(* interface of src-tauri/src/infrastructure/oauth.rs.                     *)
(*                                                                         *)
(* A call of start binds a listener, registers the flow, opens the browser *)
(* and waits for one connection, the timeout or the cancellation.          *)
(***************************************************************************)
EXTENDS Integers

CONSTANTS
  Calls,   \* calls of start_oauth_authorization
  Flows,   \* ids the user interface draws
  FlowOf,  \* flow of each call
  NoFlow

ASSUME FlowOfAssumption == FlowOf \in [Calls -> Flows]
\* What a call may return.
Outcomes == {"code", "error", "StateMismatch", "MissingCode", "ListenerFailed", "Timeout",
             "Cancelled", "BrowserOpenFailed", "alreadyRunning", "refused"}

ASSUME NoFlowAssumption == NoFlow \notin Calls /\ NoFlow \notin Outcomes

VARIABLES
  stage,      \* how far each call has come
  listening,  \* calls whose listener is bound
  arrived,    \* the connection each listener has accepted
  flows,      \* OAuthState::flows: the call that each registered flow belongs to
  stopped,    \* calls whose cancellation token is cancelled
  due,        \* calls whose timeout has passed
  outcome,    \* what each call returned
  answered    \* calls of which a cancel was told that it succeeded

flowVars == <<stage, listening, arrived, flows, stopped, due, outcome, answered>>

Stages == {"new", "bound", "registered", "open", "ended"}

\* What a connection brings: the state of a call (its own or that of an earlier
\* tab of the browser) with a code, an error or neither, or no callback at all.
Callbacks == [state : Calls, brings : {"code", "error", "nothing"}]
Garbage == [state |-> NoFlow, brings |-> "nothing"]

FlowsInit ==
  /\ stage = [c \in Calls |-> "new"]
  /\ listening = {} /\ stopped = {} /\ due = {} /\ answered = {}
  /\ arrived = [c \in Calls |-> NoFlow]
  /\ flows = [f \in Flows |-> NoFlow]
  /\ outcome = [c \in Calls |-> NoFlow]

Ends(c, result) ==
  /\ stage' = [stage EXCEPT ![c] = "ended"]
  /\ outcome' = [outcome EXCEPT ![c] = result]
  /\ listening' = listening \ {c}

-----------------------------------------------------------------------------
\* Validate the request, draw state and verifier, bind the listener and make the
\* URL to open.  When one of them fails the call ends, and its listener with it.
Bind(c) ==
  /\ stage[c] = "new"
  /\ \/ /\ stage' = [stage EXCEPT ![c] = "bound"]
        /\ listening' = listening \union {c}
        /\ UNCHANGED outcome
     \/ Ends(c, "refused")
  /\ UNCHANGED <<arrived, flows, stopped, due, answered>>

\* insert_flow.
InsertFlow(c) ==
  /\ stage[c] = "bound"
  /\ IF flows[FlowOf[c]] # NoFlow
     THEN Ends(c, "alreadyRunning") /\ UNCHANGED flows
     ELSE /\ flows' = [flows EXCEPT ![FlowOf[c]] = c]
          /\ stage' = [stage EXCEPT ![c] = "registered"]
          /\ UNCHANGED <<outcome, listening>>
  /\ UNCHANGED <<arrived, stopped, due, answered>>

\* The end of a registered call: the result, and remove_flow.
Returns(c, result) ==
  /\ Ends(c, result)
  /\ flows' = [flows EXCEPT ![FlowOf[c]] = NoFlow]

\* browser.open.
OpenBrowser(c) ==
  /\ stage[c] = "registered"
  /\ \/ stage' = [stage EXCEPT ![c] = "open"] /\ UNCHANGED <<outcome, listening, flows>>
     \/ Returns(c, "BrowserOpenFailed")
  /\ UNCHANGED <<arrived, stopped, due, answered>>

\* A connection reaches the listener; it accepts the first one only.
Connect(c, callback) ==
  /\ c \in listening
  /\ arrived[c] = NoFlow
  /\ arrived' = [arrived EXCEPT ![c] = callback]
  /\ UNCHANGED <<stage, listening, flows, stopped, due, outcome, answered>>

TimePasses(c) ==
  /\ stage[c] = "open"
  /\ due' = due \union {c}
  /\ UNCHANGED <<stage, listening, arrived, flows, stopped, outcome, answered>>

\* parse_callback_request and callback_result.
CallbackResult(c, callback) ==
  IF callback = Garbage THEN "ListenerFailed"
  ELSE IF callback.state # c THEN "StateMismatch"
  ELSE IF callback.brings = "nothing" THEN "MissingCode"
  ELSE callback.brings

\* Mutant: the timer is not one of the branches.
WaitUntimed(c) ==
  /\ stage[c] = "open"
  /\ \/ c \in stopped /\ Returns(c, "Cancelled")
     \/ arrived[c] # NoFlow /\ Returns(c, CallbackResult(c, arrived[c]))
  /\ UNCHANGED <<arrived, stopped, due, answered>>

\* The select of wait takes any branch that is ready.
Wait(c) ==
  /\ stage[c] = "open"
  /\ \/ c \in stopped /\ Returns(c, "Cancelled")
     \/ c \in due /\ Returns(c, "Timeout")
     \/ arrived[c] # NoFlow /\ Returns(c, CallbackResult(c, arrived[c]))
  /\ UNCHANGED <<arrived, stopped, due, answered>>

\* Mutant: a cancel is confirmed whether or not it found the flow.
CancelConfirmed(f) ==
  /\ stopped' = stopped \union ({flows[f]} \ {NoFlow})
  /\ answered' = answered \union {c \in Calls : FlowOf[c] = f /\ stage[c] \notin {"new", "ended"}}
  /\ UNCHANGED <<stage, listening, arrived, flows, due, outcome>>

\* cancel: of a flow that is registered, or of none.
CancelFlow(f) ==
  /\ stopped' = stopped \union ({flows[f]} \ {NoFlow})
  /\ answered' = answered \union ({flows[f]} \ {NoFlow})
  /\ UNCHANGED <<stage, listening, arrived, flows, due, outcome>>

\* What a call does by itself once it has begun.
CallStep(c) == InsertFlow(c) \/ OpenBrowser(c) \/ Wait(c)

FlowsNext ==
  \/ \E c \in Calls :
       \/ Bind(c) \/ CallStep(c) \/ TimePasses(c)
       \/ \E callback \in Callbacks \union {Garbage} : Connect(c, callback)
  \/ \E f \in Flows : CancelFlow(f)

FlowsSpec == FlowsInit /\ [][FlowsNext]_flowVars

\* The runtime polls a task that is ready, and the timer fires.
FlowsFairness == \A c \in Calls : WF_flowVars(CallStep(c)) /\ WF_flowVars(TimePasses(c))

FlowsFairSpec == FlowsSpec /\ FlowsFairness

-----------------------------------------------------------------------------
(* Properties *)

\* Every variable has its type.
FlowsTypeOK ==
  /\ stage \in [Calls -> Stages]
  /\ listening \subseteq Calls
  /\ arrived \in [Calls -> Callbacks \union {Garbage, NoFlow}]
  /\ flows \in [Flows -> Calls \union {NoFlow}]
  /\ stopped \subseteq Calls /\ due \subseteq Calls /\ answered \subseteq Calls
  /\ outcome \in [Calls -> Outcomes \union {NoFlow}]

\* A flow is registered exactly as long as a call of it is under way, and two
\* calls of one flow never are: neither the second call nor any way to fail
\* takes the registration from the first, or leaves one behind.
RegisteredWhileRunning ==
  \A c \in Calls :
    (stage[c] \in {"registered", "open"}) <=> (flows[FlowOf[c]] = c)

\* Nothing that a browser brings is taken for the answer to a call unless it
\* carries the state that this very call has drawn.
AnswersAreOwn ==
  \A c \in Calls : outcome[c] \in {"code", "error"} => arrived[c].state = c

\* A cancel that was confirmed is one that the call can see: its token is
\* cancelled before the call has returned.
ConfirmedCancelsAreSeen ==
  [][\A c \in answered' \ answered : c \in stopped' /\ stage[c] \in {"registered", "open"}]_flowVars

\* Under FlowsFairSpec.  Every call that has begun returns, and lets go of its
\* flow and its listener: the browser may stay silent, but the timeout does not.
CallsReturn ==
  \A c \in Calls :
    stage[c] # "new" ~> stage[c] = "ended" /\ c \notin listening /\ flows[FlowOf[c]] # c

\* What a flow promises: it can be cancelled as long as it runs, and it ends with
\* the answer to its own call only.
FlowsCorrect ==
  /\ [](FlowsTypeOK /\ RegisteredWhileRunning /\ AnswersAreOwn)
  /\ ConfirmedCancelsAreSeen

=============================================================================
