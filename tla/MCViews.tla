-------------------------------- MODULE MCViews --------------------------------
(*****************************************************************************)
(* What a session does with its threads: the streams that show a run to the   *)
(* client (LogStream), and the requests and runs that serve waits for when its*)
(* input ends (Session).  They share no state, so every behaviour is one of a *)
(* single component, the one that part names.  A configuration gives the      *)
(* constants their values for TLC; the theorems of ViewsProofs hold for all.  *)
(*****************************************************************************)
EXTENDS LogStream

CONSTANTS RunIds, MaxRequests, MaxWorkers

ASSUME RequestsAssumption == MaxRequests \in Nat

VARIABLE part    \* the component that takes the steps
VARIABLES line, thread, answers, worker, table, eof, main, waiting
svars == <<line, thread, answers, worker, table, eof, main, waiting>>

S == INSTANCE Session

ViewsInit == part \in {"streams", "session"} /\ Init /\ S!Init

ViewsNext ==
  /\ UNCHANGED part
  /\ \/ part = "streams" /\ Next /\ UNCHANGED svars
     \/ part = "session" /\ S!Next /\ UNCHANGED vars

(* Each thread of the session gets on: a stream as LogStream says, the request   *)
(* threads, the runs and serve itself.  After the end of the input a request     *)
(* that follows a run leaves the stream.                                       *)
ThreadsGetOn ==
  /\ \A s \in Streams : WF_vars(part = "streams" /\ StreamStep(s))
  /\ WF_svars(part = "session" /\ S!ServerStep)
  /\ \A i \in 1..MaxRequests :
       WF_svars(/\ part = "session" /\ i \in S!Requests
                /\ S!RequestStep(i) \/ (eof /\ S!StopFollowing(i)))
  /\ \A w \in 1..MaxWorkers :
       WF_svars(part = "session" /\ w \in S!Workers /\ S!WorkerStep(w))

ViewsSpec == ViewsInit /\ [][ViewsNext]_<<part, vars, svars>> /\ ThreadsGetOn

-----------------------------------------------------------------------------
(* What is checked of the session; its module says why.                         *)
SessionTypeOK == S!TypeOK
AnsweredOnce  == S!AnsweredOnce
ViewsTypeOK   == TypeOK /\ SessionTypeOK

(* After the end of the input every stream returns, and serve ends: no thread    *)
(* of the session is waited for that will not come.                            *)
AllEnd == StreamsEnd /\ S!SessionEnds
=============================================================================
