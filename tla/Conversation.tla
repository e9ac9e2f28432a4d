------------------------------ MODULE Conversation ------------------------------
(*****************************************************************************)
(* The conversation of one run and its compaction: the stored messages, the     *)
(* records of ConversationCompactionService, and what an execution is given    *)
(* of them.                                                                   *)
(*                                                                           *)
(* A compaction reads the messages, has a model summarise a prefix of them and  *)
(* stores the summary.  The threads of task.compact requests do it, and the      *)
(* execution, when the agent has compacted its own context.  In the meantime    *)
(* other threads may append messages or store summaries.                      *)
(*****************************************************************************)
EXTENDS Naturals, Sequences, FiniteSets

CONSTANTS
  Clients,          \* threads that serve task.compact
  MaxMessages,      \* bounds the conversation
  MaxCompactions,   \* bounds the stored records
  Enabled           \* enabled and explicit_client of the compaction policy

Actors == Clients \cup {"execution"}

VARIABLES
  phase,      \* where the run is
  messages,   \* run_messages, oldest first: the role of each
  records,    \* conversation_compactions, oldest first
  reading,    \* [Actors -> the number of messages the actor summarises; 0: none]
  given,      \* what the latest execution was given, and how long the conversation was
  triggered,  \* the agent has reported conversation.compacted in this execution
  compacted   \* number of the record that RunState.latest_compaction_id names

cvars == <<phase, messages, records, reading, given, triggered, compacted>>

(* started: the messages are being loaded; executing: the checkpoint            *)
(* run_started is saved, so the run is resumable; returned: the harness has     *)
(* returned; stranded: the thread has died and the record still says executing. *)
Phases == {"accepted", "started", "executing", "returned", "paused", "over", "stranded"}

Message == 1..Len(messages)

TypeOK ==
  /\ phase \in Phases
  /\ messages \in Seq({"user", "assistant"}) /\ Len(messages) <= MaxMessages
  /\ records \in Seq([cutoff : 1..MaxMessages, covers : SUBSET (1..MaxMessages)])
  /\ reading \in [Actors -> 0..MaxMessages]
  /\ given.covers \subseteq Message /\ given.tail \in Seq(Message)
  /\ triggered \in BOOLEAN /\ compacted \in 0..MaxCompactions

(* start_run stores the objective as the first message.                       *)
Init ==
  /\ phase = "accepted"
  /\ messages = <<"user">> /\ records = <<>>
  /\ reading = [a \in Actors |-> 0]
  /\ given = [covers |-> {}, tail |-> <<>>, length |-> 0]
  /\ triggered = FALSE /\ compacted = 0

-----------------------------------------------------------------------------
From(cutoff) == [i \in 1..Len(messages) - cutoff |-> cutoff + i]

(* Mutant of Projected: the tail is counted from the end of what the summary    *)
(* was made of.                                                              *)
ProjectedFromEnd ==
  IF records = <<>> THEN [covers |-> {}, tail |-> From(0), length |-> Len(messages)]
  ELSE LET r == records[Len(records)]
           cut == IF r.cutoff + 1 > Len(messages) THEN Len(messages) ELSE r.cutoff + 1
       IN [covers |-> r.covers, tail |-> From(cut), length |-> Len(messages)]

(* projected_messages: the latest summary and the messages after its cutoff.   *)
Projected ==
  IF records = <<>> THEN [covers |-> {}, tail |-> From(0), length |-> Len(messages)]
  ELSE LET r == records[Len(records)]
       IN [covers |-> r.covers, tail |-> From(r.cutoff), length |-> Len(messages)]

Append1(role) == Len(messages) < MaxMessages /\ messages' = Append(messages, role)

(* _launch_run.                                                              *)
Launch ==
  /\ phase \in {"accepted", "paused"}
  /\ phase' = "started" /\ triggered' = FALSE
  /\ UNCHANGED <<messages, records, reading, given, compacted>>

(* _load_conversation_messages.                                              *)
Load ==
  /\ phase = "started"
  /\ given' = Projected
  /\ phase' = "executing"
  /\ UNCHANGED <<messages, records, reading, triggered, compacted>>

(* conversation.compacted from the harness, with a known trigger.              *)
AgentCompacts ==
  /\ phase = "executing" /\ Enabled
  /\ triggered' = TRUE
  /\ UNCHANGED <<phase, messages, records, reading, given, compacted>>

(* The harness returns: the answer, or the question to the user, is stored.     *)
Return ==
  /\ phase = "executing"
  /\ phase' = "returned"
  /\ Append1("assistant") \/ UNCHANGED messages
  /\ UNCHANGED <<records, reading, given, triggered, compacted>>

(* The run pauses or ends; whatever the compaction did is done.               *)
Settle ==
  /\ phase = "returned" /\ ~triggered
  /\ phase' \in {"paused", "over"}
  /\ UNCHANGED <<messages, records, reading, given, triggered, compacted>>

(* reply_to_run stores the message and launches the run.                      *)
Reply ==
  /\ phase = "paused"
  /\ Append1("user")
  /\ phase' = "started" /\ triggered' = FALSE
  /\ UNCHANGED <<records, reading, given, compacted>>

-----------------------------------------------------------------------------
(* _allows_explicit_compaction, and the reading of the canonical messages.     *)
ClientCompacts(c) ==
  /\ Enabled /\ phase \in {"accepted", "executing", "returned", "paused", "stranded"}
  /\ reading[c] = 0
  /\ reading' = [reading EXCEPT ![c] = Len(messages)]
  /\ UNCHANGED <<phase, messages, records, given, triggered, compacted>>

(* _persist_compaction_projection at the end of an execution.                  *)
ExecutionCompacts ==
  /\ phase = "returned" /\ triggered /\ reading["execution"] = 0
  /\ reading' = [reading EXCEPT !["execution"] = Len(messages)]
  /\ UNCHANGED <<phase, messages, records, given, triggered, compacted>>

Done(a) ==
  /\ reading' = [reading EXCEPT ![a] = 0]
  /\ triggered' = IF a = "execution" THEN FALSE ELSE triggered

(* Mutant of Summarise: the projection is summarised, and its cutoff stored.    *)
SummariseProjection(a, cutoff) ==
  LET p == Projected.tail IN
  /\ reading[a] > 1 /\ cutoff \in 1..reading[a] /\ Len(records) < MaxCompactions
  /\ records' = Append(records, [cutoff |-> cutoff,
       covers |-> Projected.covers \cup {p[i] : i \in 1..(IF cutoff < Len(p) THEN cutoff ELSE Len(p))}])
  /\ compacted' = Len(records) + 1
  /\ Done(a)
  /\ UNCHANGED <<phase, messages, given>>

(* compact_messages of more than one message, with a cutoff that the library    *)
(* chooses, append_compaction and the update of the record.                   *)
Summarise(a, cutoff) ==
  /\ reading[a] > 1 /\ cutoff \in 1..reading[a] /\ Len(records) < MaxCompactions
  /\ records' = Append(records, [cutoff |-> cutoff, covers |-> 1..cutoff])
  /\ compacted' = Len(records) + 1
  /\ Done(a)
  /\ UNCHANGED <<phase, messages, given>>

(* Nothing to summarise.                                                     *)
Skip(a) ==
  /\ reading[a] > 0
  /\ Done(a)
  /\ UNCHANGED <<phase, messages, records, given, compacted>>

(* The model call fails: an error response to the client; in the execution,     *)
(* outside every try, the end of the thread.                                  *)
SummaryFails(a) ==
  /\ reading[a] > 1
  /\ Done(a)
  /\ phase' = IF a = "execution" THEN "stranded" ELSE phase
  /\ UNCHANGED <<messages, records, given, compacted>>

(* The process ends and the run is recovered, as resumable.                   *)
Restart ==
  /\ phase \in {"executing", "returned", "stranded"}
  /\ phase' = "paused"
  /\ reading' = [a \in Actors |-> 0]
  /\ triggered' = FALSE /\ compacted' = 0
  /\ UNCHANGED <<messages, records, given>>

Next ==
  \/ Launch \/ Load \/ AgentCompacts \/ Return \/ Settle \/ Reply
  \/ (\E c \in Clients : ClientCompacts(c)) \/ ExecutionCompacts
  \/ \E a \in Actors :
       Skip(a) \/ SummaryFails(a) \/ \E cutoff \in 1..MaxMessages : Summarise(a, cutoff)
  \/ Restart

Spec == Init /\ [][Next]_cvars

-----------------------------------------------------------------------------
(* An execution is given every message of the conversation exactly once: in     *)
(* the summary or as it is, whatever was compacted, appended and restarted.    *)
NothingForgotten ==
  /\ given.covers \cup {given.tail[i] : i \in DOMAIN given.tail} = 1..given.length
  /\ \A i \in DOMAIN given.tail : given.tail[i] \notin given.covers
=============================================================================
