------------------------------- MODULE AgentChat -------------------------------
(* googleadk/chat: a conversation kept by a chain of runs of ChatWorkflow. Each        *)
(* message is an update whose handler runs one turn of the agent on the session that   *)
(* all handlers share; a turn adds the message, calls the model in an activity and     *)
(* adds its answer. At a boundary the session goes to the next run as a snapshot.      *)
EXTENDS Naturals, Sequences

CONSTANTS MaxMessages,   \* messages sent by clients
          MaxTurns,      \* in.MaxTurns
          MaxChats       \* runs of the chain

VARIABLES chat,          \* this run: its number, phase, turns, and busy
          message,       \* per message, where its handler is
          transcript     \* the session: <<"user", m>> and <<"model", m>> in their order

vars == <<chat, message, transcript>>

Messages == 1..MaxMessages
FreshChat(run) == [run |-> run, phase |-> "serve", turns |-> 0, busy |-> FALSE, suggested |-> FALSE]

Init ==
  /\ chat = FreshChat(1)
  /\ message = [m \in Messages |-> "none"]
  /\ transcript = <<>>

SendMessage(m) ==
  /\ message[m] = "none"
  /\ message' = [message EXCEPT ![m] = "waiting"]
  /\ UNCHANGED <<chat, transcript>>

SuggestContinueAsNew ==
  /\ ~chat.suggested
  /\ chat.run < MaxChats
  /\ chat' = [chat EXCEPT !.suggested = TRUE]
  /\ UNCHANGED <<message, transcript>>

(* Mutant of Idle: a handler does not wait for the turn of another. *)
IdleAlways == TRUE

Idle == ~chat.busy

BeginTurn(m) ==
  /\ message[m] = "waiting"
  /\ Idle
  /\ message' = [message EXCEPT ![m] = "turn"]
  /\ chat' = [chat EXCEPT !.busy = TRUE]
  /\ transcript' = Append(transcript, <<"user", m>>)

TurnAnswers(m) ==
  /\ message[m] = "turn"
  /\ message' = [message EXCEPT ![m] = "answered"]
  /\ chat' = [chat EXCEPT !.busy = FALSE, !.turns = @ + 1]
  /\ transcript' = Append(transcript, <<"model", m>>)

(* The message stays in the session, and the turn does not count. *)
TurnFails(m) ==
  /\ message[m] = "turn"
  /\ message' = [message EXCEPT ![m] = "failed"]
  /\ chat' = [chat EXCEPT !.busy = FALSE]
  /\ UNCHANGED transcript

StopServing ==
  /\ chat.phase = "serve"
  /\ chat.suggested \/ chat.turns >= MaxTurns
  /\ chat' = [chat EXCEPT !.phase = "drain"]
  /\ UNCHANGED <<message, transcript>>

(* Mutant of AllHandlersFinished: only the turn under way is waited for. *)
NoTurnUnderWay == ~chat.busy

AllHandlersFinished == \A m \in Messages : message[m] \notin {"waiting", "turn"}

(* The snapshot is the session; a handler that has not returned dies with its run. *)
ContinueAsNew ==
  /\ chat.phase = "drain"
  /\ chat.run < MaxChats
  /\ AllHandlersFinished
  /\ chat' = FreshChat(chat.run + 1)
  /\ message' = [m \in Messages |-> IF message[m] \in {"waiting", "turn"} THEN "dropped" ELSE message[m]]
  /\ UNCHANGED transcript

Turn(m) == BeginTurn(m) \/ TurnAnswers(m) \/ TurnFails(m)
Progress == StopServing \/ ContinueAsNew \/ \E m \in Messages : Turn(m)
Next == Progress \/ SuggestContinueAsNew \/ \E m \in Messages : SendMessage(m)

----------------------------------------------------------------------------
(* A message is followed by its own answer, unless its turn failed or is under way,  *)
(* and by nothing of another turn; what was answered in any run is in the session.   *)
TurnsWhole ==
  /\ \A i \in 1..Len(transcript) :
       LET m == transcript[i][2] IN
       IF transcript[i][1] = "user"
       THEN \/ i < Len(transcript) /\ transcript[i + 1] = <<"model", m>>
            \/ message[m] = "failed"
            \/ i = Len(transcript) /\ message[m] = "turn"
       ELSE i > 1 /\ transcript[i - 1] = <<"user", m>>
  /\ \A m \in Messages : message[m] = "answered" => \E i \in 1..Len(transcript) : transcript[i] = <<"model", m>>

(* No boundary between two runs drops a message that was accepted. *)
NoMessageDropped == \A m \in Messages : message[m] /= "dropped"

(* A message is answered or its turn fails, whatever the run is about to do. *)
MessagesEnd == \A m \in Messages : message[m] \in {"none", "answered", "failed"}

(* The inductive invariant: the handler at its turn is one, and its message is the last  *)
(* of the session.                                                                       *)
Sizes == MaxMessages \in Nat

TypeOK ==
  /\ chat \in [run : Nat, phase : {"serve", "drain"}, turns : Nat, busy : BOOLEAN, suggested : BOOLEAN]
  /\ message \in [Messages -> {"none", "waiting", "turn", "answered", "failed"}]
  /\ transcript \in Seq({"user", "model"} \X Messages)

IInv ==
  /\ TypeOK
  /\ TurnsWhole
  /\ \A m \in Messages :
       message[m] = "turn" => chat.busy /\ transcript /= <<>> /\ transcript[Len(transcript)] = <<"user", m>>
==============================================================================
