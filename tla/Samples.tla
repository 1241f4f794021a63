-------------------------------- MODULE Samples --------------------------------
(* The small samples side by side. A behaviour is one of one sample: which names it,   *)
(* and the variables of its module are the first of v1 to v7.                           *)
EXTENDS Naturals, Sequences, FiniteSets

CONSTANTS
  (* signals and updates: GreetingService, OrderProxy, ShoppingCart, UpdatableTimer,     *)
  (* AwaitSignals                                                                        *)
  MaxLost, MaxRuns, MaxRequests, MaxUnheard, MaxActions, MaxUpdates, MaxTime, MaxClock,
  (* agents: AgentChat, AgentApproval                                                    *)
  MaxMessages, MaxTurns, MaxChats, MaxCalls, MaxDecisions,
  (* streams and lists: Streams, Listings, PinCache                                      *)
  TickCount, KeepLast, TruncateEvery, MaxStreamAttempts, Executions, PageSize, MaxReads,
  CacheKeys, CacheSize, MaxHolds,
  (* activities that fail and are tried again: EarlyReturn, HostFiles, RetriedBatch,     *)
  (* Polling, ParticleSwarm                                                              *)
  MaxInits, MaxAttempts, MaxLostResults, BatchSize, MaximumAttempts, ErrorAttempts,
  PollsPerRun, MaxRestarts, MaxLostAnswers, Particles, SwarmSteps, ContinueAsNewEvery,
  NumberOfAttempts,
  (* runs, schedules and versions: LongRuns, Schedules, Deployments, Partitions          *)
  RunCount, RemainingActions, Signals, MaxRecords, MaxWindow, MaxPartitions,
  (* the headers of calls: TokenReuse                                                    *)
  GrpcCalls, Expiration, RegenLeeway, Pause

VARIABLES which, v1, v2, v3, v4, v5, v6, v7

vars == <<which, v1, v2, v3, v4, v5, v6, v7>>
Unused == 0

Greeting == INSTANCE GreetingService
  WITH pattern <- v1, flow <- v2, update <- v3, caller <- v4, changes <- v5
Proxy == INSTANCE OrderProxy
  WITH ui <- v1, request <- v2, order <- v3, inbox <- v4
Chat == INSTANCE AgentChat
  WITH chat <- v1, message <- v2, transcript <- v3
Approval == INSTANCE AgentApproval
  WITH pass <- v1, pending <- v2, decisions <- v3, made <- v4, verdict <- v5
Stream == INSTANCE Streams
  WITH scenario <- v1, log <- v2, base <- v3, host <- v4, reader <- v5
Flow == INSTANCE Flows
  WITH sample <- v1, act <- v2, effect <- v3, main <- v4
Cart == INSTANCE ShoppingCart
  WITH run <- v1, cart <- v2, request <- v3, shop <- v4, wanted <- v5
Await == INSTANCE AwaitSignals
  WITH clock <- v1, signals <- v2, main <- v3, sender <- v4
Timer == INSTANCE UpdatableTimer
  WITH now <- v1, timer <- v2, channel <- v3, sleep <- v4, sent <- v5
Early == INSTANCE EarlyReturn
  WITH phase <- v1, made <- v2, init <- v3, tx <- v4, effects <- v5, client <- v6, attempts <- v7
Files == INSTANCE HostFiles
  WITH sample <- v1, flow <- v2, host <- v3, lost <- v4, uploaded <- v5
Retried == INSTANCE RetriedBatch
  WITH attempt <- v1, activity <- v2, heartbeat <- v3, processed <- v4, clean <- v5
Poll == INSTANCE Polling
  WITH pattern <- v1, tries <- v2, poll <- v3, workflow <- v4, trouble <- v5
Chain == INSTANCE LongRuns
  WITH sample <- v1, clock <- v2, state <- v3, main <- v4, history <- v5
Swarm == INSTANCE ParticleSwarm
  WITH parent <- v1, child <- v2, swarm <- v3, task <- v4, best <- v5
Lru == INSTANCE PinCache
  WITH mode <- v1, byAccess <- v2, byKey <- v3, held <- v4
Split == INSTANCE Partitions
  WITH input <- v1, main <- v2, child <- v3
Version == INSTANCE Deployments
  WITH up <- v1, current <- v2, app <- v3, run <- v4
Listing == INSTANCE Listings
  WITH loop <- v1, listed <- v2, known <- v3, steady <- v4, reader <- v5
Guard == INSTANCE ChildGuard
  WITH at <- v1, guard <- v2, child <- v3, future <- v4, caller <- v5, signal <- v6
Payload == INSTANCE Payloads
  WITH sample <- v1, ctx <- v2, header <- v3, payload <- v4, stored <- v5, read <- v6
Schedule == INSTANCE Schedules
  WITH step <- v1, schedule <- v2, open <- v3, started <- v4
Token == INSTANCE TokenReuse
  WITH clock <- v1, reuse <- v2, call <- v3

ASSUME SamplesAssumption ==
  /\ Stream!Sizes /\ Lru!Sizes /\ Chain!Sizes /\ Schedule!Sizes /\ Await!Sizes
  /\ Early!Sizes /\ Token!Timing /\ Proxy!Sizes /\ Chat!Sizes
  /\ Greeting!Sizes /\ Version!Sizes /\ Listing!Sizes
  /\ Retried!Sizes /\ Poll!Sizes /\ Swarm!Sizes /\ Split!Sizes

(* The variables a sample of so many does not use. *)
rest3 == <<v4, v5, v6, v7>>
rest4 == <<v5, v6, v7>>
rest5 == <<v6, v7>>
rest6 == <<v7>>
Idle3 == v4 = Unused /\ v5 = Unused /\ v6 = Unused /\ v7 = Unused
Idle4 == v5 = Unused /\ v6 = Unused /\ v7 = Unused
Idle5 == v6 = Unused /\ v7 = Unused
Idle6 == v7 = Unused

Init ==
  \/ which = "chat"        /\ Chat!Init /\ Idle3
  \/ which = "partitions"  /\ Split!Init /\ Idle3
  \/ which = "tokens"      /\ Token!Init /\ Idle3
  \/ which = "proxy"       /\ Proxy!Init /\ Idle4
  \/ which = "flows"       /\ Flow!Init /\ Idle4
  \/ which = "signals"     /\ Await!Init /\ Idle4
  \/ which = "cache"       /\ Lru!Init /\ Idle4
  \/ which = "deployments" /\ Version!Init /\ Idle4
  \/ which = "schedule"    /\ Schedule!Init /\ Idle4
  \/ which = "messages"    /\ Greeting!Init /\ Idle5
  \/ which = "approval"    /\ Approval!Init /\ Idle5
  \/ which = "streams"     /\ Stream!Init /\ Idle5
  \/ which = "cart"        /\ Cart!Init /\ Idle5
  \/ which = "timer"       /\ Timer!Init /\ Idle5
  \/ which = "files"       /\ Files!Init /\ Idle5
  \/ which = "batch"       /\ Retried!Init /\ Idle5
  \/ which = "polling"     /\ Poll!Init /\ Idle5
  \/ which = "runs"        /\ Chain!Init /\ Idle5
  \/ which = "swarm"       /\ Swarm!Init /\ Idle5
  \/ which = "listings"    /\ Listing!Init /\ Idle5
  \/ which = "guard"       /\ Guard!Init /\ Idle6
  \/ which = "payloads"    /\ Payload!Init /\ Idle6
  \/ which = "early"       /\ Early!Init

Next ==
  \/ which = "chat"        /\ Chat!Next /\ UNCHANGED <<which, rest3>>
  \/ which = "partitions"  /\ Split!Next /\ UNCHANGED <<which, rest3>>
  \/ which = "tokens"      /\ Token!Next /\ UNCHANGED <<which, rest3>>
  \/ which = "proxy"       /\ Proxy!Next /\ UNCHANGED <<which, rest4>>
  \/ which = "flows"       /\ Flow!Next /\ UNCHANGED <<which, rest4>>
  \/ which = "signals"     /\ Await!Next /\ UNCHANGED <<which, rest4>>
  \/ which = "cache"       /\ Lru!Next /\ UNCHANGED <<which, rest4>>
  \/ which = "deployments" /\ Version!Next /\ UNCHANGED <<which, rest4>>
  \/ which = "schedule"    /\ Schedule!Next /\ UNCHANGED <<which, rest4>>
  \/ which = "messages"    /\ Greeting!Next /\ UNCHANGED <<which, rest5>>
  \/ which = "approval"    /\ Approval!Next /\ UNCHANGED <<which, rest5>>
  \/ which = "streams"     /\ Stream!Next /\ UNCHANGED <<which, rest5>>
  \/ which = "cart"        /\ Cart!Next /\ UNCHANGED <<which, rest5>>
  \/ which = "timer"       /\ Timer!Next /\ UNCHANGED <<which, rest5>>
  \/ which = "files"       /\ Files!Next /\ UNCHANGED <<which, rest5>>
  \/ which = "batch"       /\ Retried!Next /\ UNCHANGED <<which, rest5>>
  \/ which = "polling"     /\ Poll!Next /\ UNCHANGED <<which, rest5>>
  \/ which = "runs"        /\ Chain!Next /\ UNCHANGED <<which, rest5>>
  \/ which = "swarm"       /\ Swarm!Next /\ UNCHANGED <<which, rest5>>
  \/ which = "listings"    /\ Listing!Next /\ UNCHANGED <<which, rest5>>
  \/ which = "guard"       /\ Guard!Next /\ UNCHANGED <<which, rest6>>
  \/ which = "payloads"    /\ Payload!Next /\ UNCHANGED <<which, rest6>>
  \/ which = "early"       /\ Early!Next /\ UNCHANGED which

(* What the servers, the workers and the programs do in time: each module says which   *)
(* of its actions those are.                                                            *)
Progress ==
  \/ which = "chat"        /\ Chat!Progress /\ UNCHANGED <<which, rest3>>
  \/ which = "partitions"  /\ Split!Progress /\ UNCHANGED <<which, rest3>>
  \/ which = "proxy"       /\ Proxy!Progress /\ UNCHANGED <<which, rest4>>
  \/ which = "flows"       /\ Flow!Progress /\ UNCHANGED <<which, rest4>>
  \/ which = "signals"     /\ Await!Progress /\ UNCHANGED <<which, rest4>>
  \/ which = "deployments" /\ Version!Progress /\ UNCHANGED <<which, rest4>>
  \/ which = "schedule"    /\ Schedule!Progress /\ UNCHANGED <<which, rest4>>
  \/ which = "messages"    /\ Greeting!Progress /\ UNCHANGED <<which, rest5>>
  \/ which = "approval"    /\ Approval!Progress /\ UNCHANGED <<which, rest5>>
  \/ which = "streams"     /\ Stream!Progress /\ UNCHANGED <<which, rest5>>
  \/ which = "cart"        /\ Cart!Progress /\ UNCHANGED <<which, rest5>>
  \/ which = "timer"       /\ Timer!Progress /\ UNCHANGED <<which, rest5>>
  \/ which = "files"       /\ Files!Progress /\ UNCHANGED <<which, rest5>>
  \/ which = "batch"       /\ Retried!Progress /\ UNCHANGED <<which, rest5>>
  \/ which = "polling"     /\ Poll!Progress /\ UNCHANGED <<which, rest5>>
  \/ which = "runs"        /\ Chain!Progress /\ UNCHANGED <<which, rest5>>
  \/ which = "swarm"       /\ Swarm!Progress /\ UNCHANGED <<which, rest5>>
  \/ which = "listings"    /\ Listing!Progress /\ UNCHANGED <<which, rest5>>
  \/ which = "guard"       /\ Guard!Progress /\ UNCHANGED <<which, rest6>>
  \/ which = "payloads"    /\ Payload!Progress /\ UNCHANGED <<which, rest6>>
  \/ which = "early"       /\ Early!Progress /\ UNCHANGED which

Spec == Init /\ [][Next]_vars /\ WF_vars(Progress)

----------------------------------------------------------------------------
(* What was said in a conversation is kept, once and in its order, across runs that    *)
(* continue as new, handlers that interleave, and requests sent again: the cart, the   *)
(* order, the chat and the language of a user are what their clients were told.        *)
SessionsKept ==
  /\ which = "cart" => Cart!CartKept
  /\ which = "proxy" => Proxy!OrderInStep
  /\ which = "chat" => Chat!TurnsWhole /\ Chat!NoMessageDropped
  /\ which = "messages" => Greeting!SwapsChained /\ Greeting!AcceptedAnswered

(* Who reads gets everything there is to read, and as it was written: subscribers that *)
(* reconnect or come late, a program that lists page by page, a hop that decodes.      *)
ReadsComplete ==
  /\ which = "streams" => Stream!SeenOnce /\ Stream!AnswerWhole
  /\ which = "listings" => Listing!ListComplete
  /\ which = "payloads" => Payload!PayloadsArrive

(* Success is earned: what a workflow returns was done, by the attempt, on the host and *)
(* with the answers that count, however often a step was tried.                        *)
ResultsEarned ==
  /\ which = "flows" => Flow!ResultEarned
  /\ which = "files" => Files!AllOnOneHost
  /\ which = "batch" => Retried!NoTaskSkipped
  /\ which = "polling" => Poll!AnswerIsReal
  /\ which = "swarm" => Swarm!BestIsBest
  /\ which = "partitions" => Split!EveryRecordOnce

(* A failure half-way is undone and leaves nothing behind, and nobody was told          *)
(* otherwise before.                                                                   *)
FailuresUndone ==
  /\ which = "flows" => Flow!FailureUndone /\ Flow!NothingLeftAtWork
  /\ which = "early" => Early!ToldTrue

(* Bounds hold at their edge: the truncated log, the full cache, the chain of runs, the *)
(* schedule with a limit, deadlines that move, the token about to expire.              *)
BoundsKept ==
  /\ which = "streams" => Stream!LogBounded
  /\ which = "cache" => Lru!UsedEntriesStay
  /\ which = "runs" => Chain!HistoryFits
  /\ which = "schedule" => Schedule!ActionsLimited
  /\ which = "signals" => Await!DoneInTime
  /\ which = "timer" => Timer!WokenOnTime
  /\ which = "tokens" => Token!HeaderValid

(* Nothing is done that was not allowed: a deletion without a decision of its own, a    *)
(* child of a type not listed, a task by code that does not fit the history.            *)
DecisionsObeyed ==
  /\ [](which = "guard" => Guard!OnlyAllowedChildren)
  /\ [](which = "deployments" => Version!UpgradesReplay)
  /\ [][which = "approval" => Approval!DeletionConfirmed]_vars

(* Whoever waits gets an answer, and what was started comes to its end. Left out are    *)
(* the workflows that rightly wait for a human.                                        *)
EverythingEnds ==
  <>[](/\ which = "messages" => Greeting!CallersEnd
       /\ which = "proxy" => Proxy!UpdatesAnswered
       /\ which = "chat" => Chat!MessagesEnd
       /\ which = "streams" => Stream!ReadersReturn
       /\ which = "flows" => Flow!FlowsEnd
       /\ which = "timer" => Timer!SleepEnds
       /\ which = "files" => Files!AttemptsEnd
       /\ which = "batch" => Retried!BatchEnds
       /\ which = "polling" => Poll!PollingEnds
       /\ which = "swarm" => Swarm!SwarmEnds
       /\ which = "partitions" => Split!BatchEnds
       /\ which = "deployments" => Version!RunsConclude
       /\ which = "listings" => Listing!ListingEnds
       /\ which = "guard" => Guard!ResultsCome
       /\ which = "schedule" => Schedule!ScheduleEnds)
================================================================================
