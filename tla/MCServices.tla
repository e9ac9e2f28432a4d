------------------------------ MODULE MCServices ------------------------------
(*****************************************************************************)
(* The components that share no state, side by side: every behaviour is one of*)
(* a single component, the one that part names.  A property of one component  *)
(* holds of the components together if it holds here: the others leave its    *)
(* variables alone.  ToolGateway is extended, the others are instances.  A    *)
(* configuration gives the constants the values of an instance for TLC; the   *)
(* theorems of TuiProofs and ServicesProofs hold for all values.              *)
(*****************************************************************************)
EXTENDS ToolGateway

CONSTANTS
  ApprovalIds, NoneAsked, MaxScanned,                    \* of EventScan
  Outputs, Reports, MaxFiles, MaxArtifacts, MaxStarts,   \* of RunArtifacts
  McpRuns, McpClients, Users, UserOf, NoUser, Servers, ProviderOf, Static, Imported,
  MaxTokens, MaxRequests,                                \* of RemoteMcpAuth
  Compacters, MaxMessages, MaxCompactions, Enabled,      \* of Conversation
  SkillRuns, Installers, Bundles, MaxChanges, MaxQuestions, MaxDeaths,   \* of SkillInstall
  Tasks, MaxLogged, MaxStreams, MaxQueued, MaxInputs, BufferLimit,       \* of TuiStore
  MaxDepth, MaxAsked,                                    \* of TuiScreens
  AgentRuns, ThreadIds, AgentThreads, MaxPuts, MaxSavers, MaxCrashes     \* of CheckpointAdapter

ASSUME NamedAssumption   == NoneAsked \notin ApprovalIds
ASSUME BufferAssumption  == BufferLimit \in Nat \ {0}
ASSUME ServersAssumption == Servers \in Seq({Servers[i] : i \in DOMAIN Servers})
ASSUME OwnerAssumption   == UserOf \in [McpRuns -> Users \cup {NoUser}]
ASSUME ThreadAssumption  == 0 \notin ThreadIds
ASSUME RunsAssumption    == SkillRuns # {}
ASSUME TasksAssumption   == IsFiniteSet(Tasks)
ASSUME LimitsAssumption  ==
  /\ {MaxFiles, MaxArtifacts, MaxStarts, MaxTokens, MaxCompactions, MaxChanges, MaxQuestions, MaxDeaths}
       \subseteq Nat
  /\ {MaxMessages, MaxDepth} \subseteq Nat \ {0}
  /\ MaxLogged \in [Tasks -> Nat]

VARIABLE part    \* the component that takes the steps

VARIABLES sEvents, sJournal
scanVars == <<sEvents, sJournal>>

VARIABLES
  aFile, aWrites, aRecords, aHosts, aIssued, aLog, aFresh, aCount, aLoaded,
  aJob, aLoading, aRestarts
artifactsVars ==
  <<aFile, aWrites, aRecords, aHosts, aIssued, aLog, aFresh, aCount, aLoaded,
    aJob, aLoading, aRestarts>>

VARIABLES
  mGrants, mPending, mRequests, mIssued, mClient, mRun, mApproved, mConsents
mcpVars ==
  <<mGrants, mPending, mRequests, mIssued, mClient, mRun, mApproved,
    mConsents>>

VARIABLES
  cPhase, cMessages, cRecords, cReading, cGiven, cTriggered, cCompacted
talkVars ==
  <<cPhase, cMessages, cRecords, cReading, cGiven, cTriggered, cCompacted>>

VARIABLES
  iSource, iChanges, iTarget, iStaging, iJob, iQuestions, iGrants, iSkills,
  iCrashes
skillsVars ==
  <<iSource, iChanges, iTarget, iStaging, iJob, iQuestions, iGrants, iSkills,
    iCrashes>>

VARIABLES
  uLog, uFeeds, uEvents, uSnapshot, uApprovals, uBuffer, uUnread, uSelected,
  uChosen, uDialog, uStreamKey, uListener, uSync, uDecide, uInputs
storeVars ==
  <<uLog, uFeeds, uEvents, uSnapshot, uApprovals, uBuffer, uUnread,
    uSelected, uChosen, uDialog, uStreamKey, uListener, uSync, uDecide,
    uInputs>>

VARIABLES qOauth, qOrder, qWire, qEffect, qCode, qStage
requestsVars == <<qOauth, qOrder, qWire, qEffect, qCode, qStage>>

VARIABLE ui
screensVars == <<ui>>

VARIABLES
  kThread, kCreated, kMarked, kDisk, kSavers, kCached, kController, kRequested,
  kWorker, kReturned, kWrites, kCrashes
checkpointVars ==
  <<kThread, kCreated, kMarked, kDisk, kSavers, kCached, kController,
    kRequested, kWorker, kReturned, kWrites, kCrashes>>

-----------------------------------------------------------------------------
(* The calls of a turn: the first slot may hold any kind of call, the second    *)
(* one asks for what the first one may have asked for.                         *)
NoOp == [type |-> "none"]
CallOf(tool, op) == [tool |-> tool, op |-> op, args |-> "ok"]
Write(path) == CallOf("write_file", [type |-> "file.write", path |-> path])
Run(class, targets, args) ==
  [tool |-> "execute_command", args |-> args,
   op |-> [type |-> "command.execute", class |-> class, cwd |-> <<"workspace">>,
           targets |-> targets]]
Remember(namespace, identity) ==
  CallOf("memory_write", [type |-> "memory.write", scope |-> "project",
                          namespace |-> namespace, identity |-> identity])
Source == <<"workspace", "src", "a">>
CallMenu ==
  << { Write(Source), Write(<<"tmp", "t">>), Write(<<"etc", "t">>),
       CallOf("read_file", [type |-> "file.read", path |-> <<"tmp", "t">>]),
       Run("destructive", {<<"tmp", "t">>}, "ok"), Run("unknown", {}, "empty"),
       Remember("ns", FALSE), Remember("idns", TRUE),
       CallOf("web_fetch", [type |-> "web.fetch", host |-> "h"]),
       CallOf("request_user_input", NoOp), CallOf("plan_update", NoOp),
       CallOf("mcp", NoOp) },
     { Write(Source), Write(<<"etc", "t">>) } >>

(* The other values that a configuration cannot write down.                    *)
Owner    == [r1 |-> "u1", r2 |-> "u2"]
Configured == <<"static", "imported">>
Provider == [static |-> "static_headers", imported |-> "p"]
Bundle(version, valid, scripts) == [version |-> version, valid |-> valid, scripts |-> scripts]
StagedBundles == {Bundle(1, TRUE, FALSE), Bundle(2, TRUE, TRUE), Bundle(3, FALSE, FALSE)}
EventsOf == [t1 |-> 4, t2 |-> 1]

Scan == INSTANCE EventScan WITH
  Approvals <- ApprovalIds, NoApproval <- NoneAsked, MaxEvents <- MaxScanned,
  events <- sEvents, journal <- sJournal

Artifacts == INSTANCE RunArtifacts WITH
  MaxWrites <- MaxFiles, MaxEvents <- MaxArtifacts, MaxRestarts <- MaxStarts, file <- aFile, writes <- aWrites,
  records <- aRecords, hosts <- aHosts, issued <- aIssued, log <- aLog,
  fresh <- aFresh, count <- aCount, loaded <- aLoaded, job <- aJob,
  loading <- aLoading, restarts <- aRestarts

Mcp == INSTANCE RemoteMcpAuth WITH
  Runs <- McpRuns, Clients <- McpClients, grants <- mGrants, pending <- mPending, requests <- mRequests,
  issued <- mIssued, client <- mClient, run <- mRun, approved <- mApproved,
  consents <- mConsents

Talk == INSTANCE Conversation WITH
  Clients <- Compacters, phase <- cPhase, messages <- cMessages,
  records <- cRecords, reading <- cReading, given <- cGiven,
  triggered <- cTriggered, compacted <- cCompacted

Skills == INSTANCE SkillInstall WITH
  Runs <- SkillRuns, Threads <- Installers, Overlap <- FALSE,
  MaxCrashes <- MaxDeaths, source <- iSource, changes <- iChanges, target <- iTarget,
  staging <- iStaging, job <- iJob, questions <- iQuestions,
  grants <- iGrants, skills <- iSkills, crashes <- iCrashes

Store == INSTANCE TuiStore WITH
  MaxEvents <- MaxLogged, log <- uLog,
  feeds <- uFeeds, events <- uEvents, snapshot <- uSnapshot,
  approvals <- uApprovals, buffer <- uBuffer, unread <- uUnread,
  selected <- uSelected, chosen <- uChosen, dialog <- uDialog,
  streamKey <- uStreamKey, listener <- uListener, sync <- uSync,
  decide <- uDecide, inputs <- uInputs

Asking == INSTANCE Requests WITH
  oauth <- qOauth, order <- qOrder, wire <- qWire, effect <- qEffect,
  code <- qCode, stage <- qStage

Screens == INSTANCE TuiScreens

Checkpoints == INSTANCE CheckpointAdapter WITH
  Runs <- AgentRuns, Ids <- ThreadIds, Workers <- AgentThreads, MaxWrites <- MaxPuts,
  thread <- kThread, created <- kCreated,
  marked <- kMarked, disk <- kDisk, savers <- kSavers, cached <- kCached,
  controller <- kController, requested <- kRequested, worker <- kWorker,
  returned <- kReturned, writes <- kWrites, crashes <- kCrashes

-----------------------------------------------------------------------------
(* The staged bundle and the configuration may be anything at first; those of a  *)
(* component that takes no step are fixed.                                     *)
ServicesInit ==
  /\ part \in {"scan", "tools", "artifacts", "mcp", "talk", "skills", "store",
              "requests", "screens", "checkpoints"}
  /\ Scan!Init /\ Init /\ Artifacts!Init /\ Mcp!Init /\ Talk!Init
  /\ Skills!Init /\ Store!Init /\ Asking!Init /\ Screens!Init
  /\ Checkpoints!Init
  /\ part # "skills"   => iSource = CHOOSE b \in Bundles : TRUE
  /\ part # "requests" => qOauth = FALSE

Resting ==
  /\ part # "scan" => UNCHANGED scanVars
  /\ part # "tools" => UNCHANGED tvars
  /\ part # "artifacts" => UNCHANGED artifactsVars
  /\ part # "mcp" => UNCHANGED mcpVars
  /\ part # "talk" => UNCHANGED talkVars
  /\ part # "skills" => UNCHANGED skillsVars
  /\ part # "store" => UNCHANGED storeVars
  /\ part # "requests" => UNCHANGED requestsVars
  /\ part # "screens" => UNCHANGED screensVars
  /\ part # "checkpoints" => UNCHANGED checkpointVars

ServicesNext ==
  /\ UNCHANGED part /\ Resting
  /\ \/ part = "scan" /\ Scan!Next
     \/ part = "tools" /\ Next
     \/ part = "artifacts" /\ Artifacts!Next
     \/ part = "mcp" /\ Mcp!Next
     \/ part = "talk" /\ Talk!Next
     \/ part = "skills" /\ Skills!Next
     \/ part = "store" /\ Store!Next
     \/ part = "requests" /\ Asking!Next
     \/ part = "screens" /\ Screens!Next
     \/ part = "checkpoints" /\ Checkpoints!Next

services == <<part, scanVars, tvars, artifactsVars, mcpVars, talkVars, skillsVars,
              storeVars, requestsVars, screensVars, checkpointVars>>
ServicesSpec == ServicesInit /\ [][ServicesNext]_services

-----------------------------------------------------------------------------
(* What is checked of each component; its module says why.                     *)
ServicesTypeOK ==
  /\ TypeOK /\ Artifacts!TypeOK /\ Mcp!TypeOK /\ Talk!TypeOK
  /\ Skills!TypeOK /\ Store!TypeOK /\ Screens!TypeOK /\ Checkpoints!TypeOK

RebuildsTheSame == Scan!RebuildsTheSame
ListIsFaithful == Artifacts!ListIsFaithful
OwnTokens == Mcp!OwnTokens
StaysRefreshable == Mcp!StaysRefreshable
NothingForgotten == Talk!NothingForgotten
NeverHalfInstalled == Skills!NeverHalfInstalled
ChangedWithConsent == Skills!ChangedWithConsent
NoRecordTwice == Store!NoRecordTwice
NeverDecidesStale == Store!NeverDecidesStale
ClientsAreUnderstood == Asking!ClientsAreUnderstood
AScreenIsLeft == Screens!AScreenIsLeft
ResumesWithEverything == Checkpoints!ResumesWithEverything
=============================================================================
