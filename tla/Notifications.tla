---------------------------- MODULE Notifications ----------------------------
(***************************************************************************)
(* The channels through which one user is warned: Zalo, linked to a chat   *)
(* by its webhook, and web push, to which any number of browsers register  *)
(* a token.  A warning goes to every channel that is enabled and linked,   *)
(* side by side, and an attempt is recorded with how it ended.  Firebase   *)
(* says which tokens are dead, and the sender prunes them from the row it  *)
(* was given.  Like every request, it loads the row, changes the entity    *)
(* and saves it: the save reads the row again and writes the columns in    *)
(* which the entity differs.                                               *)
(***************************************************************************)
EXTENDS Integers

CONSTANTS
    Tokens,      \* of browsers
    Chats,       \* of Zalo
    Actors,      \* concurrent requests and warnings
    Configured,  \* channels whose sender has its credentials
    Answering,   \* channels whose provider always answers
    MaxRequests, \* bound on registrations, removals, edits and links
    MaxFaults    \* bound on failed saves and sends

Channels == {"ZALO", "WEB_PUSH"}

ASSUME ChannelsAssumption == Configured \subseteq Channels /\ Answering \subseteq Channels
ASSUME BoundsAssumption == MaxRequests \in Nat /\ MaxFaults \in Nat
ASSUME RecipientsAssumption == Tokens \cap Chats = {}

VARIABLES
    config, \* notification_configs: a row for each channel, or none
    alive,  \* tokens that Firebase knows
    run,    \* what each request or warning is doing
    count,  \* requests and faults so far
    wanted, \* history: what the requests and prunings so far come to
    raced   \* history: channels saved from a row that was not the row any more

vars == <<config, alive, run, count, wanted, raced>>

Recipients == Tokens \cup Chats
Absent     == [absent |-> TRUE]
Row        == {row \in [enabled : BOOLEAN, linked : BOOLEAN, to : SUBSET Recipients] : row.linked \/ row.to = {}}
Columns    == {"enabled", "config"}

Idle    == [pc |-> "idle"]
Edit    == [add : SUBSET Recipients, drop : SUBSET Recipients, enabled : SUBSET BOOLEAN, unlinks : BOOLEAN]
Saving  == [pc : {"save", "write"}, loaded : Row \cup {Absent}, edit : Edit, columns : SUBSET Columns]
Sending == [pc : {"send"}, loaded : Row] \cup [pc : {"record"}, status : {"SENT", "FAILED"}]
Parts   == [Channels -> Saving \cup Sending \cup {Idle}]

TypeOK ==
    /\ config \in [Channels -> Row \cup {Absent}]
    /\ \A c \in Channels : config[c] # Absent => config[c].to \subseteq IF c = "ZALO" THEN Chats ELSE Tokens
    /\ alive \subseteq Tokens
    /\ run \in [Actors -> [pc : {"request"}, channel : Channels, job : Saving]
                          \cup [pc : {"find"}, channels : SUBSET Channels, test : BOOLEAN]
                          \cup [pc : {"warn"}, parts : Parts, test : BOOLEAN] \cup {Idle}]
    /\ count \in [requests : 0 .. MaxRequests, faults : 0 .. MaxFaults]
    /\ wanted \in [Channels -> [enabled : BOOLEAN, to : SUBSET Recipients]] /\ raced \subseteq Channels

Init ==
    /\ config = [c \in Channels |-> Absent]
    /\ alive = Tokens
    /\ run = [a \in Actors |-> Idle]
    /\ count = [requests |-> 0, faults |-> 0]
    /\ wanted = [c \in Channels |-> [enabled |-> TRUE, to |-> {}]]
    /\ raced = {}

Fault == count.faults < MaxFaults /\ count' = [count EXCEPT !.faults = @ + 1]

GoesOn(a, next) == run' = [run EXCEPT ![a] = next]

-----------------------------------------------------------------------------
(***************************************************************************)
(* Loading a row, changing it, and saving it                               *)
(***************************************************************************)
\* A channel without a row starts enabled and linked to nothing.
Created(row) == IF row = Absent THEN [enabled |-> TRUE, linked |-> FALSE, to |-> {}] ELSE row

\* mutant: a registration starts the list anew.
EditedAnew(row, edit) ==
    LET to == IF edit.add # {} THEN edit.add ELSE Created(row).to \ edit.drop
    IN [enabled |-> Created(row).enabled, linked |-> to # {}, to |-> to]

\* mutant: any removal unlinks the channel.
EditedUnlinking(row, edit) ==
    [enabled |-> IF edit.enabled = {} THEN Created(row).enabled ELSE TRUE \in edit.enabled,
     linked  |-> edit.add # {} \/ (~ edit.unlinks /\ Created(row).linked),
     to      |-> (Created(row).to \cup edit.add) \ edit.drop]

\* What an edit makes of the entity.  Only a removal unlinks a channel whose
\* last recipient it takes.
Edited(row, edit) ==
    LET to == (Created(row).to \cup edit.add) \ edit.drop
    IN [enabled |-> IF edit.enabled = {} THEN Created(row).enabled ELSE TRUE \in edit.enabled,
        linked  |-> edit.add # {} \/ (IF edit.unlinks THEN to # {} ELSE Created(row).linked),
        to      |-> to]

Differing(entity, row) ==
    {c \in Columns : CASE c = "enabled" -> entity.enabled # row.enabled
                       [] c = "config" -> <<entity.linked, entity.to>> # <<row.linked, row.to>>}

Written(entity, row, columns) ==
    LET config_ == IF "config" \in columns THEN entity ELSE row
    IN [enabled |-> IF "enabled" \in columns THEN entity.enabled ELSE row.enabled,
        linked |-> config_.linked, to |-> config_.to]

Loaded(c, edit) == [pc |-> "save", loaded |-> config[c], edit |-> edit, columns |-> {}]

Races(c, job) == raced' = IF config[c] = job.loaded THEN raced ELSE raced \cup {c}

\* The save of an existing row begins ...
Reads(c, job) ==
    /\ job.pc = "save" /\ job.loaded # Absent
    /\ Races(c, job)
    /\ UNCHANGED <<config, wanted>>

\* ... with what it will write.
Compared(c, job) == [job EXCEPT !.pc = "write", !.columns = Differing(Edited(job.loaded, job.edit), config[c])]

\* The save ends: an update, or an insert where there was no row.
Writes(c, job) ==
    /\ job.pc = IF job.loaded = Absent THEN "save" ELSE "write"
    /\ job.loaded = Absent => config[c] = Absent
    /\ LET entity == Edited(job.loaded, job.edit)
       IN config' = [config EXCEPT ![c] = IF @ = Absent THEN entity ELSE Written(entity, @, job.columns)]
    /\ Races(c, job)
    /\ wanted' = [wanted EXCEPT ![c] = [enabled |-> IF job.edit.enabled = {} THEN @.enabled ELSE job.edit.enabled = {TRUE},
                                        to |-> (@.to \cup job.edit.add) \ job.edit.drop]]

-----------------------------------------------------------------------------
(***************************************************************************)
(* Requests                                                                *)
(***************************************************************************)
NoEdit == [add |-> {}, drop |-> {}, enabled |-> {}, unlinks |-> FALSE]

Request(a, c, edit) ==
    /\ run[a] = Idle
    /\ count.requests < MaxRequests /\ count' = [count EXCEPT !.requests = @ + 1]
    /\ GoesOn(a, [pc |-> "request", channel |-> c, job |-> Loaded(c, edit)])
    /\ UNCHANGED <<config, alive, wanted, raced>>

\* A switch, or another template with the switch as it is loaded.
UpsertConfig(a, c) == \E enabled \in {{}, {TRUE}, {FALSE}} : Request(a, c, [NoEdit EXCEPT !.enabled = enabled])

RegisterWebPushToken(a, t) == t \in alive /\ Request(a, "WEB_PUSH", [NoEdit EXCEPT !.add = {t}])

UnregisterWebPushToken(a, t) ==
    /\ config["WEB_PUSH"] # Absent
    /\ Request(a, "WEB_PUSH", [NoEdit EXCEPT !.drop = {t}, !.unlinks = TRUE])

HandleZaloWebhook(a, z) == Request(a, "ZALO", [NoEdit EXCEPT !.add = {z}, !.drop = Chats \ {z}])

ReadsForSave(a) ==
    /\ run[a].pc = "request"
    /\ Reads(run[a].channel, run[a].job)
    /\ GoesOn(a, [run[a] EXCEPT !.job = Compared(run[a].channel, @)])
    /\ UNCHANGED <<alive, count>>

\* The webhook greets the new chat, on every channel.
Greets(request) == IF request.channel = "ZALO" /\ request.job.edit.add # {}
                   THEN [pc |-> "find", channels |-> Channels, test |-> FALSE]
                   ELSE Idle

SaveRequest(a) ==
    /\ run[a].pc = "request"
    /\ Writes(run[a].channel, run[a].job)
    /\ GoesOn(a, Greets(run[a]))
    /\ UNCHANGED <<alive, count>>

\* The unique columns refuse a second row for the channel.
InsertRefused(a) ==
    /\ run[a].pc = "request" /\ run[a].job.loaded = Absent /\ config[run[a].channel] # Absent
    /\ GoesOn(a, Idle)
    /\ UNCHANGED <<config, alive, count, wanted, raced>>

RequestFails(a) ==
    /\ run[a].pc = "request" /\ Fault
    /\ GoesOn(a, Idle)
    /\ UNCHANGED <<config, alive, wanted, raced>>

-----------------------------------------------------------------------------
(***************************************************************************)
(* Warnings and test messages                                              *)
(***************************************************************************)
SendWarning(a, channels) ==
    /\ run[a] = Idle
    /\ GoesOn(a, [pc |-> "find", channels |-> channels, test |-> FALSE])
    /\ UNCHANGED <<config, alive, count, wanted, raced>>

SendTestMessage(a, c) ==
    /\ run[a] = Idle
    /\ GoesOn(a, [pc |-> "find", channels |-> {c}, test |-> TRUE])
    /\ UNCHANGED <<config, alive, count, wanted, raced>>

Target(c) == config[c] # Absent /\ config[c].enabled /\ config[c].linked

\* The warning is over when the last of its parts is.
WarnsOn(a, parts) ==
    GoesOn(a, IF \A c \in Channels : parts[c] = Idle THEN Idle ELSE [pc |-> "warn", parts |-> parts, test |-> run[a].test])

Find(a) ==
    /\ run[a].pc = "find"
    /\ WarnsOn(a, [c \in Channels |-> IF c \in run[a].channels /\ Target(c)
                                      THEN [pc |-> "send", loaded |-> config[c]] ELSE Idle])
    /\ UNCHANGED <<config, alive, count, wanted, raced>>

Part(a, c) == run[a].parts[c]

At(a, c, pc) == run[a].pc = "warn" /\ Part(a, c).pc = pc

PartGoesOn(a, c, next) == WarnsOn(a, [run[a].parts EXCEPT ![c] = next])

\* Only warnings are recorded.
Ends(a, status) == IF run[a].test THEN Idle ELSE [pc |-> "record", status |-> status]

\* mutant: channels are tried one after the other.
InTurn(a, c) == c = "WEB_PUSH" => Part(a, "ZALO") = Idle

\* Promise.all: no channel waits for another.
MaySend(a, c) == TRUE

\* mutant: the last token is kept.
DeadButTheLast(tokens) == IF tokens \cap alive = {} THEN {} ELSE tokens \cap (Tokens \ alive)

Dead(tokens) == tokens \cap (Tokens \ alive)

\* A sender without credentials or recipients returns at once, and Zalo's only
\* logs a refusal.
Send(a, c) ==
    /\ At(a, c, "send") /\ MaySend(a, c)
    /\ LET loaded == Part(a, c).loaded
       IN PartGoesOn(a, c, IF c \in Configured /\ Dead(loaded.to) # {}
                           THEN [pc |-> "save", loaded |-> loaded, columns |-> {},
                                 edit |-> [NoEdit EXCEPT !.drop = Dead(loaded.to)]]
                           ELSE Ends(a, "SENT"))
    /\ UNCHANGED <<config, alive, count, wanted, raced>>

\* The provider is not reached, or the pruned row is not saved.
SendFails(a, c) ==
    /\ run[a].pc = "warn" /\ Part(a, c).pc \in {"send", "save", "write"} /\ MaySend(a, c)
    /\ Part(a, c).pc = "send" => c \in Configured /\ Part(a, c).loaded.to # {}
    /\ Fault
    /\ PartGoesOn(a, c, Ends(a, "FAILED"))
    /\ UNCHANGED <<config, alive, wanted, raced>>

ReadsForPruning(a, c) ==
    /\ At(a, c, "save")
    /\ Reads(c, Part(a, c))
    /\ PartGoesOn(a, c, Compared(c, Part(a, c)))
    /\ UNCHANGED <<alive, count>>

Prune(a, c) ==
    /\ At(a, c, "write")
    /\ Writes(c, Part(a, c))
    /\ PartGoesOn(a, c, Ends(a, "SENT"))
    /\ UNCHANGED <<alive, count>>

\* recordMessage, whose own failure is only logged.
RecordMessage(a, c) ==
    /\ At(a, c, "record")
    /\ PartGoesOn(a, c, Idle)
    /\ UNCHANGED <<config, alive, count, wanted, raced>>

\* A browser's token dies: its site data is cleared, or it is gone for good.
TokenDies(t) ==
    /\ t \in alive
    /\ alive' = alive \ {t}
    /\ UNCHANGED <<config, run, count, wanted, raced>>

-----------------------------------------------------------------------------
RequestStep(a) == ReadsForSave(a) \/ SaveRequest(a) \/ InsertRefused(a)

PartStep(a, c) == ReadsForPruning(a, c) \/ Prune(a, c) \/ RecordMessage(a, c)

Next ==
    \/ \E a \in Actors :
          \/ \E c \in Channels : UpsertConfig(a, c) \/ SendTestMessage(a, c)
          \/ \E t \in Tokens : RegisterWebPushToken(a, t) \/ UnregisterWebPushToken(a, t)
          \/ \E z \in Chats : HandleZaloWebhook(a, z)
          \/ RequestStep(a) \/ RequestFails(a)
          \/ \E channels \in SUBSET Channels \ {{}} : SendWarning(a, channels)
          \/ Find(a)
          \/ \E c \in Channels : Send(a, c) \/ SendFails(a, c) \/ PartStep(a, c)
    \/ \E t \in Tokens : TokenDies(t)

\* What is begun goes on, as far as the providers answer, and warnings for all
\* channels keep coming.
Fairness ==
    /\ \A a \in Actors :
          /\ WF_vars(RequestStep(a)) /\ WF_vars(Find(a))
          /\ \A c \in Channels : WF_vars(PartStep(a, c))
          /\ \A c \in Answering : WF_vars(Send(a, c))
    /\ SF_vars(\E a \in Actors : SendWarning(a, Channels))

Spec     == Init /\ [][Next]_vars
FairSpec == Spec /\ Fairness

-----------------------------------------------------------------------------
(***************************************************************************)
(* Properties                                                              *)
(***************************************************************************)

\* A row is what the requests and prunings saved so far come to, one after the
\* other, unless one of them saved a row that had changed since it was loaded.
SavesAddUp ==
    \A c \in Channels \ raced :
        LET row == Created(config[c]) IN [enabled |-> row.enabled, to |-> row.to] = wanted[c]

\* A provider that does not answer holds up nobody else: an attempt on a channel
\* that answers ends, whatever becomes of the other.
Attempting(a, c) == run[a].pc = "warn" /\ Part(a, c) # Idle

AnswersAreNotHeldUp == \A a \in Actors, c \in Answering : []<>(~ Attempting(a, c))

\* As long as somebody can still be warned, and push stays enabled, a dead token
\* is pruned in the end, whoever brings it back meanwhile.
DeadTokensGo ==
    /\ []<>(\E a \in Actors : run[a] = Idle)
    /\ <>[](config["WEB_PUSH"] # Absent => config["WEB_PUSH"].enabled)
    => <>[](config["WEB_PUSH"] # Absent => config["WEB_PUSH"].to \subseteq alive)

=============================================================================
