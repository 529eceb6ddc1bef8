------------------------------- MODULE Settings -------------------------------
(***************************************************************************)
(* The configuration: the one in memory that everything reads, its file    *)
(* (config.go), and those who change them: the handlers of the dashboard   *)
(* under cfgMu (main.go), those of pipoolctl and of the swap rules without *)
(* it, the operator with an editor, and the end of the process.  A request *)
(* has its own goroutine.                                                  *)
(*                                                                         *)
(* Save marshals the memory, opens the file, which empties it, and writes. *)
(* Load decodes the first value of the file only, so that the rest of a    *)
(* longer text behind it does no harm.  A setting is 0 or 1, and 0 by      *)
(* default; the pin of a worker's difficulty is absent when 0.             *)
(***************************************************************************)
EXTENDS Integers

CONSTANTS
  Requests,      \* goroutines of the dashboard and the control socket
  MaxEdits,      \* bound: requests that change something
  MaxFailures,     \* bound: failing writes, and ends of the process
  MaxHandEdits   \* bound: edits of the file

ASSUME SettingsAssumption == {MaxEdits, MaxFailures, MaxHandEdits} \subseteq Nat

VARIABLES
  memory,     \* the configuration in use
  cfgFile,    \* the file: what it holds, or Empty
  request,    \* of each goroutine: what it does, and what it is about to write
  form,       \* what the browser's configuration editor has loaded, or NoForm
  disturbed,  \* for the properties: since the start an unlocked request ran beside
              \* another, a write failed or the operator edited the file
  keptPin,    \* for the properties: a pin removed in the editor has stayed
  falseAck,   \* for the properties: pipoolctl said "saved" of what was not
  edits, failures, handEdits

setVars == <<memory, cfgFile, request, form, disturbed, keptPin, falseAck, edits, failures,
             handEdits>>
setGhost == <<disturbed, keptPin, falseAck>>
setBounds == <<edits, failures, handEdits>>

Keys == {"tag", "wallet", "alerts", "coin", "pin", "rule", "level"}
FormKeys == {"wallet", "alerts", "pin"}
Empty == [of |-> "empty"]
Saved(config) == [of |-> "config", config |-> config]
NoForm == [of |-> "none"]
Idle == [does |-> "nothing"]
Down == [does |-> "not running"]

DefaultConfig == [k \in Keys |-> 0]
Working == \A r \in Requests : request[r] # Down
Busy == {r \in Requests : request[r].does \notin {"nothing", "not running"}}

SettingsInit ==
  /\ memory = DefaultConfig /\ cfgFile = Saved(memory) /\ form = NoForm
  /\ request = [r \in Requests |-> Idle]
  /\ disturbed = FALSE /\ keptPin = FALSE /\ falseAck = FALSE
  /\ edits = 0 /\ failures = 0 /\ handEdits = 0
-----------------------------------------------------------------------------
\* cfgMu: the save of a tag holds it for reading, the others for writing.
Locked == {"form", "notifs", "tag"}
\* A slip: the lock is left once the text is marshalled.
HoldersToMarshal == {r \in Busy : request[r].kind \in {"form", "notifs"} /\
                                  request[r].does = "marshals"}
Holders == {r \in Busy : request[r].kind \in Locked /\
                         ~(request[r].kind = "tag" /\ request[r].does = "marshals")}
Readers == {r \in Holders : request[r].kind = "tag"}

Does(r, doing) == request' = [request EXCEPT ![r] = doing]
Sets(r, kind, value) == Does(r, [does |-> "marshals", kind |-> kind, value |-> value])
Beside(r, kind) == disturbed' = (disturbed \/ \E q \in Busy \ {r} :
                                   kind \notin Locked \/ request[q].kind \notin Locked)
Edit(r) == request[r] = Idle /\ edits < MaxEdits /\ edits' = edits + 1

\* GET /api/config
LoadForm ==
  /\ Working /\ form = NoForm /\ Holders = Readers
  /\ form' = [of |-> "form", was |-> [k \in FormKeys |-> memory[k]]]
  /\ UNCHANGED <<memory, cfgFile, request, setGhost, setBounds>>

\* setConfig stores all fields of the form, as loaded or as the operator made them.  A
\* pin without its row in the form is not among them, and stays as it is.
FormStored(values) == [k \in Keys |-> IF k \in FormKeys /\ ~(k = "pin" /\ values[k] = 0)
                                      THEN values[k] ELSE memory[k]]

\* POST /api/config
PostForm(r, values) ==
  /\ form # NoForm /\ Holders = {} /\ Edit(r)
  /\ memory' = FormStored(values) /\ Sets(r, "form", 1) /\ Beside(r, "form")
  /\ keptPin' = (keptPin \/ (form.was["pin"] > values["pin"] /\ memory'["pin"] = 1))
  /\ form' = NoForm
  /\ UNCHANGED <<cfgFile, falseAck, failures, handEdits>>

\* POST /api/discord
PostNotifs(r, v) ==
  /\ Holders = {} /\ Edit(r)
  /\ memory' = [memory EXCEPT !["alerts"] = v] /\ Sets(r, "notifs", v) /\ Beside(r, "notifs")
  /\ UNCHANGED <<cfgFile, form, keptPin, falseAck, failures, handEdits>>

\* POST /api/tag: the lock is left while the servers are told, then taken for reading.
PostTag(r, v) ==
  /\ Holders = {} /\ Edit(r)
  /\ memory' = [memory EXCEPT !["tag"] = v] /\ Sets(r, "tag", v) /\ Beside(r, "tag")
  /\ UNCHANGED <<cfgFile, form, keptPin, falseAck, failures, handEdits>>

\* Without the lock: pipoolctl coin and fixdiff, and POST /api/swap.
Unlocked(r, k, v) ==
  /\ Edit(r)
  /\ memory' = [memory EXCEPT ![k] = v] /\ Sets(r, k, v) /\ Beside(r, k)
  /\ UNCHANGED <<cfgFile, form, keptPin, falseAck, failures, handEdits>>

EnableCoin(r, v) == Unlocked(r, "coin", v)
FixDiff(r, v) == Unlocked(r, "pin", v)
UpdateSwapRule(r, v) == Unlocked(r, "rule", v)

\* pipoolctl loglevel, which nothing saves but the next save of anything.
LogLevel(v) ==
  /\ Working /\ v # memory["level"] /\ edits < MaxEdits /\ edits' = edits + 1
  /\ memory' = [memory EXCEPT !["level"] = v]
  /\ UNCHANGED <<cfgFile, request, form, setGhost, failures, handEdits>>

\* json.MarshalIndent
Marshal(r) ==
  /\ request[r].does = "marshals" /\ (request[r].kind = "tag" => Holders = Readers)
  /\ Does(r, [does |-> "opens", kind |-> request[r].kind, value |-> request[r].value,
              text |-> memory])
  /\ UNCHANGED <<memory, cfgFile, form, setGhost, setBounds>>

\* os.WriteFile: the file is emptied, and then written.
OpenFile(r) ==
  /\ request[r].does = "opens" /\ cfgFile' = Empty
  /\ Does(r, [request[r] EXCEPT !.does = "writes"])
  /\ UNCHANGED <<memory, form, setGhost, setBounds>>

WriteFile(r) ==
  /\ request[r].does = "writes" /\ cfgFile' = Saved(request[r].text)
  /\ Does(r, [request[r] EXCEPT !.does = "answers"])
  /\ UNCHANGED <<memory, form, setGhost, setBounds>>

\* The disk is full, say: the error is logged, and told by fixdiff alone.
WriteFails(r) ==
  /\ request[r].does = "writes" /\ failures < MaxFailures /\ failures' = failures + 1
  /\ disturbed' = TRUE
  /\ Does(r, IF request[r].kind = "pin" THEN Idle ELSE [request[r] EXCEPT !.does = "answers"])
  /\ UNCHANGED <<memory, cfgFile, form, keptPin, falseAck, edits, handEdits>>

\* The dashboard answers "ok", pipoolctl coin "enabled and saved".
Answer(r) ==
  /\ request[r].does = "answers" /\ Does(r, Idle)
  /\ falseAck' = (falseAck \/ (request[r].kind = "coin" /\
                    (cfgFile = Empty \/ cfgFile.config["coin"] # request[r].value)))
  /\ UNCHANGED <<memory, cfgFile, form, disturbed, keptPin, setBounds>>

\* pipoolctl reload: the file is read, and some of its sections taken over.
Reload(r) ==
  /\ request[r] = Idle /\ cfgFile # Empty
  /\ Does(r, [does |-> "takes over", kind |-> "reload", text |-> cfgFile.config])
  /\ Beside(r, "reload")
  /\ UNCHANGED <<memory, cfgFile, form, keptPin, falseAck, setBounds>>

TakeOver(r) ==
  /\ request[r].does = "takes over"
  /\ memory' = [memory EXCEPT !["alerts"] = request[r].text["alerts"],
                              !["level"] = request[r].text["level"]]
  /\ Does(r, Idle)
  /\ UNCHANGED <<cfgFile, form, setGhost, setBounds>>

\* The operator saves the file in an editor.
EditFile(k, v) ==
  /\ handEdits < MaxHandEdits /\ handEdits' = handEdits + 1
  /\ cfgFile # Empty /\ cfgFile.config[k] # v
  /\ cfgFile' = Saved([cfgFile.config EXCEPT ![k] = v]) /\ disturbed' = TRUE
  /\ UNCHANGED <<memory, request, form, keptPin, falseAck, edits, failures>>

\* main returns, or is killed, whatever is being saved: it does not wait for handlers.
Ends ==
  /\ Working /\ failures < MaxFailures /\ failures' = failures + 1
  /\ request' = [r \in Requests |-> Down]
  /\ UNCHANGED <<memory, cfgFile, form, setGhost, edits, handEdits>>

\* main: a file that does not decode ends the process at once, again and again.
Starts ==
  /\ ~Working /\ cfgFile # Empty /\ memory' = cfgFile.config
  /\ request' = [r \in Requests |-> Idle] /\ disturbed' = FALSE
  /\ UNCHANGED <<cfgFile, form, keptPin, falseAck, setBounds>>

\* pipool -init, the only way out of it
Initialises ==
  /\ ~Working /\ cfgFile = Empty /\ cfgFile' = Saved(DefaultConfig)
  /\ UNCHANGED <<memory, request, form, setGhost, setBounds>>

SettingsNext ==
  \/ LoadForm \/ Ends \/ Starts \/ Initialises
  \/ \E v \in {0, 1} : LogLevel(v) \/ \E k \in {"alerts", "coin"} : EditFile(k, v)
  \/ \E r \in Requests :
       \/ Marshal(r) \/ OpenFile(r) \/ WriteFile(r) \/ WriteFails(r) \/ Answer(r)
       \/ Reload(r) \/ TakeOver(r)
       \/ \E values \in [FormKeys -> {0, 1}] : PostForm(r, values)
       \/ \E v \in {0, 1} :
            PostNotifs(r, v) \/ PostTag(r, v) \/ EnableCoin(r, v) \/ FixDiff(r, v)
            \/ UpdateSwapRule(r, v)

SettingsSpec == SettingsInit /\ [][SettingsNext]_setVars
-----------------------------------------------------------------------------
SettingsTypeOK ==
  /\ memory \in [Keys -> {0, 1}]
  /\ cfgFile = Empty \/ cfgFile \in {Saved(c) : c \in [Keys -> {0, 1}]}
  /\ edits \in 0..MaxEdits /\ failures \in 0..MaxFailures /\ handEdits \in 0..MaxHandEdits

(***************************************************************************)
(* As long as the handlers under cfgMu have the configuration to           *)
(* themselves, and those without it come one at a time, the file holds     *)
(* what the program works with whenever no one is saving: overlapping      *)
(* requests leave neither an older text in the file nor an empty file.     *)
(* (The log level is not meant to be saved.)                               *)
(***************************************************************************)
FileFollowsMemory ==
  (~disturbed /\ Busy = {} /\ Working) =>
     /\ cfgFile # Empty
     /\ \A k \in Keys \ {"level"} : cfgFile.config[k] = memory[k]

\* The button "Remove" of the configuration editor (dashboard/server.go:3302) takes the
\* pin of a worker's difficulty out of the configuration.
RemovedPinsGo == ~keptPin

\* What pipoolctl calls "enabled and saved" (main.go:2361) is in the file.
EnabledIsSaved == ~falseAck
=============================================================================
