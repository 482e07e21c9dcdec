------------------------------ MODULE FieldPut ------------------------------
(***************************************************************************)
(* A PUT of a value to a field of one device through the control API       *)
(* (api.rs write_field), a thread for each: what it reads before it        *)
(* writes, and which way the value then goes to the device.  An output     *)
(* that events drive is switched as an event switches it; every other      *)
(* field is written.  What JSON means which value is in SignalK.           *)
(***************************************************************************)
EXTENDS FiniteSets

CONSTANTS Puts,        \* requests of the control API
          Fields,      \* the device's switches
          Driven,      \* those events drive: its eventable outputs
          Unlisted,    \* those no menu lists
          NoLabels,    \* those whose options have no labels
          Locked       \* those the end user cannot write

ASSUME SwitchesAssumption ==
  /\ Driven \subseteq Fields /\ Unlisted \subseteq Driven
  /\ NoLabels \subseteq Fields /\ Locked \subseteq Fields

VARIABLES
  awake,      \* whether the device answers
  level,      \* the access level it is at
  libOutputs, \* Sched.outputs: its outputs as the library keeps them
  listing,    \* Shared.outputs: and as the daemon does
  recorded,   \* the fields its record has
  allowOff,   \* the fields whose entry allows switching off
  puts        \* the requests

putVars == <<awake, level, libOutputs, listing, recorded, allowOff, puts>>
deviceVars == <<awake, level>>

Logins == {"none", "right", "wrong", "no such level"}
NoRequest == [step |-> "idle", field |-> "", on |-> FALSE, login |-> "none", entry |-> FALSE,
              way |-> "none", status |-> 0, leave |-> FALSE, listed |-> FALSE]

PutInit ==
  /\ awake \in BOOLEAN /\ level = "end user"
  /\ libOutputs = {}
  /\ listing = [asked |-> FALSE, outputs |-> {}, old |-> FALSE]
  /\ recorded = Fields \ Unlisted /\ allowOff = {}
  /\ puts = [p \in Puts |-> NoRequest]

Pending(p) == puts[p].step \notin {"idle", "done"}
AtStep(p, step) == puts[p].step = step
Goes(p, step) == puts' = [puts EXCEPT ![p].step = step]
Answers(p, status) ==
  puts' = [puts EXCEPT ![p] = [puts[p] EXCEPT !.step = "done", !.status = status]]

-----------------------------------------------------------------------------
(* The outputs.  The library asks until it gets a list; the daemon keeps   *)
(* an empty one for NO_OUTPUTS_KEPT.                                       *)

Lists == IF libOutputs = {} /\ awake THEN Driven ELSE libOutputs

HaveOutputs == listing.asked /\ (listing.outputs # {} \/ ~listing.old)

EnsureOutputs ==
  IF HaveOutputs
  THEN UNCHANGED <<libOutputs, listing, recorded>>
  ELSE /\ libOutputs' = Lists
       /\ listing' = [asked |-> TRUE, outputs |-> Lists, old |-> FALSE]
       /\ recorded' = IF awake THEN recorded \cup Lists ELSE recorded

(* A field that must be switched as an event switches it.                  *)
NeedsOutputs(f) == f \in Locked \ NoLabels

(* For comparison: only outputs the device has listed. *)
EventOnlyIfListed(f) == f \in Locked \cup NoLabels /\ f \in listing'.outputs

EventOnly(f) == f \in NoLabels \/ (f \in Locked /\ f \in listing'.outputs)

-----------------------------------------------------------------------------
(* The request.                                                            *)

Arrive(p) ==
  /\ ~Pending(p)
  /\ \E f \in Fields, on \in BOOLEAN, login \in Logins :
       puts' = [puts EXCEPT ![p] =
                [step |-> IF f \in recorded THEN "entry" ELSE "done", field |-> f, on |-> on,
                 login |-> login, entry |-> FALSE, way |-> "none",
                 status |-> IF f \in recorded THEN 0 ELSE 404,
                 leave |-> f \in allowOff, listed |-> f \in listing.outputs]]
  /\ UNCHANGED <<deviceVars, libOutputs, listing, recorded, allowOff>>

TakeEntry(p) ==
  /\ AtStep(p, "entry")
  /\ puts' = [puts EXCEPT ![p] = [puts[p] EXCEPT !.entry = puts[p].field \in allowOff,
                                                 !.step = "template"]]
  /\ UNCHANGED <<deviceVars, libOutputs, listing, recorded, allowOff>>

(* The current value is the template of the new one; the library may have  *)
(* it, or the device is asked.                                             *)
ReadTemplate(p) ==
  /\ AtStep(p, "template")
  /\ \/ Goes(p, "way")
     \/ ~awake /\ Answers(p, 502)
  /\ UNCHANGED <<deviceVars, libOutputs, listing, recorded, allowOff>>

ChooseWay(p) ==
  /\ AtStep(p, "way")
  /\ IF NeedsOutputs(puts[p].field) THEN EnsureOutputs ELSE UNCHANGED <<libOutputs, listing, recorded>>
  /\ IF EventOnly(puts[p].field)
     THEN IF puts[p].on \/ puts[p].entry THEN Goes(p, "switch") ELSE Answers(p, 403)
     ELSE Goes(p, "write")
  /\ UNCHANGED <<deviceVars, allowOff>>

Sends(p, way) ==
  /\ awake
  /\ puts' = [puts EXCEPT ![p] = [puts[p] EXCEPT !.step = "done", !.status = 200, !.way = way]]
  /\ UNCHANGED deviceVars

(* set_output: the library switches only what the device lists.            *)
Switch(p) ==
  /\ AtStep(p, "switch")
  /\ libOutputs' = Lists
  /\ \/ puts[p].field \in Lists /\ Sends(p, "switched")
     \/ (puts[p].field \notin Lists \/ ~awake) /\ Answers(p, 502) /\ UNCHANGED deviceVars
  /\ UNCHANGED <<listing, recorded, allowOff>>

MayWrite(f) == f \notin Locked \/ level # "end user"

(* set: what is read-only at the present level is refused unsent, and then *)
(* tried once more after the login the request brings.                     *)
WriteField(p) ==
  /\ AtStep(p, "write") \/ AtStep(p, "again")
  /\ \/ MayWrite(puts[p].field) /\ Sends(p, "written")
     \/ MayWrite(puts[p].field) /\ ~awake /\ Answers(p, 502) /\ UNCHANGED deviceVars
     \/ /\ ~MayWrite(puts[p].field) /\ UNCHANGED deviceVars
        /\ CASE AtStep(p, "again") \/ puts[p].login = "none" -> Answers(p, 403)
             [] ~AtStep(p, "again") /\ puts[p].login = "no such level" -> Answers(p, 400)
             [] OTHER -> Goes(p, "login")
  /\ UNCHANGED <<libOutputs, listing, recorded, allowOff>>

LogIn(p) ==
  /\ AtStep(p, "login")
  /\ \/ /\ awake /\ puts[p].login = "right"
        /\ level' = "installer" /\ Goes(p, "again")
     \/ /\ awake /\ puts[p].login = "wrong" /\ level # "installer"
        /\ Answers(p, 403) /\ UNCHANGED level
     \/ /\ awake /\ puts[p].login = "wrong" /\ level = "installer"
        /\ Goes(p, "again") /\ UNCHANGED level
     \/ ~awake /\ Answers(p, 502) /\ UNCHANGED level
  /\ UNCHANGED <<awake, libOutputs, listing, recorded, allowOff>>

PutStep(p) ==
  \/ Arrive(p) \/ TakeEntry(p) \/ ReadTemplate(p) \/ ChooseWay(p)
  \/ Switch(p) \/ WriteField(p) \/ LogIn(p)

-----------------------------------------------------------------------------
(* What happens meanwhile: the editor opens the device, somebody saves a   *)
(* mapping, a list of no outputs grows old, the device falls asleep or     *)
(* wakes up, or another program logs in or out.                            *)

OpenEditor ==
  /\ EnsureOutputs
  /\ UNCHANGED <<deviceVars, allowOff, puts>>

EditMapping ==
  /\ \E f \in Fields : allowOff' \in {allowOff \cup {f}, allowOff \ {f}}
  /\ puts' = [p \in Puts |-> [puts[p] EXCEPT !.leave = @ \/ puts[p].field \in allowOff']]
  /\ UNCHANGED <<deviceVars, libOutputs, listing, recorded>>

GrowOld ==
  /\ listing.asked
  /\ listing' = [listing EXCEPT !.old = TRUE]
  /\ UNCHANGED <<deviceVars, libOutputs, recorded, allowOff, puts>>

DeviceActs ==
  /\ \/ awake' = ~awake /\ UNCHANGED level
     \/ level' \in {"end user", "installer"} /\ UNCHANGED awake
  /\ UNCHANGED <<libOutputs, listing, recorded, allowOff, puts>>

PutNext ==
  \/ \E p \in Puts : PutStep(p)
  \/ OpenEditor \/ EditMapping \/ GrowOld \/ DeviceActs

PutSpec == PutInit /\ [][PutNext]_putVars

-----------------------------------------------------------------------------

(* An output that the device's events drive is switched as they switch it, *)
(* and off only if a mapping in force during the request allowed that: an  *)
(* output without labels whatever has become of the device's list (it may  *)
(* be asleep, or an empty list still be kept), a labelled one that is      *)
(* read-only once the daemon has a list that names it (api.rs:374, #29).   *)
OffByLeave ==
  \A p \in Puts :
    LET f == puts[p].field
    IN f \in Driven /\ (f \in NoLabels \/ (f \in Locked /\ puts[p].listed)) =>
         /\ puts[p].way # "written"
         /\ puts[p].way = "switched" => puts[p].on \/ puts[p].leave
=============================================================================
