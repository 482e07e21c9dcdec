---------------------------- MODULE Schema_proofs ----------------------------
(***************************************************************************)
(* Theorems about Schema, for any tabs, levels, firmwares and bounds:      *)
(* types, that a menu with fields missing is cached only after as many     *)
(* readings as it takes, that cache files that can be used stay as they    *)
(* are, and that, as long as nothing upsets it, what the engine files and  *)
(* shows is of the level and the firmware it takes it to be of.            *)
(***************************************************************************)
EXTENDS Schema, SequenceTheorems, TLAPS

Filling == pc \in {"groups", "open", "write", "unmark", "keep"}
Storing == pc \in {"open", "write", "unmark"}

\* What the scheduler knows at each place of its program.
Phases ==
    /\ pc = "level" <=> slot # Free
    /\ pc = "probe" => todo # <<>> /\ access_level # None
    /\ Filling => /\ todo # <<>> /\ Reading \in Menus
                  /\ identity # None /\ access_level # None
    /\ Storing => identity.serial

Typed == TypeOK /\ Phases

LEMMA Parameters ==
    /\ Tabs \in Seq(Goals) /\ Menus \subseteq Goals /\ EndUser \in Levels
    /\ Firmwares \subseteq Versions
    /\ IncompleteLimit \in Nat \ {0}
    /\ MaxGroups \in Nat /\ MaxFrames \in Nat /\ MaxUpsets \in Nat
    /\ Levels \cap {Read, Free, None} = {} /\ Free # None
    /\ None \notin [serial : BOOLEAN, firmware : Versions]
  BY SchemaAssumption DEF Goals

LEMMA InitTyped == Init => Typed
  BY Parameters DEF Init, Typed, TypeOK, Phases, Filling, Storing, NoListing, Listing, Wait

LEMMA NoListingType == NoListing \in Listing
  BY DEF NoListing, Listing

LEMMA NowType == TypeOK => Now \in Origins
  BY DEF TypeOK, Now, Origins

LEMMA AppendedRequest ==
    ASSUME asked \in Seq(Requests), NEW r \in Requests
    PROVE  Append(asked, r) \in Seq(Requests)
  OBVIOUS

LEMMA TaskLeft ==
    ASSUME todo \in Seq(Goals), todo # <<>>, NEW failed
    PROVE  Rest(failed) \in Seq(Goals)
  BY DEF Rest

LEMMA FileType == Typed /\ Filling => File(Reading) \in Files
  BY DEF Typed, TypeOK, Phases, Files, File

\* The device's doings, and the engine being restarted.
LEMMA DeviceTyped == Typed /\ (Device \/ Restart) => Typed'
  <1> SUFFICES ASSUME Typed, Device \/ Restart PROVE Typed'
    OBVIOUS
  <1> USE Parameters DEF Typed, Phases, Filling, Storing, Reading, Wait
  <1>1. CASE Answer
    <2>1. LevelsAfter(Head(asked)) \subseteq Levels
      BY <1>1 DEF Answer, LevelsAfter, TypeOK, Requests
    <2>2. asked' \in Seq(Requests)
      BY <1>1 DEF Answer, TypeOK
    <2>3. QED
      BY <1>1, <2>1, <2>2 DEF Answer, TypeOK, Told, known, memory, failures, folder, reading
  <1>2. CASE LoseFrame
    <2>1. {level} \cup LevelsAfter(Head(asked)) \subseteq Levels
      BY <1>2 DEF LoseFrame, LevelsAfter, TypeOK, Requests
    <2>2. asked' \in Seq(Requests)
      BY <1>2 DEF LoseFrame, TypeOK
    <2>3. QED
      BY <1>2, <2>1, <2>2 DEF LoseFrame, Upset, TypeOK, known, memory, failures, folder, reading
  <1>3. ASSUME NEW l \in Levels, OtherMasterLogsIn(l) PROVE Typed'
    BY <1>3 DEF OtherMasterLogsIn, Told, Upset, TypeOK, known, memory, failures, folder, reading
  <1>4. ASSUME NEW f \in Firmwares, DeviceRestarts(f) PROVE Typed'
    BY <1>4 DEF DeviceRestarts, Upset, TypeOK, known, memory, failures, folder, reading
  <1>5. CASE Restart
    BY <1>5, NoListingType DEF Restart, EmptyMemory, TypeOK, folder
  <1>6. QED
    BY <1>1, <1>2, <1>3, <1>4, <1>5 DEF Device

LEMMA LevelTyped == Typed /\ LevelStep => Typed'
  <1> SUFFICES ASSUME Typed, LevelStep PROVE Typed'
    OBVIOUS
  <1> USE Parameters DEF Typed, Phases, Filling, Storing, Reading, Wait
  <1>1. ASSUME NEW r \in Requests, NEW reason \in {"read", "set", "first"},
               pc # "level", AskLevel(r, reason)
        PROVE  Typed'
    <2>1. asked' \in Seq(Requests)
      BY <1>1, AppendedRequest DEF AskLevel, TypeOK
    <2>2. QED
      BY <1>1, <2>1 DEF AskLevel, TypeOK, device, known, memory, failures, folder, reading
  <1>2. CASE ReadLevel
    BY <1>1, <1>2 DEF ReadLevel, Requests
  <1>3. ASSUME NEW l \in Levels, SetLevel(l) PROVE Typed'
    BY <1>1, <1>3 DEF SetLevel, Requests
  <1>4. CASE TakeLevel
    BY <1>4, NoListingType
    DEF TakeLevel, ForgetSchema, EmptyMemory, TypeOK, device, memory, failures, folder, reading
  <1>5. CASE GiveUpLevel
    BY <1>5 DEF GiveUpLevel, Upset, TypeOK, device, memory, failures, folder, reading
  <1>6. QED
    BY <1>2, <1>3, <1>4, <1>5 DEF LevelStep

LEMMA PursuitTyped ==
    ASSUME Typed, NEW g \in Goals, Pursue(g)
    PROVE  Typed'
  <1> USE Parameters DEF Typed, Phases, Filling, Storing, Reading, Wait, Pursues
  <1>1. CASE Skip(g)
    BY <1>1, TaskLeft DEF Skip, TypeOK, device, bus, known, memory, failures, folder, reading
  <1>2. CASE AskFirstLevel(g)
    <2>1. asked' \in Seq(Requests)
      BY <1>2, AppendedRequest DEF AskFirstLevel, AskLevel, TypeOK, Requests
    <2>2. QED
      BY <1>2, <2>1
      DEF AskFirstLevel, AskLevel, TypeOK, device, known, memory, failures, folder, reading
  <1>3. CASE FetchIdentity(g)
    <2>1. identity' \in [serial : BOOLEAN, firmware : Versions] /\ upsets' \in 0 .. MaxUpsets
      <3>1. firmware \in Versions
        BY DEF TypeOK
      <3>2. [serial |-> TRUE, firmware |-> firmware] \in [serial : BOOLEAN, firmware : Versions]
        BY <3>1
      <3>3. QED
        <4>1. CASE identity' = [serial |-> TRUE, firmware |-> firmware] /\ UNCHANGED upsets
          BY <4>1, <3>2 DEF TypeOK
        <4>2. CASE identity' \in [serial : BOOLEAN, firmware : Versions] /\ Upset
          BY <4>2 DEF Upset, TypeOK
        <4>3. QED
          BY <1>3, <4>1, <4>2 DEF FetchIdentity
    <2>2. QED
      BY <1>3, <2>1
      DEF FetchIdentity, TypeOK, device, bus, memory, failures, folder, reading
  <1>4. QED
    BY <1>1, <1>2, <1>3 DEF Pursue

LEMMA CommandTyped == Typed /\ (Command \/ EndCommand) => Typed'
  <1> SUFFICES ASSUME Typed, Command \/ EndCommand PROVE Typed'
    OBVIOUS
  <1> USE Parameters DEF Typed, Phases, Filling, Storing, Reading, Wait
  <1>1. CASE Command
    <2>1. PICK goals \in Commands : Want(goals)
      BY <1>1 DEF Command
    <2>2. goals \in Seq(Goals)
      <3>1. ASSUME NEW g \in Goals PROVE <<g>> \in Seq(Goals)
        BY <3>1
      <3>2. ASSUME NEW g \in Goals PROVE <<g, "all_fields">> \in Seq(Goals)
        BY <3>2 DEF Goals
      <3>3. QED
        BY <2>1, <3>1, <3>2 DEF Commands
    <2>3. QED
      BY <2>1, <2>2 DEF Want, TypeOK, device, bus, known, memory, failures, folder, reading
  <1>2. CASE EndCommand
    BY <1>2 DEF EndCommand, TypeOK, device, bus, known, memory, failures, folder, reading
  <1>3. QED
    BY <1>1, <1>2

LEMMA FieldsTyped == Typed /\ (DiscoverField \/ ProbeFields \/ PutAllFields) => Typed'
  <1> SUFFICES ASSUME Typed, DiscoverField \/ ProbeFields \/ PutAllFields PROVE Typed'
    OBVIOUS
  <1> USE Parameters, NowType DEF Typed, Phases, Filling, Storing, Reading, Wait, Discovers, Pursues
  <1>1. CASE DiscoverField
    <2>1. extra_fields' \subseteq Origins /\ todo' \in Seq(Goals)
      BY <1>1, TaskLeft DEF DiscoverField, TypeOK
    <2>2. QED
      BY <1>1, <2>1 DEF DiscoverField, TypeOK, device, bus, failures, folder, reading
  <1>2. CASE ProbeFields
    <2>1. found' \in Listing
      BY <1>2 DEF ProbeFields, Begun, Listing
    <2>2. QED
      BY <1>2, <2>1 DEF ProbeFields, TypeOK, device, bus, known, memory, failures, folder
  <1>3. CASE PutAllFields
    <2>1. all_fields' \subseteq Origins /\ todo' \in Seq(Goals)
      BY <1>3, TaskLeft DEF PutAllFields, TypeOK, Listing
    <2>2. QED
      BY <1>3, <2>1, NoListingType DEF PutAllFields, TypeOK, device, bus, failures, folder
  <1>4. QED
    BY <1>1, <1>2, <1>3

\* What menus and failures become when a menu is kept.
LEMMA KeptMenu ==
    ASSUME Typed, NEW m \in Menus, NEW listing \in Listing, todo # <<>>, Keep(m, listing)
    PROVE  /\ menus' \in [Menus -> Listing] /\ menus' = [menus EXCEPT ![m] = listing]
           /\ recent' \subseteq failed_menus' /\ failed_menus' \subseteq Menus
           /\ todo' \in Seq(Goals)
  BY TaskLeft DEF Keep, Typed, TypeOK

LEMMA AskedMenuTyped ==
    ASSUME Typed, NEW m \in Menus, LoadMenu(m) \/ CountGroups(m) \/ MissCount(m)
    PROVE  Typed'
  <1> USE Parameters, NowType DEF Typed, Phases, Filling, Storing, Reading, Wait, Discovers, Pursues
  <1>1. CASE LoadMenu(m)
    <2>1. File(m) \in Files
      BY <1>1 DEF LoadMenu, File, Files, TypeOK
    <2>2. Keep(m, disk[File(m)]) /\ disk[File(m)] \in Listing /\ todo # <<>>
      BY <1>1, <2>1 DEF LoadMenu, TypeOK
    <2>3. QED
      BY <1>1, <2>2, KeptMenu DEF LoadMenu, TypeOK, device, bus, failures, folder, reading
  <1>2. CASE CountGroups(m)
    <2>1. found' \in Listing
      BY <1>2 DEF CountGroups, Begun, Listing
    <2>2. QED
      BY <1>2, <2>1 DEF CountGroups, TypeOK, device, bus, known, memory, failures, folder
  <1>3. CASE MissCount(m)
    BY <1>3, TaskLeft DEF MissCount, TypeOK, device, bus, known, memory, folder, reading
  <1>4. QED
    BY <1>1, <1>2, <1>3

LEMMA ReadMenuTyped == Typed /\ (ReadGroup \/ PassOverGroup \/ EndMenu) => Typed'
  <1> SUFFICES ASSUME Typed, ReadGroup \/ PassOverGroup \/ EndMenu PROVE Typed'
    OBVIOUS
  <1> USE Parameters, NowType DEF Typed, Phases, Filling, Storing, Reading, Wait
  <1>1. CASE ReadGroup
    <2>1. found' \in Listing /\ left' \in 0 .. MaxGroups
      BY <1>1 DEF ReadGroup, TypeOK, Listing
    <2>2. QED
      BY <1>1, <2>1 DEF ReadGroup, TypeOK, device, bus, known, memory, failures, folder
  <1>2. CASE PassOverGroup
    <2>1. left' \in 0 .. MaxGroups
      BY <1>2 DEF PassOverGroup, TypeOK
    <2>2. QED
      BY <1>2, <2>1 DEF PassOverGroup, TypeOK, device, bus, known, memory, failures, folder
  <1>3. CASE EndMenu
    <2>1. File(Reading) \in Files
      BY <1>3, FileType DEF EndMenu
    <2>2. marks' \in [Files -> 0 .. IncompleteLimit - 1]
      <3>1. PICK mark : marks' = [marks EXCEPT ![File(Reading)] = mark] /\
              (mark \in {marks[File(Reading)], 0}
               \/ (mark = marks[File(Reading)] + 1 /\ ~TooOften(mark)))
        BY <1>3 DEF EndMenu
      <3>2. mark \in 0 .. IncompleteLimit - 1
        BY <2>1, <3>1 DEF TooOften, TypeOK
      <3>3. QED
        BY <2>1, <3>1, <3>2 DEF TypeOK
    <2>3. tries' \in [Files -> 0 .. IncompleteLimit]
      BY <1>3, <2>1, SMTT(30) DEF EndMenu, TypeOK
    <2>4. pc' \in {"open", "keep"} /\ (pc' = "open" => identity.serial)
      BY <1>3 DEF EndMenu
    <2>5. QED
      BY <1>3, <2>2, <2>3, <2>4
      DEF EndMenu, TypeOK, device, bus, known, memory, failures, reading
  <1>4. QED
    BY <1>1, <1>2, <1>3

LEMMA StoreMenuTyped ==
    Typed /\ (OpenFile \/ WriteFile \/ FailToStore \/ Unmark \/ PutMenu) => Typed'
  <1> SUFFICES ASSUME Typed, OpenFile \/ WriteFile \/ FailToStore \/ Unmark \/ PutMenu
               PROVE  Typed'
    OBVIOUS
  <1> USE Parameters, NoListingType DEF Typed, Phases, Filling, Storing, Reading, Wait
  <1>1. CASE OpenFile
    BY <1>1 DEF OpenFile, TypeOK, device, bus, known, memory, failures, reading
  <1>2. CASE WriteFile
    BY <1>2 DEF WriteFile, TypeOK, device, bus, known, memory, failures, reading
  <1>3. CASE FailToStore
    BY <1>3 DEF FailToStore, TypeOK, device, bus, known, memory, failures, folder, reading
  <1>4. CASE Unmark
    <2>1. marks' \in [Files -> 0 .. IncompleteLimit - 1]
      <3>1. 0 \in 0 .. IncompleteLimit - 1
        OBVIOUS
      <3>2. QED
        BY <1>4, <3>1 DEF Unmark, TypeOK
    <2>2. tries' \in [Files -> 0 .. IncompleteLimit]
      <3>1. 0 \in 0 .. IncompleteLimit
        OBVIOUS
      <3>2. CASE found.counted
        BY <1>4, <3>1, <3>2 DEF Unmark, TypeOK
      <3>3. CASE ~found.counted
        BY <1>4, <3>3 DEF Unmark, TypeOK
      <3>4. QED
        BY <3>2, <3>3
    <2>3. QED
      BY <1>4, <2>1, <2>2 DEF Unmark, TypeOK, device, bus, known, memory, failures, reading
  <1>5. CASE PutMenu
    <2>1. Keep(Reading, found) /\ found \in Listing /\ Reading \in Menus /\ todo # <<>>
      BY <1>5 DEF PutMenu, TypeOK
    <2>2. QED
      BY <1>5, <2>1, KeptMenu DEF PutMenu, TypeOK, device, bus, failures, folder
  <1>6. QED
    BY <1>1, <1>2, <1>3, <1>4, <1>5

LEMMA TypedStep == Typed /\ [Next]_vars => Typed'
  <1> SUFFICES ASSUME Typed, [Next]_vars PROVE Typed'
    OBVIOUS
  <1>1. ASSUME NEW m \in Menus, RetryDue(m) PROVE Typed'
    BY <1>1 DEF RetryDue, Typed, TypeOK, Phases, Filling, Storing, Reading, Wait, device, bus,
                known, memory, folder, reading
  <1>2. CASE UNCHANGED vars
    BY <1>2 DEF vars, Typed, TypeOK, Phases, Filling, Storing, Reading, Wait, device, bus, known,
                memory, failures, folder, reading
  <1>3. CASE MenuStep
    BY <1>3, AskedMenuTyped, ReadMenuTyped, StoreMenuTyped DEF MenuStep
  <1>4. QED
    BY <1>1, <1>2, <1>3, DeviceTyped, LevelTyped, PursuitTyped, CommandTyped, FieldsTyped
    DEF Next, DiscoveryStep

\* Every variable has its type throughout, and no file is marked incomplete as
\* often as would have it cached.
THEOREM TypeCorrect == Spec => []TypeOK
  <1>1. Typed => TypeOK
    BY DEF Typed
  <1>2. QED
    BY <1>1, InitTyped, TypedStep, PTL DEF Spec
\* Only a menu with groups can miss their counts.
Sound(listing) == listing.from = {} \/ listing.some \/ listing.counted

Good(k) == Readable(k) /\ Plausible(k[3], disk[k])

\* Only what cannot be used of the cache is read anew, and what is about to be
\* stored is whole or has been incomplete often enough.
CacheIsMinded ==
    /\ \A k \in Files : marks[k] <= tries[k] /\ Sound(disk[k])
    /\ Sound(found)
    /\ pc \in {"groups", "open"} /\ identity.serial => ~Good(File(Reading))
    /\ pc = "write" => ~Readable(File(Reading))
    /\ pc \in {"open", "write"} =>
          found.counted \/ tries[File(Reading)] = IncompleteLimit
    /\ pc = "unmark" /\ found.counted =>
          ~Readable(File(Reading)) \/ disk[File(Reading)].counted

Minded == CacheIsMinded /\ IncompleteIsRepeated

FInv == Typed /\ Minded

LEMMA InitMinded == Init => Minded
  BY Parameters
  DEF Init, Minded, CacheIsMinded, IncompleteIsRepeated, Sound, Readable, NoListing, Files

\* Away from what is being read and stored, nothing is disturbed.
LEMMA MindedElsewhere ==
    ASSUME Minded, UNCHANGED folder, Sound(found'),
           \/ pc' \notin {"groups", "open", "write", "unmark"}
           \/ UNCHANGED <<pc, found, todo, identity, access_level>>
    PROVE  Minded'
  BY DEF Minded, CacheIsMinded, IncompleteIsRepeated, Sound, Good, Readable, Plausible, File,
         Reading, folder

LEMMA CountedMinded ==
    ASSUME FInv, NEW m \in Menus, CountGroups(m)
    PROVE  Minded'
  <1>1. Reading = m /\ File(m) = File(Reading) /\ identity # None
    BY DEF CountGroups, Discovers, Pursues, Reading
  <1>2. identity.serial => ~Good(File(Reading))
    <2>1. File(m)[3] = m
      BY DEF File
    <2>2. QED
      BY <1>1, <2>1 DEF CountGroups, Cached, Good
  <1>3. Sound(found') /\ pc' = "groups" /\ UNCHANGED <<folder, todo, identity, access_level>>
    BY DEF CountGroups, Begun, Sound, known
  <1>4. QED
    BY <1>2, <1>3
    DEF FInv, Minded, CacheIsMinded, IncompleteIsRepeated, Sound, Good, Readable, Plausible,
        File, Reading, folder

LEMMA ReadMinded == FInv /\ (ReadGroup \/ PassOverGroup) => Minded'
  <1> SUFFICES ASSUME FInv, ReadGroup \/ PassOverGroup PROVE Minded'
    OBVIOUS
  <1>1. Sound(found')
    BY DEF FInv, Minded, CacheIsMinded, ReadGroup, PassOverGroup, Sound
  <1>2. /\ pc = "groups" /\ UNCHANGED <<folder, pc, todo, identity, access_level>>
    BY DEF ReadGroup, PassOverGroup, known
  <1>3. QED
    BY <1>1, <1>2
    DEF FInv, Minded, CacheIsMinded, IncompleteIsRepeated, Sound, Good, Readable, Plausible,
        File, Reading, folder

LEMMA EndMinded == FInv /\ EndMenu => Minded'
  <1> SUFFICES ASSUME FInv, EndMenu PROVE Minded'
    OBVIOUS
  <1> DEFINE k == File(Reading)
  <1>1. k \in Files /\ k' = k
    BY FileType DEF FInv, EndMenu, Filling, File, Reading, known
  <1>2. \A j \in Files : /\ marks[j] \in Nat /\ tries[j] \in 0 .. IncompleteLimit
                       /\ marks[j] <= tries[j] /\ marks[j] < IncompleteLimit
    BY Parameters DEF FInv, Typed, TypeOK, Minded, CacheIsMinded
  <1>3. /\ \A j \in Files : marks'[j] <= tries'[j] /\ tries[j] <= tries'[j]
                          /\ tries'[j] <= IncompleteLimit
        /\ pc' = "open" => found.counted \/ tries'[k] = IncompleteLimit
    <2>1. CASE identity.serial /\ ~found.counted
      <3>1. tries'[k] = IF tries[k] < IncompleteLimit THEN tries[k] + 1 ELSE tries[k]
        BY <1>1, <2>1 DEF EndMenu, FInv, Typed, TypeOK
      <3>2. \/ marks'[k] = marks[k] \/ marks'[k] = 0
            \/ (marks'[k] = marks[k] + 1 /\ ~TooOften(marks[k] + 1))
        BY <1>1, <2>1 DEF EndMenu, FInv, Typed, TypeOK
      <3>3. \A j \in Files : j # k => marks'[j] = marks[j] /\ tries'[j] = tries[j]
        BY <1>1, <2>1 DEF EndMenu, FInv, Typed, TypeOK
      <3>4. pc' = "open" => TooOften(marks[k] + 1)
        BY <2>1 DEF EndMenu
      <3>5. QED
        BY <1>1, <1>2, <3>1, <3>2, <3>3, <3>4, Parameters DEF TooOften
    <2>2. CASE ~(identity.serial /\ ~found.counted)
      <3>1. marks' = marks /\ tries' = tries
        BY <1>1, <2>2 DEF EndMenu, FInv, Typed, TypeOK
      <3>2. pc' = "open" => found.counted
        BY <2>2 DEF EndMenu
      <3>3. QED
        BY <1>2, <3>1, <3>2, Parameters
    <2>3. QED
      BY <2>1, <2>2
  <1>4. /\ pc = "groups" /\ pc' \in {"open", "keep"}
        /\ UNCHANGED <<disk, found, todo, identity, access_level>>
    BY DEF EndMenu, known, reading
  <1>5. CacheIsMinded'
    <2>1. pc' = "open" => identity.serial
      BY DEF EndMenu
    <2>2. QED
      BY <1>1, <1>3, <1>4, <2>1
      DEF FInv, Minded, CacheIsMinded, Sound, Good, Readable, Plausible, File, Reading
  <1>6. ASSUME NEW j \in Files, (Readable(j) /\ ~disk[j].counted)' PROVE tries'[j] = IncompleteLimit
    <2>1. tries[j] = IncompleteLimit
      BY <1>4, <1>6 DEF FInv, Minded, IncompleteIsRepeated, Readable
    <2>2. IncompleteLimit <= tries'[j] /\ tries'[j] <= IncompleteLimit /\ tries'[j] \in Nat
      <3>1. tries[j] <= tries'[j] /\ tries'[j] <= IncompleteLimit
        BY <1>3
      <3>2. tries' \in [Files -> 0 .. IncompleteLimit]
        BY TypedStep DEF FInv, Typed, TypeOK, Next, DiscoveryStep, MenuStep
      <3>3. QED
        BY <2>1, <3>1, <3>2
    <2>3. QED
      BY <2>2, Parameters
  <1>7. QED
    BY <1>5, <1>6 DEF Minded, IncompleteIsRepeated

LEMMA StoreMinded == FInv /\ (OpenFile \/ WriteFile \/ FailToStore \/ Unmark) => Minded'
  <1> SUFFICES ASSUME FInv, OpenFile \/ WriteFile \/ FailToStore \/ Unmark PROVE Minded'
    OBVIOUS
  <1> DEFINE k == File(Reading)
  <1>1. k \in Files /\ k' = k
    BY FileType DEF FInv, OpenFile, WriteFile, FailToStore, Unmark, Filling, File, Reading, known
  <1>2. disk \in [Files -> Listing] /\ marks \in [Files -> Nat] /\ tries \in [Files -> Nat]
    BY Parameters DEF FInv, Typed, TypeOK
  <1>3. CASE OpenFile
    <2>1. disk'[k] = NoListing /\ \A j \in Files : j # k => disk'[j] = disk[j]
      BY <1>1, <1>2, <1>3 DEF OpenFile
    <2>2. /\ pc = "open" /\ pc' = "write"
          /\ UNCHANGED <<marks, tries, found, todo, identity, access_level>>
      BY <1>3 DEF OpenFile, known, reading
    <2>3. QED
      BY <1>1, <2>1, <2>2
      DEF FInv, Minded, CacheIsMinded, IncompleteIsRepeated, Sound, Readable, NoListing
  <1>4. CASE WriteFile
    <2>1. disk'[k] = found /\ \A j \in Files : j # k => disk'[j] = disk[j]
      BY <1>1, <1>2, <1>4 DEF WriteFile
    <2>2. /\ pc = "write" /\ pc' = "unmark"
          /\ UNCHANGED <<marks, tries, found, todo, identity, access_level>>
      BY <1>4 DEF WriteFile, known, reading
    <2>3. QED
      BY <1>1, <2>1, <2>2
      DEF FInv, Minded, CacheIsMinded, IncompleteIsRepeated, Sound, Readable
  <1>5. CASE FailToStore
    <2>1. /\ pc \in {"open", "write"} /\ pc' = "unmark"
          /\ UNCHANGED <<disk, marks, tries, found, todo, identity, access_level>>
      BY <1>5 DEF FailToStore, known, reading, folder
    <2>2. ~Readable(k) \/ disk[k].counted
      BY <1>1, <2>1
      DEF FInv, Typed, Phases, Storing, Minded, CacheIsMinded, Good, Readable, Plausible, Sound
    <2>3. QED
      BY <1>1, <2>1, <2>2
      DEF FInv, Minded, CacheIsMinded, IncompleteIsRepeated, Sound, Readable
  <1>6. CASE Unmark
    <2>1. /\ marks'[k] = 0 /\ \A j \in Files : j # k => marks'[j] = marks[j]
          /\ \A j \in Files : j # k => tries'[j] = tries[j]
          /\ tries'[k] = IF found.counted THEN 0 ELSE tries[k]
      BY <1>1, <1>2, <1>6 DEF Unmark
    <2>2. /\ pc = "unmark" /\ pc' = "keep"
          /\ UNCHANGED <<disk, found, todo, identity, access_level>>
      BY <1>6 DEF Unmark, known, reading
    <2>3. QED
      BY <1>1, <1>2, <2>1, <2>2
      DEF FInv, Minded, CacheIsMinded, IncompleteIsRepeated, Sound, Readable
  <1>7. QED
    BY <1>3, <1>4, <1>5, <1>6

LEMMA MindedStep == FInv /\ [Next]_vars => Minded'
  <1> SUFFICES ASSUME FInv, [Next]_vars PROVE Minded'
    OBVIOUS
  <1>1. Minded /\ Sound(found) /\ Sound(NoListing)
    BY DEF FInv, Minded, CacheIsMinded, Sound, NoListing
  <1>2. CASE UNCHANGED vars \/ Device \/ \E m \in Menus : RetryDue(m)
    <2>1. UNCHANGED <<folder, pc, found, todo, identity, access_level>>
      BY <1>2
      DEF vars, Device, Answer, LoseFrame, OtherMasterLogsIn, DeviceRestarts, RetryDue, known,
          reading
    <2>2. QED
      BY <1>1, <2>1, MindedElsewhere
  <1>3. CASE LevelStep
    <2>1. UNCHANGED <<folder, found>> /\ pc' \in {"level", "next"}
      BY <1>3 DEF LevelStep, ReadLevel, SetLevel, AskLevel, TakeLevel, GiveUpLevel, reading
    <2>2. QED
      BY <1>1, <2>1, MindedElsewhere
  <1>4. CASE Command \/ EndCommand \/ \E g \in Goals : Pursue(g)
    <2>1. UNCHANGED <<folder, found>> /\ pc' \in {"level", "next", "idle"}
      BY <1>4 DEF Command, Want, EndCommand, Pursue, Skip, AskFirstLevel, AskLevel,
                  FetchIdentity, Pursues, reading
    <2>2. QED
      BY <1>1, <2>1, MindedElsewhere
  <1>5. CASE DiscoverField \/ ProbeFields \/ PutAllFields
    <2>1. UNCHANGED folder /\ Sound(found') /\ pc' \in {"next", "probe"}
      BY <1>1, <1>5
      DEF DiscoverField, ProbeFields, PutAllFields, Discovers, Pursues, Begun, Sound, reading
    <2>2. QED
      BY <1>1, <2>1, MindedElsewhere
  <1>6. ASSUME NEW m \in Menus, LoadMenu(m) \/ MissCount(m) PROVE Minded'
    <2>1. UNCHANGED <<folder, found>> /\ pc' = "next"
      BY <1>6 DEF LoadMenu, MissCount, Discovers, Pursues, reading
    <2>2. QED
      BY <1>1, <2>1, MindedElsewhere
  <1>7. CASE PutMenu \/ Restart
    <2>1. UNCHANGED folder /\ found' = NoListing /\ pc' \in {"next", "idle"}
      BY <1>7 DEF PutMenu, Restart
    <2>2. QED
      BY <1>1, <2>1, MindedElsewhere
  <1>8. QED
    BY <1>2, <1>3, <1>4, <1>5, <1>6, <1>7, CountedMinded, ReadMinded, EndMinded, StoreMinded
    DEF Next, DiscoveryStep, MenuStep

LEMMA FInvStep == FInv /\ [Next]_vars => FInv'
  BY TypedStep, MindedStep DEF FInv

LEMMA InitFInv == Init => FInv
  BY InitTyped, InitMinded DEF FInv

\* A menu that misses fields is cached only after IncompleteLimit readings of it
\* that missed some, with restarts and failures to store at any point.
THEOREM IncompleteIsCachedLate == Spec => []IncompleteIsRepeated
  <1>1. FInv => IncompleteIsRepeated
    BY DEF FInv, Minded
  <1>2. QED
    BY <1>1, InitFInv, FInvStep, PTL DEF Spec

LEMMA GoodFilesStep ==
    ASSUME FInv, [Next]_vars, NEW k \in Files, Good(k)
    PROVE  disk'[k] = disk[k]
  <1>1. CASE OpenFile \/ WriteFile
    <2>1. k # File(Reading)
      BY <1>1
      DEF OpenFile, WriteFile, FInv, Typed, Phases, Storing, Minded, CacheIsMinded, Good
    <2>2. QED
      BY <1>1, <2>1 DEF OpenFile, WriteFile, FInv, Typed, TypeOK
  <1>2. CASE ~(OpenFile \/ WriteFile)
    <2>1. UNCHANGED disk
      <3>1. CASE UNCHANGED vars \/ Device \/ Restart \/ \E m \in Menus : RetryDue(m)
        BY <3>1 DEF vars, Device, Answer, LoseFrame, OtherMasterLogsIn, DeviceRestarts, Restart,
                    RetryDue, folder
      <3>2. CASE LevelStep
        BY <3>2 DEF LevelStep, ReadLevel, SetLevel, AskLevel, TakeLevel, GiveUpLevel, folder
      <3>3. CASE DiscoveryStep /\ ~MenuStep
        BY <3>3 DEF DiscoveryStep, Command, Want, EndCommand, Pursue, Skip, AskFirstLevel,
                    AskLevel, FetchIdentity, DiscoverField, ProbeFields, PutAllFields, folder
      <3>4. CASE MenuStep
        BY <1>2, <3>4
        DEF MenuStep, LoadMenu, CountGroups, MissCount, ReadGroup, PassOverGroup, EndMenu,
            FailToStore, Unmark, PutMenu, folder
      <3>5. QED
        BY <3>1, <3>2, <3>3, <3>4 DEF Next
    <2>2. QED
      BY <2>1
  <1>3. QED
    BY <1>1, <1>2

\* No menu that can be had from the cache is ever written over.
THEOREM CacheIsKept == Spec => GoodFilesStay
  <1>1. FInv /\ [Next]_vars =>
          [\A k \in Files : Readable(k) /\ Plausible(k[3], disk[k]) => disk'[k] = disk[k]]_vars
    BY GoodFilesStep DEF Good
  <1>2. QED
    BY <1>1, InitFInv, FInvStep, PTL DEF Spec, GoodFilesStay

\* What was read of the device is of the firmware and the level it is taken to
\* be of.
Own(origins) == \A o \in origins : access_level # None /\ o = <<firmware, access_level>>

\* A question about the level is answered as things are, and changes nothing.
LevelIsKnown ==
    /\ pc # "level" => asked = <<>>
    /\ slot = None => \E r \in Requests : asked = <<r>> /\ (why # "set" => r = Read)
    /\ slot \in Levels => asked = <<>> /\ slot = level
    /\ access_level # None /\ (pc # "level" \/ why # "set") => access_level = level
    /\ identity # None => identity.firmware = firmware

NothingMixed ==
    /\ \A m \in Menus : Own(menus[m].from)
    /\ Own(all_fields) /\ Own(extra_fields) /\ Own(found.from)
    /\ pc \in {"idle", "next", "level"} => found.from = {}

WellFiled == \A k \in Files : disk[k].from \subseteq {<<k[1], k[2]>>}

Clear == LevelIsKnown /\ NothingMixed /\ WellFiled

\* Nothing has gone wrong, or everything may have.
CInv == Typed /\ (upsets = 0 => Clear)

LEMMA InitClear == Init => Clear
  BY Parameters
  DEF Init, Clear, LevelIsKnown, NothingMixed, WellFiled, Own, NoListing, Files

\* A step that changes nothing of what the device is taken to be.
LEMMA ClearElsewhere ==
    ASSUME Clear, UNCHANGED <<device, bus, access_level, identity, why, disk>>,
           pc = "level" <=> pc' = "level",
           \A m \in Menus : Own(menus'[m].from),
           Own(all_fields'), Own(extra_fields'), Own(found'.from),
           pc' \in {"idle", "next", "level"} => found'.from = {}
    PROVE  Clear'
  <1>1. LevelIsKnown'
    BY DEF Clear, LevelIsKnown, device, bus
  <1>2. NothingMixed'
    BY DEF Clear, NothingMixed, Own, device
  <1>3. QED
    BY <1>1, <1>2 DEF Clear, WellFiled

\* What the device says now, it says as the one it is taken to be.
LEMMA NowIsOwn ==
    ASSUME Clear, pc # "level", access_level # None
    PROVE  Own({Now})
  BY DEF Clear, LevelIsKnown, Own, Now

LEMMA AnswerClear == Typed /\ Clear /\ Answer => Clear'
  <1> SUFFICES ASSUME Typed, Clear, Answer PROVE Clear'
    OBVIOUS
  <1>1. pc = "level" /\ slot = None
    BY DEF Answer, Clear, LevelIsKnown, Typed, TypeOK, Phases
  <1>2. PICK r \in Requests : asked = <<r>> /\ (why # "set" => r = Read)
    BY <1>1 DEF Clear, LevelIsKnown
  <1>3. asked' = <<>> /\ level' \in LevelsAfter(r) /\ slot' = level'
    BY <1>1, <1>2, Parameters DEF Answer, Told
  <1>4. why # "set" => level' = level
    BY <1>2, <1>3, Parameters DEF LevelsAfter
  <1>5. level' \in Levels
    BY DeviceTyped DEF Device, Typed, TypeOK
  <1>6. LevelIsKnown'
    BY <1>1, <1>3, <1>4, <1>5, Parameters DEF Answer, Clear, LevelIsKnown, known
  <1>7. QED
    BY <1>6 DEF Answer, Clear, NothingMixed, WellFiled, Own, known, memory, reading, folder

LEMMA LevelClear == Typed /\ Clear /\ LevelStep /\ upsets' = 0 => Clear'
  <1> SUFFICES ASSUME Typed, Clear, LevelStep, upsets' = 0 PROVE Clear'
    OBVIOUS
  <1>1. ASSUME NEW r \in Requests, NEW reason \in {"read", "set", "first"},
               reason # "set" => r = Read, pc \in {"idle", "next"}, AskLevel(r, reason)
        PROVE  Clear'
    <2>1. asked' = <<r>> /\ slot' = None /\ pc' = "level" /\ why' = reason
      <3>1. asked = <<>>
        BY <1>1 DEF Clear, LevelIsKnown
      <3>2. asked' = Append(<<>>, r)
        BY <1>1, <3>1 DEF AskLevel
      <3>3. QED
        BY <1>1, <3>2 DEF AskLevel
    <2>2. LevelIsKnown'
      BY <1>1, <2>1, Parameters DEF AskLevel, Clear, LevelIsKnown, known, device
    <2>3. QED
      BY <1>1, <2>1, <2>2
      DEF AskLevel, Clear, NothingMixed, WellFiled, Own, known, memory, device, folder, reading
  <1>2. CASE ReadLevel
    BY <1>1, <1>2 DEF ReadLevel, Requests
  <1>3. ASSUME NEW l \in Levels, SetLevel(l) PROVE Clear'
    BY <1>1, <1>3 DEF SetLevel, Requests
  <1>4. CASE TakeLevel
    <2>1. asked = <<>> /\ slot = level /\ access_level' = level /\ found.from = {}
      BY <1>4 DEF TakeLevel, Clear, LevelIsKnown, NothingMixed
    <2>2. LevelIsKnown'
      BY <1>4, <2>1, Parameters DEF TakeLevel, Clear, LevelIsKnown, device
    <2>3. CASE why = "set"
      BY <1>4, <2>1, <2>2, <2>3
      DEF TakeLevel, ForgetSchema, EmptyMemory, Clear, NothingMixed, WellFiled, Own, NoListing,
          device, folder, reading
    <2>4. CASE why # "set"
      <3>1. access_level # None => access_level' = access_level
        BY <2>1, <2>4 DEF Clear, LevelIsKnown
      <3>2. access_level' # None
        BY <1>4, Parameters DEF TakeLevel
      <3>3. UNCHANGED <<firmware, menus, all_fields, extra_fields, found, disk>>
        BY <1>4, <2>4 DEF TakeLevel, device, memory, folder, reading
      <3>4. QED
        BY <1>4, <2>1, <2>2, <3>1, <3>2, <3>3 DEF Clear, NothingMixed, WellFiled, Own
    <2>5. QED
      BY <2>3, <2>4
  <1>5. CASE GiveUpLevel
    BY <1>5 DEF GiveUpLevel, Upset, Typed, TypeOK
  <1>6. QED
    BY <1>2, <1>3, <1>4, <1>5 DEF LevelStep

LEMMA PursuitClear ==
    ASSUME Typed, Clear, NEW g \in Goals, Pursue(g), upsets' = 0
    PROVE  Clear'
  <1>1. CASE Skip(g)
    BY <1>1, ClearElsewhere
    DEF Skip, Clear, NothingMixed, device, bus, known, memory, folder, reading
  <1>2. CASE AskFirstLevel(g)
    <2>1. pc = "next" /\ AskLevel(Read, "first")
      BY <1>2 DEF AskFirstLevel, Pursues
    <2>2. asked' = <<Read>> /\ slot' = None /\ pc' = "level" /\ why' = "first"
      BY <2>1 DEF AskLevel, Clear, LevelIsKnown
    <2>3. LevelIsKnown'
      BY <2>1, <2>2, Parameters DEF AskLevel, Clear, LevelIsKnown, known, device, Requests
    <2>4. QED
      BY <2>1, <2>2, <2>3
      DEF AskLevel, Clear, NothingMixed, WellFiled, Own, known, memory, device, folder, reading
  <1>3. CASE FetchIdentity(g)
    <2>1. identity' = [serial |-> TRUE, firmware |-> firmware]
      BY <1>3 DEF FetchIdentity, Upset, Typed, TypeOK
    <2>2. LevelIsKnown'
      BY <1>3, <2>1 DEF FetchIdentity, Clear, LevelIsKnown, device, bus
    <2>3. QED
      BY <1>3, <2>2
      DEF FetchIdentity, Clear, NothingMixed, WellFiled, Own, memory, device, folder, reading
  <1>4. QED
    BY <1>1, <1>2, <1>3 DEF Pursue

LEMMA FieldsClear == Typed /\ Clear /\ (DiscoverField \/ ProbeFields \/ PutAllFields) => Clear'
  <1> SUFFICES ASSUME Typed, Clear, DiscoverField \/ ProbeFields \/ PutAllFields PROVE Clear'
    OBVIOUS
  <1>1. Own({Now})
    BY NowIsOwn
    DEF DiscoverField, ProbeFields, PutAllFields, Discovers, Pursues, Typed, Phases
  <1>2. CASE DiscoverField
    <2>1. Own(extra_fields')
      BY <1>1, <1>2 DEF DiscoverField, Clear, NothingMixed, Own
    <2>2. QED
      BY <1>2, <2>1, ClearElsewhere
      DEF DiscoverField, Clear, NothingMixed, device, bus, folder, reading
  <1>3. CASE ProbeFields
    <2>1. found'.from = {Now} /\ pc = "next" /\ pc' = "probe"
      BY <1>3 DEF ProbeFields, Begun, Discovers, Pursues
    <2>2. QED
      BY <1>1, <1>3, <2>1, ClearElsewhere
      DEF ProbeFields, Clear, NothingMixed, device, bus, known, memory, folder
  <1>4. CASE PutAllFields
    <2>1. Own(all_fields') /\ found'.from = {} /\ Own(found'.from)
      BY <1>1, <1>4 DEF PutAllFields, Clear, NothingMixed, Own, NoListing
    <2>2. QED
      BY <1>4, <2>1, ClearElsewhere
      DEF PutAllFields, Clear, NothingMixed, device, bus, folder
  <1>5. QED
    BY <1>2, <1>3, <1>4

\* A file of the firmware and the level the device is taken to be of.
LEMMA OwnFile ==
    ASSUME Typed, Clear, NEW m \in Menus, access_level # None, identity # None
    PROVE  /\ File(m) = <<firmware, access_level, m>> /\ File(m) \in Files
           /\ Own(disk[File(m)].from)
  <1>1. identity.firmware = firmware
    BY DEF Clear, LevelIsKnown
  <1>2. File(m) = <<firmware, access_level, m>> /\ File(m) \in Files
    BY <1>1, Parameters DEF File, Files, Typed, TypeOK
  <1>3. QED
    BY <1>2 DEF Clear, WellFiled, Own

LEMMA MenuClear == Typed /\ Clear /\ MenuStep => Clear'
  <1> SUFFICES ASSUME Typed, Clear, MenuStep PROVE Clear'
    OBVIOUS
  <1>1. ASSUME NEW m \in Menus, LoadMenu(m) PROVE Clear'
    <2>1. Own(disk[File(m)].from)
      BY <1>1, OwnFile DEF LoadMenu, Discovers
    <2>2. menus' = [menus EXCEPT ![m] = disk[File(m)]]
      BY <1>1 DEF LoadMenu, Keep
    <2>3. \A n \in Menus : Own(menus'[n].from)
      BY <2>1, <2>2 DEF Typed, TypeOK, Clear, NothingMixed
    <2>4. QED
      BY <1>1, <2>3, ClearElsewhere
      DEF LoadMenu, Clear, NothingMixed, device, bus, folder, reading
  <1>2. ASSUME NEW m \in Menus, CountGroups(m) PROVE Clear'
    <2>1. found'.from = {Now} /\ pc = "next" /\ pc' = "groups" /\ Own({Now})
      BY <1>2, NowIsOwn DEF CountGroups, Begun, Discovers, Pursues
    <2>2. QED
      BY <1>2, <2>1, ClearElsewhere
      DEF CountGroups, Clear, NothingMixed, device, bus, known, memory, folder
  <1>3. ASSUME NEW m \in Menus, MissCount(m) PROVE Clear'
    BY <1>3, ClearElsewhere
    DEF MissCount, Clear, NothingMixed, device, bus, known, memory, folder, reading
  <1>4. CASE ReadGroup
    <2>1. Own({Now}) /\ found'.from = found.from \cup {Now} /\ pc = "groups"
      BY <1>4, NowIsOwn DEF ReadGroup, Typed, Phases, Filling
    <2>2. Own(found'.from)
      BY <2>1 DEF Clear, NothingMixed, Own
    <2>3. QED
      BY <1>4, <2>1, <2>2, ClearElsewhere
      DEF ReadGroup, Clear, NothingMixed, device, bus, known, memory, folder
  <1>5. CASE PassOverGroup
    BY <1>5, ClearElsewhere
    DEF PassOverGroup, Clear, NothingMixed, device, bus, known, memory, folder
  <1>6. CASE EndMenu \/ FailToStore \/ Unmark
    <2>1. /\ UNCHANGED <<device, bus, known, why, disk, found>>
          /\ pc \in {"groups", "open", "write", "unmark"}
          /\ pc' \in {"open", "keep", "unmark"}
      BY <1>6 DEF EndMenu, FailToStore, Unmark, reading, folder
    <2>2. QED
      BY <2>1, ClearElsewhere DEF Clear, NothingMixed, known, memory
  <1>7. CASE OpenFile \/ WriteFile
    <2>1. /\ UNCHANGED <<device, bus, known, why, found>>
          /\ pc \in {"open", "write"} /\ pc' \in {"write", "unmark"}
      BY <1>7 DEF OpenFile, WriteFile, reading
    <2>2. /\ File(Reading) = <<firmware, access_level, Reading>> /\ File(Reading) \in Files
      BY <2>1, OwnFile DEF Typed, Phases, Filling
    <2>3. \/ disk' = [disk EXCEPT ![File(Reading)] = NoListing]
          \/ disk' = [disk EXCEPT ![File(Reading)] = found]
      BY <1>7 DEF OpenFile, WriteFile
    <2>4. found.from \subseteq {<<firmware, access_level>>}
      BY DEF Clear, NothingMixed, Own
    <2>5. WellFiled'
      <3>1. disk'[File(Reading)].from \subseteq {<<firmware, access_level>>}
        BY <2>2, <2>3, <2>4 DEF Typed, TypeOK, NoListing
      <3>2. ASSUME NEW k \in Files PROVE disk'[k].from \subseteq {<<k[1], k[2]>>}
        <4>1. CASE k = File(Reading)
          BY <2>2, <3>1, <4>1
        <4>2. CASE k # File(Reading)
          BY <2>3, <4>2 DEF Typed, TypeOK, Clear, WellFiled
        <4>3. QED
          BY <4>1, <4>2
      <3>3. QED
        BY <3>2 DEF WellFiled
    <2>6. LevelIsKnown' /\ NothingMixed'
      BY <2>1 DEF Clear, LevelIsKnown, NothingMixed, Own, device, bus, known, memory
    <2>7. QED
      BY <2>5, <2>6 DEF Clear
  <1>8. CASE PutMenu
    <2>1. menus' = [menus EXCEPT ![Reading] = found] /\ found' = NoListing
      BY <1>8 DEF PutMenu, Keep
    <2>2. \A n \in Menus : Own(menus'[n].from)
      BY <2>1 DEF Typed, TypeOK, Clear, NothingMixed
    <2>3. QED
      BY <1>8, <2>1, <2>2, ClearElsewhere
      DEF PutMenu, Clear, NothingMixed, Own, NoListing, device, bus, folder
  <1>9. QED
    BY <1>1, <1>2, <1>3, <1>4, <1>5, <1>6, <1>7, <1>8 DEF MenuStep

\* Once something has gone wrong, it has.
LEMMA UpsetStays == TypeOK /\ [Next]_vars /\ upsets' = 0 => upsets = 0
  <1> SUFFICES ASSUME TypeOK, [Next]_vars, upsets' = 0, upsets # 0 PROVE FALSE
    OBVIOUS
  <1>1. ~Upset
    BY DEF Upset, TypeOK
  <1>2. UNCHANGED upsets
    <2>1. CASE UNCHANGED vars \/ Device \/ Restart \/ \E m \in Menus : RetryDue(m)
      BY <1>1, <2>1 DEF vars, Device, Answer, LoseFrame, OtherMasterLogsIn, DeviceRestarts,
                        Restart, RetryDue
    <2>2. CASE LevelStep
      BY <1>1, <2>2 DEF LevelStep, ReadLevel, SetLevel, AskLevel, TakeLevel, GiveUpLevel
    <2>3. CASE DiscoveryStep /\ ~MenuStep
      BY <1>1, <2>3 DEF DiscoveryStep, Command, Want, EndCommand, Pursue, Skip, AskFirstLevel,
                        AskLevel, FetchIdentity, DiscoverField, ProbeFields, PutAllFields
    <2>4. CASE MenuStep
      BY <2>4
      DEF MenuStep, LoadMenu, CountGroups, MissCount, ReadGroup, PassOverGroup, EndMenu,
          OpenFile, WriteFile, FailToStore, Unmark, PutMenu
    <2>5. QED
      BY <2>1, <2>2, <2>3, <2>4 DEF Next
  <1>3. QED
    BY <1>2

LEMMA ClearStep == Typed /\ Clear /\ [Next]_vars /\ upsets' = 0 => Clear'
  <1> SUFFICES ASSUME Typed, Clear, [Next]_vars, upsets' = 0 PROVE Clear'
    OBVIOUS
  <1>1. CASE Device
    <2>1. Answer
      BY <1>1 DEF Device, LoseFrame, OtherMasterLogsIn, DeviceRestarts, Upset, Typed, TypeOK
    <2>2. QED
      BY <2>1, AnswerClear
  <1>2. CASE UNCHANGED vars \/ Command \/ EndCommand \/ \E m \in Menus : RetryDue(m)
    <2>1. /\ UNCHANGED <<device, bus, known, why, disk, found>>
          /\ pc' = pc \/ {pc, pc'} \subseteq {"idle", "next"}
      BY <1>2 DEF vars, Command, Want, EndCommand, RetryDue, folder, reading
    <2>2. QED
      BY <2>1, ClearElsewhere DEF Clear, NothingMixed, known, memory
  <1>3. CASE Restart
    BY <1>3, Parameters
    DEF Restart, EmptyMemory, Clear, LevelIsKnown, NothingMixed, WellFiled, Own, NoListing,
        folder
  <1>4. QED
    BY <1>1, <1>2, <1>3, LevelClear, PursuitClear, FieldsClear, MenuClear
    DEF Next, DiscoveryStep

LEMMA CInvInductive == (Init => CInv) /\ (CInv /\ [Next]_vars => CInv')
  <1>1. Init => CInv
    BY InitTyped, InitClear DEF CInv
  <1>2. CInv /\ [Next]_vars => CInv'
    BY TypedStep, UpsetStays, ClearStep DEF CInv, Typed
  <1>3. QED
    BY <1>1, <1>2

\* As long as nothing goes wrong, a cache file is of one firmware and one level,
\* those in its name, however often the level is changed and the engine stopped.
THEOREM CacheIsNotMixed == Spec => []FiledUnderItsOwn
  <1>1. CInv => FiledUnderItsOwn
    BY DEF CInv, Clear, WellFiled, FiledUnderItsOwn
  <1>2. QED
    BY <1>1, CInvInductive, PTL DEF Spec

\* As long as nothing goes wrong, what is in memory is what the device would say.
THEOREM MemoryIsCurrent == Spec => []ShownIsCurrent
  <1>1. CInv => ShownIsCurrent
    BY DEF CInv, Clear, LevelIsKnown, NothingMixed, Own, Now, ShownIsCurrent
  <1>2. QED
    BY <1>1, CInvInductive, PTL DEF Spec

-----------------------------------------------------------------------------
(* Reading a menu.                                                         *)

\* Whatever leaves the reading alone, and neither begins nor ends one.
LEMMA ReadingStays ==
    ASSUME UNCHANGED reading, pc = "groups" <=> pc' = "groups",
           pc = "probe" <=> pc' = "probe"
    PROVE  UNCHANGED Menu!menu
  BY DEF reading, Menu!menu

LEMMA MenuReadingStep == Typed /\ [Next]_vars => [Menu!Next]_(Menu!menu)
  <1> SUFFICES ASSUME Typed, [Next]_vars, ~UNCHANGED Menu!menu PROVE Menu!Next
    OBVIOUS
  <1> USE DEF Menu!Next, Menu!Begin, Menu!ListGroup, Menu!LeaveOutGroup, Menu!End,
              Menu!Abandon, Menu!Forget, Menu!Init, Menu!menu
  <1>1. CASE \E m \in Menus : CountGroups(m)
    BY <1>1 DEF CountGroups, Discovers, Pursues, Begun
  <1>2. CASE ReadGroup
    <2>1. found.counted \in BOOLEAN
      BY DEF Typed, TypeOK, Listing
    <2>2. PICK counted \in BOOLEAN :
              found' = [from |-> found.from \cup {Now}, some |-> TRUE,
                        counted |-> found.counted /\ counted]
      BY <1>2 DEF ReadGroup
    <2>3. found'.some /\ (found'.counted => found.counted) /\ found'.counted \in BOOLEAN
      BY <2>1, <2>2
    <2>4. QED
      BY <1>2, <2>3 DEF ReadGroup
  <1>3. CASE PassOverGroup
    BY <1>3 DEF PassOverGroup
  <1>4. CASE EndMenu
    BY <1>4 DEF EndMenu, reading
  <1>5. CASE PutMenu \/ ProbeFields \/ PutAllFields \/ Restart
    <2>1. ~found'.some /\ (found'.counted => pc' = "probe") /\ pc' # "groups"
      BY <1>5 DEF PutMenu, ProbeFields, PutAllFields, Restart, NoListing, Begun
    <2>2. Menu!Abandon
      BY <2>1
    <2>3. QED
      BY <2>2
  <1>6. CASE \E m \in Menus : LoadMenu(m) \/ MissCount(m) \/ RetryDue(m)
    BY <1>6, ReadingStays DEF LoadMenu, MissCount, RetryDue, reading
  <1>7. CASE OpenFile \/ WriteFile \/ FailToStore \/ Unmark
    BY <1>7, ReadingStays DEF OpenFile, WriteFile, FailToStore, Unmark, reading
  <1>8. CASE Device
    BY <1>8, ReadingStays DEF Device, Answer, LoseFrame, OtherMasterLogsIn, DeviceRestarts, reading
  <1>9. CASE LevelStep
    BY <1>9, ReadingStays
    DEF LevelStep, ReadLevel, SetLevel, AskLevel, TakeLevel, GiveUpLevel, reading
  <1>10. CASE \E g \in Goals : Pursue(g)
    BY <1>10, ReadingStays
    DEF Pursue, Skip, AskFirstLevel, FetchIdentity, Pursues, AskLevel, reading
  <1>11. CASE Command \/ EndCommand \/ DiscoverField
    BY <1>11, ReadingStays DEF Command, Want, EndCommand, DiscoverField, reading
  <1>12. CASE UNCHANGED vars
    BY <1>12 DEF vars, reading
  <1>13. QED
    BY <1>1, <1>2, <1>3, <1>4, <1>5, <1>6, <1>7, <1>8, <1>9, <1>10, <1>11, <1>12
    DEF Next, DiscoveryStep, MenuStep

\* What the handlers do with a menu, its file and the level around it, they read
\* it as MenuReading says: a menu is whole only if no listed group lacks its
\* count, and what stops the engine leaves no menu half read behind.
THEOREM ImplementsMenuReading == Spec => ReadsMenus
  <1>1. Init => Menu!Init
    BY DEF Init, NoListing, Menu!Init
  <1>2. Typed /\ [Next]_vars => [Menu!Next]_(Menu!menu)
    BY MenuReadingStep
  <1>3. QED
    BY <1>1, <1>2, InitTyped, TypedStep, PTL DEF Spec, ReadsMenus, Menu!Spec
=============================================================================
