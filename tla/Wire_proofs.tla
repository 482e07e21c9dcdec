----------------------------- MODULE Wire_proofs -----------------------------
(***************************************************************************)
(* Proofs about what the wire carries and who hears it: Links, for any      *)
(* clients, any room in their sockets, any retry interval and any bounds;   *)
(* and Codec, for any addresses, indices, string ids and numbers that fit.  *)
(***************************************************************************)
EXTENDS Links, Codec, SequenceTheorems, TLAPS

-----------------------------------------------------------------------------
(* The relay: types.                                                       *)

Stages == {"apart", "accepted", "refused", "alone", "joined", "left"}
Connection == [stage : Stages, listed : BOOLEAN, socket : Seq(Nat), got : Seq(Nat),
               link : BOOLEAN]
LinksTypeOK == frames \in Nat /\ client \in [Clients -> Connection]

\* The steps of the link and of the port do not concern the relay.
LEMMA WireLeavesRelay ==
    ASSUME LinkSteps \/ PortChanges \/ LinkClock \/ UNCHANGED linkVars
    PROVE  frames' = frames /\ client' = client
  BY DEF LinkSteps, LinkLost, EmptySlot, TellLost, Reopen, FillSlot, TellBack, PortChanges,
         LinkClock, linkVars, relayVars

LEMMA StepType == LinksTypeOK /\ [LinksNext]_linkVars => LinksTypeOK'
  <1> SUFFICES ASSUME LinksTypeOK, [LinksNext]_linkVars PROVE LinksTypeOK'
    OBVIOUS
  <1>1. CASE LinkSteps \/ PortChanges \/ LinkClock \/ UNCHANGED linkVars
    BY <1>1, WireLeavesRelay DEF LinksTypeOK
  <1>2. CASE RelayGoes
    BY <1>2 DEF RelayGoes, LinksTypeOK
  <1>3. CASE WireBrings
    <2>1. frames' \in Nat
      BY <1>3 DEF WireBrings, LinksTypeOK
    <2>2. ASSUME NEW c \in Clients PROVE Hear(c, frames') \in Connection
      <3>1. client[c] \in Connection /\ Append(client[c].socket, frames') \in Seq(Nat)
        BY <2>1 DEF LinksTypeOK, Connection
      <3>2. QED
        BY <3>1 DEF Hear, Connection
    <2>3. QED
      BY <1>3, <2>1, <2>2 DEF WireBrings, LinksTypeOK
  <1>4. ASSUME NEW c \in Clients,
               Find(c) \/ Joins(c) \/ ClientReads(c) \/ ClientLosesRelay(c) \/ ClientLeaves(c)
        PROVE  LinksTypeOK'
    <2>0. client[c] \in Connection
      BY DEF LinksTypeOK
    <2>1. CASE Find(c)
      <3>1. PICK stage \in Stages : client' = [client EXCEPT ![c].stage = stage]
        BY <2>1 DEF Find, Stages
      <3>2. client' \in [Clients -> Connection]
        BY <3>1, <2>0 DEF LinksTypeOK, Connection
      <3>3. QED
        BY <2>1, <3>2 DEF Find, LinksTypeOK
    <2>2. CASE Joins(c)
      BY <2>2, <2>0 DEF Joins, LinksTypeOK, Connection, Stages
    <2>3. CASE ClientReads(c)
      <3>1. /\ Tail(client[c].socket) \in Seq(Nat)
            /\ Append(client[c].got, Head(client[c].socket)) \in Seq(Nat)
        BY <2>3, <2>0, HeadTailProperties DEF ClientReads, Connection
      <3>2. [client[c] EXCEPT !.socket = Tail(@), !.got = Append(@, Head(client[c].socket))]
              \in Connection
        BY <2>0, <3>1 DEF Connection
      <3>3. client' \in [Clients -> Connection]
        BY <2>3, <3>2 DEF ClientReads, LinksTypeOK
      <3>4. QED
        BY <2>3, <3>3 DEF ClientReads, LinksTypeOK
    <2>4. CASE ClientLosesRelay(c)
      BY <2>4, <2>0 DEF ClientLosesRelay, LinksTypeOK, Connection, Stages
    <2>5. CASE ClientLeaves(c)
      <3>0. "left" \in Stages /\ <<>> \in Seq(Nat)
        BY DEF Stages
      <3>1. [client[c] EXCEPT !.stage = "left", !.socket = <<>>, !.link = FALSE] \in Connection
        BY <2>0, <3>0 DEF Connection
      <3>2. client' \in [Clients -> Connection]
        BY <2>5, <3>1 DEF ClientLeaves, LinksTypeOK
      <3>3. QED
        BY <2>5, <3>2 DEF ClientLeaves, LinksTypeOK
    <2>6. QED
      BY <1>4, <2>1, <2>2, <2>3, <2>4, <2>5
  <1>5. QED
    BY <1>1, <1>2, <1>3, <1>4 DEF LinksNext

-----------------------------------------------------------------------------
(* What a client has heard: what it has read, and what waits in its socket. *)

Heard(c) == client[c].got \o client[c].socket

IsRun(s) == \A i \in 1..(Len(s) - 1) : s[i + 1] = s[i] + 1

\* The strengthening.  A client that is on the list and has not left has heard the
\* wire up to its latest frame, so that the next one continues its run; and one
\* that has not joined yet has heard nothing.
UpToDate(c) ==
  /\ client[c].stage \notin {"joined", "left"} =>
       Heard(c) = <<>> /\ ~client[c].listed
  /\ client[c].listed /\ client[c].stage # "left" /\ Heard(c) # <<>> =>
       Heard(c)[Len(Heard(c))] = frames

RelayInv == \A c \in Clients : IsRun(Heard(c)) /\ UpToDate(c)

LEMMA HeardType ==
    ASSUME LinksTypeOK, NEW c \in Clients
    PROVE  /\ client[c] \in Connection /\ Heard(c) \in Seq(Nat)
           /\ client[c].got \in Seq(Nat) /\ client[c].socket \in Seq(Nat)
  <1>1. client[c] \in Connection
    BY DEF LinksTypeOK
  <1>2. QED
    BY <1>1, ConcatProperties DEF Connection, Heard

\* A run with the number after its last one at its end.
LEMMA LongerRun ==
    ASSUME NEW s \in Seq(Nat), IsRun(s), NEW n \in Nat, s # <<>> => n = s[Len(s)] + 1
    PROVE  IsRun(Append(s, n))
  BY DEF IsRun

\* A run cut short.
LEMMA ShorterRun ==
    ASSUME NEW s \in Seq(Nat), NEW t \in Seq(Nat), IsRun(s \o t)
    PROVE  IsRun(s)
  <1>1. \A i \in 1..Len(s) : (s \o t)[i] = s[i]
    BY ConcatProperties
  <1>2. Len(s \o t) >= Len(s)
    BY ConcatProperties
  <1>3. Len(s) \in Nat /\ Len(s \o t) \in Nat
    BY ConcatProperties
  <1>4. QED
    <2> SUFFICES ASSUME NEW i \in 1..(Len(s) - 1) PROVE s[i + 1] = s[i] + 1
      BY DEF IsRun
    <2>1. i \in 1..(Len(s \o t) - 1) /\ i \in 1..Len(s) /\ i + 1 \in 1..Len(s)
      BY <1>2, <1>3
    <2>2. QED
      BY <1>1, <2>1 DEF IsRun

\* Reading moves a frame from the socket, and changes nothing of what was heard.
LEMMA ReadingMoves ==
    ASSUME NEW s \in Seq(Nat), NEW t \in Seq(Nat), t # <<>>
    PROVE  Append(s, Head(t)) \o Tail(t) = s \o t
  <1>1. Head(t) \in Nat /\ Tail(t) \in Seq(Nat) /\ <<Head(t)>> \in Seq(Nat)
    BY HeadTailProperties
  <1>2. Append(s, Head(t)) = s \o <<Head(t)>>
    BY <1>1, AppendIsConcat
  <1>3. <<Head(t)>> \o Tail(t) = t
    OBVIOUS
  <1>4. (s \o <<Head(t)>>) \o Tail(t) = s \o (<<Head(t)>> \o Tail(t))
    BY <1>1, ConcatAssociative
  <1>5. QED
    BY <1>2, <1>3, <1>4

LEMMA HearingAppends ==
    ASSUME NEW s \in Seq(Nat), NEW t \in Seq(Nat), NEW n \in Nat
    PROVE  s \o Append(t, n) = Append(s \o t, n)
  <1>1. <<n>> \in Seq(Nat) /\ s \o t \in Seq(Nat)
    BY ConcatProperties
  <1>2. Append(t, n) = t \o <<n>> /\ Append(s \o t, n) = (s \o t) \o <<n>>
    BY <1>1, AppendIsConcat
  <1>3. QED
    BY <1>1, <1>2, ConcatAssociative
-----------------------------------------------------------------------------
(* The steps.                                                              *)

\* A step that leaves a client as it is, and no more frames on the wire.
LEMMA SameClient ==
    ASSUME NEW c \in Clients, IsRun(Heard(c)), UpToDate(c), client'[c] = client[c],
           frames' = frames
    PROVE  IsRun(Heard(c))' /\ UpToDate(c)'
  BY DEF Heard, UpToDate, IsRun

\* One frame off the wire: a listed client goes on with its run or leaves the list.
LEMMA WireKeepsRuns ==
    ASSUME LinksTypeOK, RelayInv, WireBrings, NEW c \in Clients
    PROVE  IsRun(Heard(c))' /\ UpToDate(c)'
  <1> DEFINE old == Heard(c)
  <1>1. client'[c] = Hear(c, frames + 1) /\ frames' = frames + 1 /\ frames \in Nat
    BY DEF WireBrings, LinksTypeOK
  <1>2. /\ client[c] \in Connection /\ old \in Seq(Nat)
        /\ client[c].got \in Seq(Nat) /\ client[c].socket \in Seq(Nat)
    BY HeardType
  <1>3. IsRun(old) /\ UpToDate(c)
    BY DEF RelayInv
  <1>4. CASE ~client[c].listed
    <2>1. client'[c] = client[c]
      BY <1>1, <1>4 DEF Hear
    <2>2. Heard(c)' = old
      BY <2>1 DEF Heard
    <2>3. QED
      BY <1>3, <1>4, <2>1, <2>2 DEF UpToDate, IsRun
  <1>5. CASE client[c].listed /\ Writable(c)
    <2>1. client'[c] = [client[c] EXCEPT !.socket = Append(@, frames + 1)]
      BY <1>1, <1>5 DEF Hear
    <2>2. /\ client'[c].got = client[c].got /\ client'[c].stage = client[c].stage
          /\ client'[c].socket = Append(client[c].socket, frames + 1)
          /\ client'[c].listed
      BY <2>1, <1>2, <1>5 DEF Connection
    <2>3. Heard(c)' = Append(old, frames + 1)
      <3>1. Heard(c)' = client[c].got \o Append(client[c].socket, frames + 1)
        BY <2>2 DEF Heard
      <3>2. client[c].got \o Append(client[c].socket, frames + 1)
              = Append(client[c].got \o client[c].socket, frames + 1)
        <4>1. frames + 1 \in Nat
          BY <1>1
        <4>2. QED
          BY <4>1, <1>2, HearingAppends
      <3>3. QED
        BY <3>1, <3>2 DEF Heard
    <2>4. old # <<>> => old[Len(old)] = frames
      BY <1>3, <1>5 DEF UpToDate, Writable
    <2>5. IsRun(Append(old, frames + 1))
      BY <2>4, <1>1, <1>2, <1>3, LongerRun
    <2>6. Append(old, frames + 1)[Len(Append(old, frames + 1))] = frames + 1
      BY <1>1, <1>2
    <2>7. client[c].stage \in {"joined", "left"}
      BY <1>3, <1>5 DEF UpToDate
    <2>8. QED
      BY <1>1, <2>2, <2>3, <2>5, <2>6, <2>7 DEF UpToDate, IsRun
  <1>6. CASE client[c].listed /\ ~Writable(c)
    <2>1. client'[c] = [client[c] EXCEPT !.listed = FALSE]
      BY <1>1, <1>6 DEF Hear
    <2>2. /\ client'[c].got = client[c].got /\ client'[c].stage = client[c].stage
          /\ client'[c].socket = client[c].socket /\ ~client'[c].listed
      BY <2>1, <1>2 DEF Connection
    <2>3. Heard(c)' = old
      BY <2>2 DEF Heard
    <2>4. QED
      BY <1>3, <2>2, <2>3 DEF UpToDate, IsRun
  <1>7. QED
    BY <1>4, <1>5, <1>6

\* What a client does itself.
LEMMA ClientKeepsRun ==
    ASSUME LinksTypeOK, RelayInv, NEW c \in Clients,
           Find(c) \/ Joins(c) \/ ClientReads(c) \/ ClientLosesRelay(c) \/ ClientLeaves(c)
    PROVE  IsRun(Heard(c))' /\ UpToDate(c)'
  <1>1. /\ client[c] \in Connection /\ Heard(c) \in Seq(Nat) /\ client \in [Clients -> Connection]
        /\ client[c].got \in Seq(Nat) /\ client[c].socket \in Seq(Nat)
    BY HeardType DEF LinksTypeOK
  <1>2. IsRun(Heard(c)) /\ UpToDate(c)
    BY DEF RelayInv
  <1>3. CASE Find(c)
    <2>1. PICK stage \in Stages \ {"joined", "left"} : client' = [client EXCEPT ![c].stage = stage]
      BY <1>3 DEF Find, Stages
    <2>2. client[c].stage = "apart" /\ ~client[c].listed
      BY <1>3 DEF Find, Apart
    <2>3. /\ client'[c].got = client[c].got /\ client'[c].stage = stage
          /\ client'[c].socket = client[c].socket /\ client'[c].listed = client[c].listed
      BY <2>1, <1>1 DEF Connection
    <2>4. Heard(c)' = Heard(c)
      BY <2>3 DEF Heard
    <2>5. QED
      BY <1>2, <2>1, <2>2, <2>3, <2>4 DEF UpToDate, IsRun
  <1>4. CASE Joins(c)
    <2>1. client[c].stage = "accepted"
      BY <1>4 DEF Joins
    <2>2. /\ client'[c].got = client[c].got /\ client'[c].stage = "joined"
          /\ client'[c].socket = client[c].socket
      BY <1>4, <1>1 DEF Joins, Connection
    <2>3. Heard(c)' = Heard(c) /\ Heard(c) = <<>>
      BY <2>1, <2>2, <1>2 DEF Heard, UpToDate
    <2>4. QED
      BY <2>2, <2>3 DEF UpToDate, IsRun
  <1>5. CASE ClientReads(c)
    <2>1. /\ client'[c].got = Append(client[c].got, Head(client[c].socket))
          /\ client'[c].socket = Tail(client[c].socket)
          /\ client'[c].stage = client[c].stage /\ client'[c].listed = client[c].listed
      BY <1>5, <1>1 DEF ClientReads, Connection
    <2>2. Heard(c)' = Heard(c)
      BY <2>1, <1>1, <1>5, ReadingMoves DEF Heard, ClientReads
    <2>3. frames' = frames
      BY <1>5 DEF ClientReads
    <2>4. QED
      BY <1>2, <2>1, <2>2, <2>3 DEF UpToDate, IsRun
  <1>6. CASE ClientLosesRelay(c)
    <2>1. /\ client'[c].got = client[c].got /\ client'[c].stage = client[c].stage
          /\ client'[c].socket = client[c].socket /\ client'[c].listed = client[c].listed
      BY <1>6, <1>1 DEF ClientLosesRelay, Connection
    <2>2. Heard(c)' = Heard(c) /\ frames' = frames
      BY <2>1, <1>6 DEF Heard, ClientLosesRelay
    <2>3. QED
      BY <1>2, <2>1, <2>2 DEF UpToDate, IsRun
  <1>7. CASE ClientLeaves(c)
    <2>1. client'[c].got = client[c].got /\ client'[c].socket = <<>> /\ client'[c].stage = "left"
      BY <1>7, <1>1 DEF ClientLeaves, Connection
    <2>2. Heard(c)' = client[c].got
      BY <2>1, <1>1, ConcatEmptySeq DEF Heard
    <2>3. IsRun(client[c].got)
      BY <1>1, <1>2, ShorterRun DEF Heard
    <2>4. QED
      BY <2>1, <2>2, <2>3 DEF UpToDate, IsRun
  <1>8. QED
    BY <1>3, <1>4, <1>5, <1>6, <1>7

LEMMA StepKeepsRuns == LinksTypeOK /\ RelayInv /\ [LinksNext]_linkVars => RelayInv'
  <1> SUFFICES ASSUME LinksTypeOK, RelayInv, [LinksNext]_linkVars, NEW c \in Clients
               PROVE  IsRun(Heard(c))' /\ UpToDate(c)'
    BY DEF RelayInv
  <1>0. IsRun(Heard(c)) /\ UpToDate(c)
    BY DEF RelayInv
  <1>1. CASE LinkSteps \/ PortChanges \/ LinkClock \/ UNCHANGED linkVars
    BY <1>0, <1>1, WireLeavesRelay, SameClient
  <1>2. CASE RelayGoes
    BY <1>0, <1>2, SameClient DEF RelayGoes
  <1>3. CASE WireBrings
    BY <1>3, WireKeepsRuns
  <1>4. ASSUME NEW d \in Clients,
               Find(d) \/ Joins(d) \/ ClientReads(d) \/ ClientLosesRelay(d) \/ ClientLeaves(d)
        PROVE  IsRun(Heard(c))' /\ UpToDate(c)'
    <2>1. CASE d = c
      BY <1>4, <2>1, ClientKeepsRun
    <2>2. CASE d # c
      <3>1. client'[c] = client[c] /\ frames' = frames
        BY <1>4, <2>2 DEF Find, Joins, ClientReads, ClientLosesRelay, ClientLeaves, LinksTypeOK
      <3>2. QED
        BY <1>0, <3>1, SameClient
    <2>3. QED
      BY <2>1, <2>2
  <1>5. QED
    BY <1>1, <1>2, <1>3, <1>4 DEF LinksNext

-----------------------------------------------------------------------------

LEMMA InitialRuns == LinksInit => LinksTypeOK /\ RelayInv
  <1> SUFFICES ASSUME LinksInit PROVE LinksTypeOK /\ RelayInv
    OBVIOUS
  <1>1. Apart \in Connection
    BY DEF Apart, Connection, Stages
  <1>2. LinksTypeOK
    BY <1>1 DEF LinksInit, LinksTypeOK
  <1>3. ASSUME NEW c \in Clients PROVE Heard(c) = <<>> /\ client[c].stage = "apart" /\ ~client[c].listed
    BY DEF LinksInit, Apart, Heard
  <1>4. RelayInv
    <2>1. IsRun(<<>>)
      BY DEF IsRun
    <2>2. QED
      BY <1>3, <2>1 DEF RelayInv, UpToDate
  <1>5. QED
    BY <1>2, <1>4

\* However the wire, the relay and its clients interleave, a client of the
\* relay hears a run of the wire's frames without a hole, for any number of
\* clients and any room in their sockets (relay.rs share, pump).
THEOREM RelayedUnbroken == LinksSpec => []RelayRunsUnbroken
  <1>1. LinksTypeOK /\ RelayInv => RelayRunsUnbroken
    BY DEF RelayInv, RelayRunsUnbroken, IsRun, Heard
  <1>2. QED
    BY InitialRuns, StepType, StepKeepsRuns, <1>1, PTL DEF LinksSpec

\* A client on the list that has not hung up has heard the wire up to its latest frame:
\* what it lacks at the end of its run it lacks because it was too slow, and
\* it was then taken off the list.
THEOREM ListedIsUpToDate ==
    LinksSpec =>
      [](\A c \in Clients :
           client[c].listed /\ client[c].stage # "left" /\ Heard(c) # <<>>
             => Heard(c)[Len(Heard(c))] = frames)
  <1>1. RelayInv =>
          \A c \in Clients :
            client[c].listed /\ client[c].stage # "left" /\ Heard(c) # <<>>
              => Heard(c)[Len(Heard(c))] = frames
    BY DEF RelayInv, UpToDate
  <1>2. QED
    BY InitialRuns, StepType, StepKeepsRuns, <1>1, PTL DEF LinksSpec

-----------------------------------------------------------------------------
(* The codec: numbers, bytes and the report.                               *)

\* The table of powers of two: their complements multiply to 2
\* 23.
LEMMA TwoTos == \A e \in 0..23 : /\ TwoTo[e] \in Nat \ {0}
                                 /\ TwoTo[e] * TwoTo[23 - e] = 8388608
  BY SMT DEF TwoTo

\* Multiplying and dividing by the same number gives the number back.
LEMMA Quotient == \A a \in Nat, b \in Nat \ {0} : (a * b) \div b = a
  BY SMT

\* The shifts of the four bytes.
LEMMA Shifts == Shift[1] = 1 /\ Shift[2] = 256 /\ Shift[3] = 65536 /\ Shift[4] = 16777216
  BY SMT DEF Shift

\* A number of 31 bits is put together again from its four bytes.
LEMMA Recompose ==
  ASSUME NEW n \in Nat, n < 2147483648
  PROVE  (n % 256) + 256 * ((n \div 256) % 256) + 65536 * ((n \div 65536) % 256)
           + 16777216 * ((n \div 16777216) % 256) = n
  <1>1. PICK a \in Nat, b \in Nat : n = 256 * a + b /\ b < 256 
    <2> WITNESS n \div 256 \in Nat, n % 256 \in Nat
    <2> QED BY SMT
  <1>2. PICK c \in Nat, d \in Nat : a = 256 * c + d /\ d < 256
    <2> WITNESS a \div 256 \in Nat, a % 256 \in Nat
    <2> QED BY SMT
  <1>3. PICK e \in Nat, f \in Nat : c = 256 * e + f /\ f < 256 
    <2> WITNESS c \div 256 \in Nat, c % 256 \in Nat
    <2> QED BY SMT
  <1>4. n \div 256 = a /\ n % 256 = b
    BY <1>1, SMT
  <1>5. n \div 65536 = c /\ a % 256 = d
    BY <1>1, <1>2, SMT
  <1>6. n \div 16777216 = e /\ c % 256 = f
    BY <1>1, <1>2, <1>3, SMT
  <1>7. e % 256 = e
    BY <1>1, <1>2, <1>3, SMT
  <1>8. QED
    BY <1>1, <1>2, <1>3, <1>4, <1>5, <1>6, <1>7, SMT

\* The same, by Byte.
LEMMA Bytes ==
  ASSUME NEW n \in Nat, n < 2147483648
  PROVE /\ Byte(n, 0) \in Nat /\ Byte(n, 0) < 256
        /\ Byte(n, 1) \in Nat /\ Byte(n, 1) < 256
        /\ Byte(n, 2) \in Nat /\ Byte(n, 2) < 256
        /\ Byte(n, 3) \in Nat /\ Byte(n, 3) < 256
        /\ Byte(n, 0) + 256 * Byte(n, 1) + 65536 * Byte(n, 2) + 16777216 * Byte(n, 3) = n
  <1>1. /\ Byte(n, 0) = n % 256 /\ Byte(n, 1) = (n \div 256) % 256
        /\ Byte(n, 2) = (n \div 65536) % 256 /\ Byte(n, 3) = (n \div 16777216) % 256
    <2>1. n \div 1 = n
      BY SMT
    <2>2. QED
      BY Shifts, <2>1, SMT DEF Byte
  <1>2. ASSUME NEW m \in Nat PROVE m % 256 \in Nat /\ m % 256 < 256
    BY SMT
  <1>3. n \div 256 \in Nat /\ n \div 65536 \in Nat /\ n \div 16777216 \in Nat
    BY SMT
  <1> QED BY <1>1, <1>2, <1>3, Recompose, SMT

\* Each number of 24 bits lies between two powers of two.
LEMMA OctaveOf ==
  ASSUME NEW n \in Nat \ {0}, n < TwoTo24
  PROVE  /\ Octave(n) \in 0..23
         /\ TwoTo[Octave(n)] <= n /\ n < 2 * TwoTo[Octave(n)]
  <1>1. \E e \in 0..23 : TwoTo[e] <= n /\ n < 2 * TwoTo[e]
    BY SMT DEF TwoTo, TwoTo24
  <1>2. QED
    BY <1>1, SMT DEF Octave

\* The exponent and the mantissa of an f32 of a whole number.
LEMMA BitsOf ==
  ASSUME NEW n \in Nat, n < TwoTo24
  PROVE  /\ F32Bits(n) \in Nat /\ F32Bits(n) < 2147483648
         /\ n # 0 => /\ F32Bits(n) \div 8388608 = 127 + Octave(n)
                     /\ (F32Bits(n) % 8388608) \div TwoTo[23 - Octave(n)] = n - TwoTo[Octave(n)]
  <1>1. CASE n = 0
    BY <1>1, SMT DEF F32Bits
  <1>2. CASE n # 0
    <2> DEFINE e == Octave(n)
               p == TwoTo[e]
               s == TwoTo[23 - e]
               m == (n - p) * s
    <2>1. /\ e \in 0..23 /\ p <= n /\ n < 2 * p /\ p \in Nat /\ s \in Nat \ {0}
          /\ p * s = 8388608
      BY <1>2, OctaveOf, TwoTos, SMT
    <2>2. F32Bits(n) = (127 + e) * 8388608 + m
      BY <1>2, SMT DEF F32Bits
    <2> HIDE DEF e, p, s
    <2>3. n - p \in Nat /\ n - p < p
      BY <2>1, SMT
    <2>4. m \in Nat /\ m < 8388608
      <3>1. \A a \in Nat, b \in Nat, c \in Nat \ {0} : a < b => a * c \in Nat /\ a * c < b * c
        BY SMT
      <3>2. QED
        BY <2>1, <2>3, <3>1, SMT
    <2>5. m \div s = n - p
      BY <2>1, <2>3, Quotient, SMT
    <2> HIDE DEF m
    <2>6. /\ F32Bits(n) \in Nat /\ F32Bits(n) < 2147483648
          /\ F32Bits(n) \div 8388608 = 127 + e /\ F32Bits(n) % 8388608 = m
      BY <2>1, <2>2, <2>4, SMT
    <2>7. QED
      BY <1>2, <2>5, <2>6, SMT DEF e, p, s
  <1>3. QED
    BY <1>1, <1>2, SMT

\* An f32 is four bytes.
LEMMA F32Bytes ==
  ASSUME NEW n \in Nat, n < TwoTo24
  PROVE  \A i \in 1..4 : F32(n)[i] \in Nat /\ F32(n)[i] < 256
  <1>1. /\ F32(n)[1] = Byte(F32Bits(n), 0) /\ F32(n)[2] = Byte(F32Bits(n), 1)
        /\ F32(n)[3] = Byte(F32Bits(n), 2) /\ F32(n)[4] = Byte(F32Bits(n), 3)
    BY SMT DEF F32
  <1> DEFINE bits == F32Bits(n)
  <1>2. bits \in Nat /\ bits < 2147483648
    BY BitsOf, SMT
  <1> HIDE DEF bits
  <1>3. /\ Byte(bits, 0) \in Nat /\ Byte(bits, 0) < 256
        /\ Byte(bits, 1) \in Nat /\ Byte(bits, 1) < 256
        /\ Byte(bits, 2) \in Nat /\ Byte(bits, 2) < 256
        /\ Byte(bits, 3) \in Nat /\ Byte(bits, 3) < 256
    BY <1>2, Bytes, SMT
  <1>4. QED
    BY <1>1, <1>3, SMT DEF bits

\* A whole number of 24 bits comes out of its f32 as it went in.
LEMMA ReadsBack ==
  ASSUME NEW n \in Nat, n < TwoTo24
  PROVE  FromF32(F32(n)) = n
  <1> DEFINE bits == F32(n)[1] + 256 * F32(n)[2] + 65536 * F32(n)[3] + 16777216 * F32(n)[4]
             e == (bits \div 8388608) - 127
  <1>1. bits = F32Bits(n)
    <2>1. /\ F32(n)[1] = Byte(F32Bits(n), 0) /\ F32(n)[2] = Byte(F32Bits(n), 1)
          /\ F32(n)[3] = Byte(F32Bits(n), 2) /\ F32(n)[4] = Byte(F32Bits(n), 3)
      BY SMT DEF F32
    <2>2. QED
      BY <2>1, BitsOf, Bytes, SMT
  <1>2. FromF32(F32(n)) = IF bits = 0 THEN 0 ELSE TwoTo[e] + ((bits % 8388608) \div TwoTo[23 - e])
    BY SMT DEF FromF32
  <1> HIDE DEF bits
  <1>3. CASE n = 0
    BY <1>1, <1>2, <1>3, SMT DEF F32Bits
  <1>4. CASE n # 0
    <2>1. Octave(n) \in 0..23 /\ TwoTo[Octave(n)] \in Nat
      BY <1>4, OctaveOf, TwoTos, SMT
    <2>2. bits # 0 /\ e = Octave(n)
      BY <1>1, <1>4, <2>1, BitsOf, SMT
    <2>3. (bits % 8388608) \div TwoTo[23 - e] = n - TwoTo[e]
      BY <1>1, <1>4, <2>2, BitsOf, SMT
    <2> QED
      BY <1>2, <2>1, <2>2, <2>3, SMT
  <1>5. QED
    BY <1>3, <1>4, SMT

\* A tuple of numbers is a sequence.
LEMMA TupleIsSeq == ASSUME NEW n \in Nat, NEW f \in [1..n -> Nat] PROVE f \in Seq(Nat) /\ Len(f) = n
  <1>1. f \in Seq(Nat)
    BY SeqDef
  <1>2. QED
    BY <1>1, LenProperties

\* An f32 as a sequence.
LEMMA F32Shape ==
  ASSUME NEW n \in Nat, n < TwoTo24
  PROVE  F32(n) \in [1..4 -> Nat] /\ F32(n) \in Seq(Nat) /\ Len(F32(n)) = 4
  <1>1. F32(n) \in [1..4 -> Nat]
    BY F32Bytes, SMT DEF F32
  <1>2. QED
    BY <1>1, TupleIsSeq, 4 \in Nat, Zenon

\* The class, the address and the bytes of a CAN id.
LEMMA IdBytes ==
  ASSUME NEW class \in Nat, class < 32, NEW addr \in Nat, addr < TwoTo24
  PROVE LET id == CanId(class, addr) IN
        /\ id \in Nat /\ ClassOf(id) = class /\ AddrOf(id) = addr
        /\ Byte(id, 0) = addr % 256 /\ Byte(id, 1) = (addr \div 256) % 256
        /\ Byte(id, 2) = addr \div 65536
  BY SMT DEF CanId, ClassOf, AddrOf, Byte, Shift, TwoTo24

\* The address that build_report spreads over the header's bytes comes together
\* again, with or without the device's mark.
HasHeader(r, class, addr) ==
  /\ r[2] = class * 8 + ((addr \div 65536) \div 32)
  /\ \/ r[3] = ((((addr \div 65536) \div 4) % 8) * 32) + ((addr \div 65536) % 4)
     \/ r[3] = ((((addr \div 65536) \div 4) % 8) * 32) + ((addr \div 65536) % 4) + 8
  /\ r[4] = (addr \div 256) % 256
  /\ r[5] = addr % 256

\* The decoder reads the class and the address from such a header.
LEMMA HeaderDecodes ==
  ASSUME NEW class \in Nat, class < 32, NEW addr \in Nat, addr < TwoTo24, NEW r,
         HasHeader(r, class, addr)
  PROVE  DecodeCanId(r) = CanId(class, addr)
  <1> DEFINE hi == addr \div 65536
             r2 == r[2]
             r3 == r[3]
  <1>1. hi \in Nat /\ hi < 256
    BY SMT DEF TwoTo24
  <1>2. hi * 65536 + ((addr \div 256) % 256) * 256 + (addr % 256) = addr
    BY SMT DEF TwoTo24
  <1>3. /\ r2 = class * 8 + (hi \div 32)
        /\ \/ r3 = (((hi \div 4) % 8) * 32) + (hi % 4)
           \/ r3 = (((hi \div 4) % 8) * 32) + (hi % 4) + 8
    BY SMT DEF HasHeader
  <1>4. DecodeCanId(r) =
          CanId(r2 \div 8, (((r2 % 8) * 32 + (r3 \div 32) * 4 + (r3 % 4)) * 65536)
                            + ((addr \div 256) % 256) * 256 + (addr % 256))
    BY SMT DEF DecodeCanId, HasHeader
  <1> HIDE DEF hi, r2, r3
  <1>5. PICK x \in Nat, y \in Nat, z \in Nat : hi = 32 * x + 4 * y + z /\ x < 8 /\ y < 8 /\ z < 4
    <2>1. hi \div 32 \in Nat /\ (hi \div 4) % 8 \in Nat /\ hi % 4 \in Nat
      BY <1>1, SMT
    <2> USE <2>1
    <2> WITNESS hi \div 32 \in Nat, (hi \div 4) % 8 \in Nat, hi % 4 \in Nat
    <2> QED
      BY <1>1, SMT
  <1>6. hi \div 32 = x /\ (hi \div 4) % 8 = y /\ hi % 4 = z
    BY <1>5, SMT
  <1>7. r2 \in Nat /\ r2 \div 8 = class /\ r2 % 8 = x
    BY <1>3, <1>5, <1>6, SMT
  <1>8. r3 \in Nat /\ r3 \div 32 = y /\ r3 % 4 = z
    BY <1>3, <1>5, <1>6, SMT
  <1>9. (r2 % 8) * 32 + (r3 \div 32) * 4 + (r3 % 4) = hi
    BY <1>5, <1>7, <1>8, SMT
  <1>10. QED
    BY <1>2, <1>4, <1>7, <1>9, SMT

\* A frame comes out of its report as it went in, marked or not.
LEMMA Carried ==
  ASSUME NEW class \in Nat, class < 32, NEW addr \in Nat, addr < TwoTo24,
         NEW d \in Seq(Nat), Len(d) <= 8, NEW f, f = [id |-> CanId(class, addr), data |-> d],
         NEW r, r = BuildReport(f) \/ r = Marked(BuildReport(f))
  PROVE  ParseReport(r) = f
  <1> DEFINE b == BuildReport(f)
             hi == addr \div 65536
             head == <<1, class * 8 + (hi \div 32), (((hi \div 4) % 8) * 32) + (hi % 4),
                       (addr \div 256) % 256, addr % 256, Len(d)>>
             pad == Pad(d)
  <1>1. Len(d) \in Nat /\ \A i \in 1..Len(d) : d[i] \in Nat
    BY LenProperties
  <1>2. b = head \o pad
    <2>1. f.id = CanId(class, addr) /\ f.data = d
      OBVIOUS
    <2>2. /\ ClassOf(f.id) = class /\ Byte(f.id, 0) = addr % 256
          /\ Byte(f.id, 1) = (addr \div 256) % 256 /\ Byte(f.id, 2) = hi
      BY <2>1, IdBytes
    <2> HIDE DEF hi, pad
    <2>3. QED
      BY <2>1, <2>2, <1>1 DEF BuildReport, pad
  <1>3. head \in Seq(Nat) /\ Len(head) = 6
    <2>1. hi \in Nat /\ hi % 4 \in Nat /\ (hi \div 4) % 8 \in Nat /\ hi \div 32 \in Nat
          /\ (addr \div 256) % 256 \in Nat /\ addr % 256 \in Nat
      OBVIOUS
    <2>2. QED
      BY <1>1, <2>1
  <1>4. pad \in Seq(Nat) /\ Len(pad) = 8 /\ \A i \in 1..Len(d) : pad[i] = d[i]
    <2>1. pad \in [1..8 -> Nat] /\ \A i \in 1..Len(d) : pad[i] = d[i]
      BY <1>1 DEF Pad
    <2> HIDE DEF pad
    <2>2. QED
      BY <2>1, TupleIsSeq, 8 \in Nat, Zenon
  <1> HIDE DEF pad
  <1>5. /\ b \in Seq(Nat) /\ Len(b) = 14
        /\ \A i \in 1..6 : b[i] = head[i]
        /\ \A i \in 1..Len(d) : b[6 + i] = d[i]
    <2> HIDE DEF b, head
    <2>1. /\ b \in Seq(Nat) /\ Len(b) = Len(head) + Len(pad)
          /\ \A i \in 1 .. (Len(head) + Len(pad)) :
               b[i] = IF i <= Len(head) THEN head[i] ELSE pad[i - Len(head)]
      BY <1>2, <1>3, <1>4, ConcatProperties
    <2>2. \A i \in 1..6 : i \in 1 .. (Len(head) + Len(pad)) /\ i <= Len(head)
      BY <1>3, <1>4
    <2>3. \A i \in 1..Len(d) : /\ 6 + i \in 1 .. (Len(head) + Len(pad)) 
                               /\ ~(6 + i <= Len(head)) /\ (6 + i) - Len(head) = i
      BY <1>1, <1>3, <1>4
    <2>4. \A i \in 1..6 : b[i] = head[i]
      BY <2>1, <2>2
    <2>5. \A i \in 1..Len(d) : b[6 + i] = d[i]
      <3> TAKE i \in 1..Len(d)
      <3>1. b[6 + i] = pad[(6 + i) - Len(head)]
        BY <2>1, <2>3
      <3>2. QED
        BY <2>3, <1>4, <3>1
    <2>6. QED
      BY <1>3, <1>4, <2>1, <2>4, <2>5
  <1>6. /\ r[3] = b[3] \/ r[3] = b[3] + 8
        /\ \A i \in (1..14) \ {3} : r[i] = b[i]
    <2> HIDE DEF b, head, hi
    <2>1. DOMAIN b = 1..14
      BY <1>5, LenProperties
    <2>2. r = b \/ r = [b EXCEPT ![3] = @ + (IF (@ \div 8) % 2 = 0 THEN 8 ELSE 0)]
      BY DEF Marked, b
    <2>3. b[3] \in Nat
      <3>1. 3 \in 1..Len(b)
        BY <1>5
      <3>2. QED
        BY <1>5, <3>1, ElementOfSeq
    <2>4. QED
      BY <2>1, <2>2, <2>3
  <1>7. DecodeCanId(r) = CanId(class, addr)
    <2>1. /\ r[2] = class * 8 + (hi \div 32)
          /\ \/ r[3] = (((hi \div 4) % 8) * 32) + (hi % 4)
             \/ r[3] = (((hi \div 4) % 8) * 32) + (hi % 4) + 8
          /\ r[4] = (addr \div 256) % 256 /\ r[5] = addr % 256
      BY <1>5, <1>6
    <2> HIDE DEF b, head
    <2>2. HasHeader(r, class, addr)
      BY <2>1, SMT DEF HasHeader
    <2>3. QED
      BY <2>2, HeaderDecodes, Zenon
  <1>8. SubSeq(r, 7, 6 + r[6]) = d
    <2>1. r[6] = Len(d) /\ \A i \in 1..Len(d) : r[6 + i] = d[i]
      <3>1. b[6] = Len(d)
        BY <1>5
      <3> HIDE DEF b, head, hi
      <3>2. \A i \in 1..Len(d) : 6 + i \in (1..14) \ {3}
        BY <1>1
      <3>3. 6 \in (1..14) \ {3}
        OBVIOUS
      <3>4. QED
        BY <1>5, <1>6, <3>1, <3>2, <3>3
    <2> HIDE DEF b, head, hi
    <2>2. \A i \in 7..(6 + Len(d)) : r[i] \in Nat
      <3>1. \A i \in 7..(6 + Len(d)) : i - 6 \in 1..Len(d) /\ i = 6 + (i - 6)
        BY <1>1
      <3>2. QED
        BY <1>1, <2>1, <3>1
    <2>3. /\ SubSeq(r, 7, 6 + Len(d)) \in Seq(Nat) /\ Len(SubSeq(r, 7, 6 + Len(d))) = Len(d)
          /\ \A i \in 1..Len(d) : SubSeq(r, 7, 6 + Len(d))[i] = r[i + 6]
      BY <1>1, <2>2, SubSeqProperties
    <2>4. QED
      BY <1>1, <2>1, <2>3, SeqEqual
  <1>9. QED
    BY <1>7, <1>8 DEF ParseReport

-----------------------------------------------------------------------------
(* The tabs: no two answers arrive on the same class and half of the addresses.*)

Wires == [class : {c \in Nat : c < 32}, high : BOOLEAN]

\* The table of tab.rs, row by row.
LEMMA ExchangeTable ==
  /\ Exchange("Monitoring", "Data") = X(Real(24), Real(8), Real(16))
  /\ Exchange("Monitoring", "Property") = X(High(24), High(8), High(16))
  /\ Exchange("Monitoring", "Group") = X(Real(25), Real(9), Real(17))
  /\ Exchange("Alarm", "Data") = X(Real(3), Real(2), High(2))
  /\ Exchange("Alarm", "Property") = X(High(25), High(9), High(17))
  /\ Exchange("Alarm", "Group") = X(Real(26), Real(10), Real(18))
  /\ Exchange("History", "Data") = X(High(29), High(13), High(21))
  /\ Exchange("History", "Property") = X(High(26), High(10), High(18))
  /\ Exchange("History", "Group") = X(Real(27), Real(11), Real(19))
  /\ Exchange("Configuration", "Data") = X(High(27), High(11), High(19))
  /\ Exchange("Configuration", "Property") = X(Real(28), Real(12), Real(20))
  /\ Exchange("Configuration", "Group") = X(High(28), High(12), High(20))
  BY DEF Exchange, Tabs, Kinds

\* Each class fits its five bits, and no tab is answered on the class of properties.
LEMMA WiresAre ==
  ASSUME NEW t \in Tabs, NEW k \in Kinds
  PROVE  /\ Exchange(t, k).req \in Wires
         /\ Exchange(t, k).info \in Wires /\ Exchange(t, k).info.class # PropertyInfo
         /\ Exchange(t, k).na \in Wires /\ Exchange(t, k).na.class # PropertyInfo
  <1>1. \A c \in Nat : c < 32 => Real(c) \in Wires /\ High(c) \in Wires
    BY DEF Wires, Real, High
  <1>2. \E a, b, c \in Nat : /\ a < 32 /\ b < 32 /\ c < 32 /\ b # PropertyInfo /\ c # PropertyInfo
                           /\ Exchange(t, k).req \in {Real(a), High(a)}
                           /\ Exchange(t, k).info \in {Real(b), High(b)}
                           /\ Exchange(t, k).na \in {Real(c), High(c)}
    BY ExchangeTable DEF Tabs, Kinds, X, PropertyInfo
  <1>3. PICK a, b, c \in Nat : /\ a < 32 /\ b < 32 /\ c < 32 /\ b # PropertyInfo /\ c # PropertyInfo
                           /\ Exchange(t, k).req \in {Real(a), High(a)}
                           /\ Exchange(t, k).info \in {Real(b), High(b)}
                           /\ Exchange(t, k).na \in {Real(c), High(c)}
    BY <1>2
  <1>4. /\ Real(b).class = b /\ High(b).class = b /\ Real(c).class = c /\ High(c).class = c
    BY DEF Real, High
  <1>5. QED
    BY <1>1, <1>3, <1>4

\* No two answers of the table share a class and a half of the addresses.
LEMMA WiresDiffer ==
  ASSUME NEW t \in Tabs, NEW k \in Kinds, NEW m \in BOOLEAN,
         NEW u \in Tabs, NEW l \in Kinds, NEW n \in BOOLEAN,
         (IF m THEN Exchange(t, k).na ELSE Exchange(t, k).info).class =
           (IF n THEN Exchange(u, l).na ELSE Exchange(u, l).info).class,
         (IF m THEN Exchange(t, k).na ELSE Exchange(t, k).info).high =
           (IF n THEN Exchange(u, l).na ELSE Exchange(u, l).info).high
  PROVE  t = u /\ k = l /\ (m <=> n)
  BY ExchangeTable, SMTT(60) DEF Tabs, Kinds, X, Real, High

\* An address and the one with bit 23 set.
LEMMA Halves ==
  ASSUME NEW addr \in Nat, addr < HIGH
  PROVE  /\ addr < TwoTo24 /\ addr + HIGH \in Nat /\ addr + HIGH < TwoTo24
         /\ ~IsHigh(addr) /\ IsHigh(addr + HIGH)
         /\ RealAddr(addr) = addr /\ RealAddr(addr + HIGH) = addr
  <1>1. addr < TwoTo24 /\ addr + HIGH \in Nat /\ addr + HIGH < TwoTo24
    BY SMT DEF HIGH, TwoTo24
  <1>2. addr \div HIGH = 0 /\ (addr + HIGH) \div HIGH = 1
    BY SMT DEF HIGH
  <1>3. ~IsHigh(addr) /\ IsHigh(addr + HIGH)
    BY <1>2, SMT DEF IsHigh
  <1>4. (addr + HIGH) - HIGH = addr
    BY SMT DEF HIGH
  <1>5. QED
    BY <1>1, <1>3, <1>4 DEF RealAddr

OnHalf(w, addr) == IF w.high THEN addr + HIGH ELSE addr

\* The id of a frame on a tab's class.
LEMMA OnTheWire ==
  ASSUME NEW addr \in Nat, addr < HIGH, NEW w \in Wires
  PROVE  /\ WireId(w, addr) = CanId(w.class, OnHalf(w, addr))
         /\ w.class \in Nat /\ w.class < 32 /\ OnHalf(w, addr) \in Nat /\ OnHalf(w, addr) < TwoTo24
         /\ RealAddr(OnHalf(w, addr)) = addr
         /\ IsHigh(OnHalf(w, addr)) <=> w.high
  BY Halves DEF WireId, OnHalf, Wires

\* The class and the half tell the tab and the kind an answer is of.
LEMMA AnswerTold ==
  ASSUME NEW addr \in Nat, addr < HIGH, NEW t \in Tabs, NEW k \in Kinds, NEW na \in BOOLEAN,
         NEW w, w = IF na THEN Exchange(t, k).na ELSE Exchange(t, k).info
  PROVE  Answer(w.class, OnHalf(w, addr)) = [tab |-> t, kind |-> k, na |-> na]
  <1> DEFINE a == [tab |-> t, kind |-> k, na |-> na]
             S == Answers(w.class, OnHalf(w, addr))
  <1>1. w \in Wires
    BY WiresAre
  <1>2. \A b \in [tab : Tabs, kind : Kinds, na : BOOLEAN] : b \in S <=> b = a
    <2> TAKE b \in [tab : Tabs, kind : Kinds, na : BOOLEAN]
    <2> DEFINE v == WireOf(b)
    <2>1. v = IF b.na THEN Exchange(b.tab, b.kind).na ELSE Exchange(b.tab, b.kind).info
      BY DEF WireOf
    <2> HIDE DEF v
    <2>2. b.tab \in Tabs /\ b.kind \in Kinds /\ b.na \in BOOLEAN
      OBVIOUS
    <2>3. v \in Wires
      BY <2>1, <2>2, WiresAre
    <2>4. b \in S <=> (v.class = w.class /\ (w.high <=> v.high))
      BY <1>1, OnTheWire, Zenon DEF WireIs, Answers, v
    <2>5. (w.high <=> v.high) => w.high = v.high
      BY <1>1, <2>3, Zenon DEF Wires
    <2>6. ASSUME b \in S PROVE b = a
      <3>1. b.tab = t /\ b.kind = k /\ (b.na <=> na)
        BY <2>1, <2>2, <2>4, <2>5, <2>6, WiresDiffer
      <3>2. b.na = na
        BY <3>1, <2>2, Zenon
      <3>3. QED
        BY <3>1, <3>2
    <2>7. ASSUME b = a PROVE b \in S
      <3>1. b.tab = t /\ b.kind = k /\ b.na = na
        BY <2>7
      <3>2. v = w
        BY <2>1, <3>1
      <3>3. QED
        BY <2>4, <3>2
    <2>8. QED
      BY <2>6, <2>7
  <1>3. a \in [tab : Tabs, kind : Kinds, na : BOOLEAN]
    OBVIOUS
  <1>4. S \subseteq [tab : Tabs, kind : Kinds, na : BOOLEAN]
    BY DEF Answers
  <1> HIDE DEF a, S
  <1>5. S = {a}
    BY <1>2, <1>3, <1>4
  <1>6. QED
    BY <1>5 DEF Answer, S, a

-----------------------------------------------------------------------------
(* Frames and questions.                                                   *)

Data8 == {d \in Seq(Nat) : Len(d) <= 8}
Frames == {f \in [id : Nat, data : Data8] :
             \E class \in Nat, addr \in Nat : class < 32 /\ addr < TwoTo24 /\ f.id = CanId(class, addr)}

\* What a question is, by what it asks.
LEMMA QuestionKinds ==
  ASSUME NEW q \in Questions
  PROVE  /\ q.addr \in Addrs
         /\ q.ask \in {"fw", "prop"} => q \in [ask : {"fw", "prop"}, addr : Addrs, n : Indices]
         /\ q.ask = "select" => q \in [ask : {"select"}, addr : Addrs, n : Selectors]
         /\ q.ask = "output" => q \in [ask : {"output"}, addr : Addrs, n : Outputs]
         /\ q.ask \in {"login", "logout", "login_read"} =>
              q \in [ask : {"login", "logout", "login_read"}, addr : Addrs]
         /\ q.ask \in {"chunk", "store_chunk"} =>
              q \in [ask : {"chunk", "store_chunk"}, addr : Addrs, sid : StringIds, seq : Indices]
         /\ q.ask \in {"group_name", "group_count"} =>
              q \in [ask : {"group_name", "group_count"}, addr : Addrs, tab : Tabs, group : Indices]
         /\ q.ask = "group_field" =>
              q \in [ask : {"group_field"}, addr : Addrs, tab : Tabs, group : Indices, n : Indices]
         /\ q.ask = "property" =>
              q \in [ask : {"property"}, addr : Addrs, tab : Tabs, op : PropertyOps, field : Indices]
         /\ q.ask = "option" =>
              q \in [ask : {"option"}, addr : Addrs, tab : Tabs, field : Indices, n : Indices]
         /\ q.ask = "read" => q \in [ask : {"read"}, addr : Addrs, tab : Tabs, field : Indices]
         /\ q.ask = "write" =>
              q \in [ask : {"write"}, addr : Addrs, tab : {"Monitoring", "Configuration"},
                     field : Indices, number : Numbers,
                     viz : {"Float", "Boolean", "List", "DeviceRef"}]
         /\ q.ask = "commit" =>
              q \in [ask : {"commit"}, addr : Addrs, field : Indices, writer : Writers]
         /\ q.ask \in {"fw", "prop", "select", "output", "login", "logout", "login_read", "chunk",
                       "store_chunk", "group_name", "group_count", "group_field", "property",
                       "option", "read", "write", "commit", "heartbeat"}
  BY DEF Questions

\* Short tuples.
LEMMA Sequences ==
  /\ \A a \in Nat : <<a>> \in Seq(Nat) /\ Len(<<a>>) = 1
  /\ \A a, b \in Nat : <<a, b>> \in Seq(Nat) /\ Len(<<a, b>>) = 2
  /\ \A a, b, c \in Nat : <<a, b, c>> \in Seq(Nat) /\ Len(<<a, b, c>>) = 3
  /\ \A a, b, c, d \in Nat : <<a, b, c, d>> \in Seq(Nat) /\ Len(<<a, b, c, d>>) = 4
  /\ \A a, b, c, d, e \in Nat : <<a, b, c, d, e>> \in Seq(Nat) /\ Len(<<a, b, c, d, e>>) = 5
  OBVIOUS

\* An answer begins with the head of its request.
LEMMA HeadStays ==
  ASSUME NEW s \in Seq(Nat), NEW t \in Seq(Nat), NEW k \in Nat, k <= Len(s)
  PROVE  /\ SubSeq(s, 1, k) \o t \in Seq(Nat)
         /\ Len(SubSeq(s, 1, k) \o t) = k + Len(t)
         /\ \A i \in 1..k : (SubSeq(s, 1, k) \o t)[i] = s[i]
  <1> DEFINE u == SubSeq(s, 1, k)
  <1>1. \A i \in 1..k : s[i] \in Nat
    BY LenProperties
  <1>2. u \in Seq(Nat) /\ Len(u) = k /\ \A i \in 1..k : u[i] = s[i]
    BY <1>1, SubSeqProperties
  <1> HIDE DEF u
  <1>3. /\ u \o t \in Seq(Nat) /\ Len(u \o t) = Len(u) + Len(t)
        /\ \A i \in 1 .. Len(u) + Len(t) : (u \o t)[i] = IF i <= Len(u) THEN u[i] ELSE t[i - Len(u)]
    BY <1>2, ConcatProperties
  <1>4. Len(t) \in Nat
    BY LenProperties
  <1>5. \A i \in 1..k : i \in 1 .. Len(u) + Len(t) /\ i <= Len(u)
    BY <1>2, <1>4
  <1>6. /\ u \o t \in Seq(Nat) /\ Len(u \o t) = k + Len(t)
        /\ \A i \in 1..k : (u \o t)[i] = s[i]
    BY <1>2, <1>3, <1>5
  <1>7. QED
    BY <1>6 DEF u

\* A frame of a class and an address.
LEMMA FrameIs ==
  ASSUME NEW class \in Nat, class < 32, NEW addr \in Nat, addr < TwoTo24, NEW d \in Data8
  PROVE  [id |-> CanId(class, addr), data |-> d] \in Frames
  <1>1. CanId(class, addr) \in Nat
    BY SMT DEF CanId, TwoTo24
  <1>2. QED
    BY <1>1, Zenon DEF Frames

\* The frame a question is asked with, row by row.
LEMMA RequestIs ==
  ASSUME NEW q \in Questions
  PROVE  /\ q.ask = "fw" => RequestFrame(q) = Ask7(q, <<130, q.n>>)
         /\ q.ask = "prop" => RequestFrame(q) = Ask7(q, <<9, q.n>>)
         /\ q.ask = "select" => RequestFrame(q) = Ask7(q, <<8, q.n>>)
         /\ q.ask = "output" => RequestFrame(q) = Ask7(q, <<8, 64 + q.n>>)
         /\ q.ask = "login_read" => RequestFrame(q) = Ask7(q, <<8, 25>>)
         /\ q.ask = "login" => RequestFrame(q) = Ask7(q, <<8, 25, 1, 0>> \o F32(3))
         /\ q.ask = "logout" => RequestFrame(q) = Ask7(q, <<8, 25, 0, 0>>)
         /\ q.ask = "chunk" => RequestFrame(q) = Ask7(q, <<48, Byte(q.sid, 0), Byte(q.sid, 1), q.seq>>)
         /\ q.ask = "store_chunk" =>
              RequestFrame(q) = Ask7(q, <<48, Byte(q.sid, 0), Byte(q.sid, 1), q.seq, 65, 66, 67, 68>>)
         /\ q.ask = "group_name" => RequestFrame(q) = OnTab(q, "Group", <<40, q.group, 0>>)
         /\ q.ask = "group_count" => RequestFrame(q) = OnTab(q, "Group", <<7, q.group, 0>>)
         /\ q.ask = "group_field" => RequestFrame(q) = OnTab(q, "Group", <<3, q.group, 0, q.n>>)
         /\ q.ask = "property" => RequestFrame(q) = OnTab(q, "Property", <<q.op, q.field, 0>>)
         /\ q.ask = "option" => RequestFrame(q) = OnTab(q, "Property", <<38, q.field, 0, q.n>>)
         /\ q.ask = "read" => RequestFrame(q) = OnTab(q, "Data", <<q.field, 0>>)
         /\ q.ask = "write" => RequestFrame(q) = OnTab(q, "Data", <<q.field, 0>> \o F32(Written(q)))
         /\ q.ask = "commit" =>
              RequestFrame(q) = [id |-> CanId(24, q.addr),
                                 data |-> <<q.field, 0>> \o CommitValue(BusIdForAddr(q.writer))]
         /\ q.ask = "heartbeat" => RequestFrame(q) = [id |-> CanId(5, q.addr), data |-> <<>>]
  BY DEF RequestFrame

\* A property request is a frame.
LEMMA Ask7IsFrame ==
  ASSUME NEW q \in Questions, NEW d \in Data8
  PROVE  Ask7(q, d) \in Frames
  <1>1. q.addr \in Nat /\ q.addr < TwoTo24
    BY QuestionKinds, CodecAssumption, Halves DEF CodecAssumption
  <1>2. PropertyReq \in Nat /\ PropertyReq < 32
    BY DEF PropertyReq
  <1>3. QED
    BY <1>1, <1>2, FrameIs DEF Ask7

\* What goes out on a tab's class is a frame.
LEMMA TabIsFrame ==
  ASSUME NEW addr \in Nat, addr < HIGH, NEW w \in Wires, NEW d \in Data8
  PROVE  [id |-> WireId(w, addr), data |-> d] \in Frames
  BY OnTheWire, FrameIs, Zenon

\* A question to a tab is a frame.
LEMMA OnTabIsFrame ==
  ASSUME NEW q \in Questions, q.tab \in Tabs, NEW kind \in Kinds, NEW d \in Data8
  PROVE  OnTab(q, kind, d) \in Frames
  <1>1. q.addr \in Nat /\ q.addr < HIGH
    BY QuestionKinds, CodecAssumption DEF CodecAssumption
  <1>2. QED
    BY <1>1, WiresAre, TabIsFrame DEF OnTab

\* A string id is put together again from its two bytes.
LEMMA StringIdBytes ==
  ASSUME NEW sid \in StringIds
  PROVE  /\ Byte(sid, 0) \in Nat /\ Byte(sid, 1) \in Nat
         /\ Byte(sid, 0) + 256 * Byte(sid, 1) = sid
  <1> DEFINE lo == Byte(sid, 0)
             hi == Byte(sid, 1)
  <1>1. sid \in Nat /\ sid < 65536
    BY CodecAssumption, SMT DEF CodecAssumption
  <1>2. sid \div 1 = sid
    BY <1>1, SMT
  <1>3. lo = sid % 256 /\ hi = (sid \div 256) % 256
    BY Shifts, <1>2, SMT DEF Byte
  <1> HIDE DEF lo, hi
  <1>4. lo \in Nat /\ hi \in Nat /\ lo + 256 * hi = sid
    BY <1>1, <1>3, SMT
  <1>5. QED
    BY <1>4 DEF lo, hi

\* Joining two sequences.
LEMMA Joined ==
  ASSUME NEW s \in Seq(Nat), NEW t \in Seq(Nat)
  PROVE  /\ s \o t \in Seq(Nat) /\ Len(s \o t) = Len(s) + Len(t)
         /\ \A i \in 1..Len(s) : (s \o t)[i] = s[i]
         /\ \A i \in 1..Len(t) : (s \o t)[Len(s) + i] = t[i]
  <1>1. /\ s \o t \in Seq(Nat) /\ Len(s \o t) = Len(s) + Len(t)
        /\ \A i \in 1 .. Len(s) + Len(t) : (s \o t)[i] = IF i <= Len(s) THEN s[i] ELSE t[i - Len(s)]
    BY ConcatProperties
  <1>2. Len(s) \in Nat /\ Len(t) \in Nat
    BY LenProperties
  <1>3. \A i \in 1..Len(s) : i \in 1 .. Len(s) + Len(t) /\ i <= Len(s)
    BY <1>2
  <1>4. \A i \in 1..Len(t) : /\ Len(s) + i \in 1 .. Len(s) + Len(t) /\ ~(Len(s) + i <= Len(s))
                             /\ (Len(s) + i) - Len(s) = i
    BY <1>2
  <1>5. QED
    BY <1>1, <1>3, <1>4

CommitOf(d, field, busId) == d = <<field, 0>> \o CommitValue(busId)

\* The BusID in a commit.
LEMMA CommitData ==
  ASSUME NEW busId, busId[1] \in Nat, busId[2] \in Nat, busId[2] < TwoTo18, NEW field \in Nat,
         NEW d, CommitOf(d, field, busId)
  PROVE  /\ d \in Data8 /\ d[3] = busId[1] /\ d[4] + 256 * d[5] + 65536 * d[6] = busId[2]
  <1> DEFINE v == CommitValue(busId)
             n == busId[2]
             h == <<field, 0>>
  <1>1. /\ Byte(n, 0) \in Nat /\ Byte(n, 1) \in Nat /\ Byte(n, 2) \in Nat
        /\ Byte(n, 0) + 256 * Byte(n, 1) + 65536 * Byte(n, 2) = n
    <2>0. n \in Nat /\ n < TwoTo18
      OBVIOUS
    <2> HIDE DEF n
    <2>1. n \div 1 = n
      BY <2>0, SMT
    <2>2. /\ Byte(n, 0) = n % 256 /\ Byte(n, 1) = (n \div 256) % 256
          /\ Byte(n, 2) = (n \div 65536) % 256
      BY Shifts, <2>1, SMT DEF Byte
    <2>3. /\ n % 256 \in Nat /\ (n \div 256) % 256 \in Nat /\ (n \div 65536) % 256 \in Nat
          /\ (n % 256) + 256 * ((n \div 256) % 256) + 65536 * ((n \div 65536) % 256) = n
      BY <2>0, SMT DEF TwoTo18
    <2>4. QED
      BY <2>2, <2>3, SMT
  <1>2. /\ v \in Seq(Nat) /\ Len(v) = 4 /\ v[1] = busId[1] /\ v[2] = Byte(n, 0)
        /\ v[3] = Byte(n, 1) /\ v[4] = Byte(n, 2)
    BY <1>1, Sequences, SMT DEF CommitValue
  <1>3. h \in Seq(Nat) /\ Len(h) = 2
    BY Sequences, SMT
  <1>4. d = h \o v
    BY DEF CommitOf
  <1> HIDE DEF v, h, n
  <1>5. /\ d \in Seq(Nat) /\ Len(d) = Len(h) + Len(v)
        /\ \A i \in 1..Len(v) : d[Len(h) + i] = v[i]
    BY <1>2, <1>3, <1>4, Joined
  <1>6. Len(d) = 6 /\ \A i \in 1..4 : d[2 + i] = v[i]
    BY <1>2, <1>3, <1>5
  <1>7. d[3] = v[1] /\ d[4] = v[2] /\ d[5] = v[3] /\ d[6] = v[4]
    BY <1>6
  <1>8. d \in Data8
    <2>1. Len(d) <= 8
      BY <1>6
    <2>2. QED
      BY <1>5, <2>1, Zenon DEF Data8
  <1>9. d[3] = busId[1] /\ d[4] + 256 * d[5] + 65536 * d[6] = n
    BY <1>1, <1>2, <1>7, SMT
  <1>10. QED
    BY <1>8, <1>9, SMT DEF n

\* Eight bytes at most fit a frame.
LEMMA ShortData ==
  ASSUME NEW d \in Seq(Nat), Len(d) <= 8
  PROVE  d \in Data8
  BY Zenon DEF Data8

\* What the parts of a question are bounded by.
LEMMA Bounds ==
  ASSUME NEW q \in Questions
  PROVE  /\ q.addr \in Nat /\ q.addr < HIGH
         /\ q.ask \in {"fw", "prop", "select", "output", "group_field", "option"} => q.n \in Nat /\ q.n < 256
         /\ q.ask \in {"chunk", "store_chunk"} => q.seq \in Nat
         /\ q.ask \in {"group_name", "group_count", "group_field"} => q.tab \in Tabs /\ q.group \in Nat
         /\ q.ask = "property" => q.op \in PropertyOps /\ q.op \in Nat
         /\ q.ask \in {"property", "option", "read", "write"} => q.tab \in Tabs
         /\ q.ask \in {"property", "option", "read", "write", "commit"} => q.field \in Nat
         /\ q.ask = "write" => Written(q) \in Nat /\ Written(q) < TwoTo24
  <1>1. q.addr \in Nat /\ q.addr < HIGH
    BY QuestionKinds, CodecAssumption DEF CodecAssumption
  <1>2. /\ q.ask \in {"fw", "prop", "group_field", "option"} => q.n \in Nat /\ q.n < 256
        /\ q.ask \in {"chunk", "store_chunk"} => q.seq \in Nat
        /\ q.ask \in {"group_name", "group_count", "group_field"} => q.tab \in Tabs /\ q.group \in Nat
    BY QuestionKinds, CodecAssumption DEF CodecAssumption
  <1>3. q.ask \in {"select", "output"} => q.n \in Nat /\ q.n < 256
    BY QuestionKinds DEF Selectors, Outputs
  <1>4. q.ask = "property" => q.op \in PropertyOps /\ q.op \in Nat
    BY QuestionKinds DEF PropertyOps
  <1>5. /\ q.ask \in {"property", "option", "read", "write"} => q.tab \in Tabs
        /\ q.ask \in {"property", "option", "read", "write", "commit"} => q.field \in Nat
    BY QuestionKinds, CodecAssumption DEF CodecAssumption, Tabs
  <1>6. q.ask = "write" => Written(q) \in Nat /\ Written(q) < TwoTo24
    <2>1. q.ask = "write" => q.number \in Nat /\ q.number < TwoTo24
      BY QuestionKinds, CodecAssumption DEF CodecAssumption
    <2>2. 0 < TwoTo24 /\ 1 < TwoTo24
      BY SMT DEF TwoTo24
    <2>3. QED
      BY <2>1, <2>2 DEF Written
  <1>7. QED
    BY <1>1, <1>2, <1>3, <1>4, <1>5, <1>6

\* The second part of a joined sequence.
LEMMA TailOfJoined ==
  ASSUME NEW s \in Seq(Nat), NEW t \in Seq(Nat), Len(t) > 0
  PROVE  SubSeq(s \o t, Len(s) + 1, Len(s) + Len(t)) = t
  <1> DEFINE m == Len(s) + 1
             n == Len(s) + Len(t)
  <1>1. Len(s) \in Nat /\ Len(t) \in Nat
    BY LenProperties
  <1>2. m \in Len(s) + 1 .. Len(s) + Len(t) /\ n \in Len(s) + 1 .. Len(s) + Len(t)
    BY <1>1
  <1>3. m - Len(s) = 1 /\ n - Len(s) = Len(t)
    BY <1>1
  <1> HIDE DEF m, n
  <1>4. SubSeq(s \o t, m, n) = SubSeq(t, m - Len(s), n - Len(s))
    BY <1>2, SubSeqOfConcat2
  <1>5. SubSeq(t, 1, Len(t)) = t
    BY SubSeqFull
  <1>6. QED
    BY <1>3, <1>4, <1>5 DEF m, n

LoginOf(d) == d = <<8, 25, 1, 0>> \o F32(3)
WriteOf(d, field, n) == d = <<field, 0>> \o F32(n)

\* The data of a login.
LEMMA LoginData ==
  ASSUME NEW d, LoginOf(d)
  PROVE  d \in Data8 /\ Len(d) = 8 /\ d[1] = 8 /\ d[2] = 25
  <1> DEFINE h == <<8, 25, 1, 0>>
             v == F32(3)
  <1>1. h \in Seq(Nat) /\ Len(h) = 4 /\ h[1] = 8 /\ h[2] = 25
    BY Sequences
  <1>2. v \in Seq(Nat) /\ Len(v) = 4
    <2>1. 3 < TwoTo24
      BY SMT DEF TwoTo24
    <2>2. QED
      BY <2>1, F32Shape
  <1>3. d = h \o v
    BY DEF LoginOf
  <1> HIDE DEF h, v
  <1>4. /\ d \in Seq(Nat) /\ Len(d) = Len(h) + Len(v) /\ \A i \in 1..Len(h) : d[i] = h[i]
    BY <1>1, <1>2, <1>3, Joined
  <1>5. Len(d) = 8 /\ 1 \in 1..Len(h) /\ 2 \in 1..Len(h) /\ Len(d) <= 8
    BY <1>1, <1>2, <1>4
  <1>6. QED
    BY <1>1, <1>4, <1>5, ShortData

\* The data of a write: its field, and its number as an f32.
LEMMA WriteData ==
  ASSUME NEW field \in Nat, NEW n \in Nat, n < TwoTo24, NEW d, WriteOf(d, field, n)
  PROVE  d \in Data8 /\ Len(d) = 6 /\ d[1] = field /\ SubSeq(d, 3, 6) = F32(n)
  <1> DEFINE h == <<field, 0>>
             v == F32(n)
  <1>1. h \in Seq(Nat) /\ Len(h) = 2 /\ h[1] = field
    BY Sequences
  <1>2. v \in Seq(Nat) /\ Len(v) = 4
    BY F32Shape
  <1>3. d = h \o v
    BY DEF WriteOf
  <1> HIDE DEF h, v
  <1>4. d \in Seq(Nat) /\ Len(d) = Len(h) + Len(v) /\ \A i \in 1..Len(h) : d[i] = h[i]
    BY <1>1, <1>2, <1>3, Joined
  <1>5. Len(d) = 6 /\ 1 \in 1..Len(h) /\ Len(d) <= 8
    BY <1>1, <1>2, <1>4
  <1>6. SubSeq(d, 3, 6) = v
    <2>1. SubSeq(d, Len(h) + 1, Len(h) + Len(v)) = v
      <3>1. Len(v) > 0
        BY <1>2
      <3>2. QED
        BY <1>1, <1>2, <1>3, <3>1, TailOfJoined
    <2>2. Len(h) + 1 = 3 /\ Len(h) + Len(v) = 6
      BY <1>1, <1>2
    <2>3. QED
      BY <2>1, <2>2
  <1>7. QED
    BY <1>1, <1>4, <1>5, <1>6, ShortData DEF v

\* Data of two bytes.
LEMMA TwoData == ASSUME NEW a \in Nat, NEW b \in Nat PROVE <<a, b>> \in Data8 /\ Len(<<a, b>>) = 2
  <1>1. <<a, b>> \in Seq(Nat) /\ Len(<<a, b>>) = 2 /\ 2 <= 8
    BY Sequences
  <1>2. QED
    BY <1>1 DEF Data8

\* Data of three bytes.
LEMMA ThreeData == ASSUME NEW a \in Nat, NEW b \in Nat, NEW c \in Nat
  PROVE <<a, b, c>> \in Data8 /\ Len(<<a, b, c>>) = 3
  <1>1. <<a, b, c>> \in Seq(Nat) /\ Len(<<a, b, c>>) = 3 /\ 3 <= 8
    BY Sequences
  <1>2. QED
    BY <1>1 DEF Data8

\* Data of four bytes.
LEMMA FourData == ASSUME NEW a \in Nat, NEW b \in Nat, NEW c \in Nat, NEW d \in Nat
  PROVE <<a, b, c, d>> \in Data8 /\ Len(<<a, b, c, d>>) = 4
  <1>1. <<a, b, c, d>> \in Seq(Nat) /\ Len(<<a, b, c, d>>) = 4 /\ 4 <= 8
    BY Sequences
  <1>2. QED
    BY <1>1 DEF Data8

\* The key a question is registered under, row by row.
LEMMA KeyIs ==
  ASSUME NEW q
  PROVE  /\ q.ask = "fw" => KeyOf(q) = <<"p", q.addr, 130, q.n>>
         /\ q.ask = "prop" => KeyOf(q) = <<"p", q.addr, 9, q.n>>
         /\ q.ask = "select" => KeyOf(q) = <<"p", q.addr, 8, q.n>>
         /\ q.ask = "output" => KeyOf(q) = <<"p", q.addr, 8, 64 + q.n>>
         /\ q.ask \in {"login_read", "login", "logout"} => KeyOf(q) = <<"p", q.addr, 8, 25>>
         /\ q.ask \in {"chunk", "store_chunk"} => KeyOf(q) = <<"str", q.addr, q.sid, q.seq>>
         /\ q.ask = "group_name" => KeyOf(q) = <<"group", q.tab, q.addr, 40, q.group>>
         /\ q.ask = "group_count" => KeyOf(q) = <<"group", q.tab, q.addr, 7, q.group>>
         /\ q.ask = "group_field" => KeyOf(q) = <<"group", q.tab, q.addr, 3, q.group, q.n>>
         /\ q.ask = "property" => KeyOf(q) = <<"prop", q.tab, q.addr, q.op, q.field>>
         /\ q.ask = "option" => KeyOf(q) = <<"prop", q.tab, q.addr, 38, q.field, q.n>>
         /\ q.ask \in {"read", "write"} => KeyOf(q) = <<"val", q.addr, q.tab, q.field>>
         /\ q.ask \in Unanswered => KeyOf(q) = <<q.ask, q.addr>>
  <1>1. /\ q.ask = "fw" => KeyOf(q) = <<"p", q.addr, 130, q.n>>
        /\ q.ask = "prop" => KeyOf(q) = <<"p", q.addr, 9, q.n>>
        /\ q.ask = "select" => KeyOf(q) = <<"p", q.addr, 8, q.n>>
        /\ q.ask = "output" => KeyOf(q) = <<"p", q.addr, 8, 64 + q.n>>
    BY DEF KeyOf, Unanswered
  <1>2. /\ q.ask \in {"login_read", "login", "logout"} => KeyOf(q) = <<"p", q.addr, 8, 25>>
        /\ q.ask \in {"chunk", "store_chunk"} => KeyOf(q) = <<"str", q.addr, q.sid, q.seq>>
    BY DEF KeyOf, Unanswered
  <1>3. /\ q.ask = "group_name" => KeyOf(q) = <<"group", q.tab, q.addr, 40, q.group>>
        /\ q.ask = "group_count" => KeyOf(q) = <<"group", q.tab, q.addr, 7, q.group>>
        /\ q.ask = "group_field" => KeyOf(q) = <<"group", q.tab, q.addr, 3, q.group, q.n>>
    BY DEF KeyOf, Unanswered
  <1>4. /\ q.ask = "property" => KeyOf(q) = <<"prop", q.tab, q.addr, q.op, q.field>>
        /\ q.ask = "option" => KeyOf(q) = <<"prop", q.tab, q.addr, 38, q.field, q.n>>
        /\ q.ask \in {"read", "write"} => KeyOf(q) = <<"val", q.addr, q.tab, q.field>>
        /\ q.ask \in Unanswered => KeyOf(q) = <<q.ask, q.addr>>
    BY DEF KeyOf, Unanswered
  <1>5. QED
    BY <1>1, <1>2, <1>3, <1>4

Plain == {"fw", "prop", "select", "output", "login", "login_read", "logout"}
Chunks == {"chunk", "store_chunk"}

\* What goes out, by kind of question: data of at most eight bytes.
PlainAsk(q, d) == /\ RequestFrame(q) = Ask7(q, d) /\ d \in Data8
                  /\ Len(d) >= 2 /\ d[1] # 48
                  /\ KeyOf(q) = <<"p", q.addr, d[1], d[2]>>

\* A question of two bytes about a property of the device.
LEMMA PlainTwo ==
  ASSUME NEW q, NEW a \in Nat, NEW b \in Nat, a # 48,
         RequestFrame(q) = Ask7(q, <<a, b>>), KeyOf(q) = <<"p", q.addr, a, b>>
  PROVE  \E d : PlainAsk(q, d)
  <1> DEFINE d == <<a, b>>
  <1>1. d \in Data8 /\ Len(d) = 2 /\ d[1] = a /\ d[2] = b
    BY TwoData
  <1>2. RequestFrame(q) = Ask7(q, d)
    OBVIOUS
  <1> HIDE DEF d
  <1>3. PlainAsk(q, d)
    BY <1>1, <1>2 DEF PlainAsk
  <1>4. QED
    BY <1>3

\* Each question about a property of the device is of that form.
LEMMA PlainRequest ==
  ASSUME NEW q \in Questions, q.ask \in Plain
  PROVE  \E d : PlainAsk(q, d)
  <1>0. /\ q.ask \in {"fw", "prop", "select", "output"} => q.n \in Nat
    BY Bounds
  <1>1. CASE q.ask = "fw"
    <2>1. RequestFrame(q) = Ask7(q, <<130, q.n>>) /\ KeyOf(q) = <<"p", q.addr, 130, q.n>>
      BY <1>1, RequestIs, KeyIs, Zenon
    <2>2. q.n \in Nat /\ 130 \in Nat /\ 130 # 48
      BY <1>0, <1>1
    <2>3. QED BY <2>1, <2>2, PlainTwo
  <1>2. CASE q.ask = "prop"
    <2>1. RequestFrame(q) = Ask7(q, <<9, q.n>>) /\ KeyOf(q) = <<"p", q.addr, 9, q.n>>
      BY <1>2, RequestIs, KeyIs, Zenon
    <2>2. q.n \in Nat /\ 9 \in Nat /\ 9 # 48
      BY <1>0, <1>2
    <2>3. QED BY <2>1, <2>2, PlainTwo
  <1>3. CASE q.ask = "select"
    <2>1. RequestFrame(q) = Ask7(q, <<8, q.n>>) /\ KeyOf(q) = <<"p", q.addr, 8, q.n>>
      BY <1>3, RequestIs, KeyIs, Zenon
    <2>2. q.n \in Nat /\ 8 \in Nat /\ 8 # 48
      BY <1>0, <1>3
    <2>3. QED BY <2>1, <2>2, PlainTwo
  <1>4. CASE q.ask = "output"
    <2>1. RequestFrame(q) = Ask7(q, <<8, 64 + q.n>>) /\ KeyOf(q) = <<"p", q.addr, 8, 64 + q.n>>
      BY <1>4, RequestIs, KeyIs, Zenon
    <2>2. 64 + q.n \in Nat /\ 8 \in Nat /\ 8 # 48
      BY <1>0, <1>4
    <2>3. QED BY <2>1, <2>2, PlainTwo
  <1>5. CASE q.ask = "login_read"
    <2>1. RequestFrame(q) = Ask7(q, <<8, 25>>) /\ KeyOf(q) = <<"p", q.addr, 8, 25>>
      BY <1>5, RequestIs, KeyIs, Zenon
    <2>2. 25 \in Nat /\ 8 \in Nat /\ 8 # 48
      OBVIOUS
    <2>3. QED BY <2>1, <2>2, PlainTwo
  <1>6. CASE q.ask = "logout"
    <2> DEFINE d == <<8, 25, 0, 0>>
    <2>1. d \in Data8 /\ Len(d) = 4 /\ d[1] = 8 /\ d[2] = 25
      BY FourData
    <2>2. RequestFrame(q) = Ask7(q, d) /\ KeyOf(q) = <<"p", q.addr, 8, 25>>
      BY <1>6, RequestIs, KeyIs, Zenon
    <2> HIDE DEF d
    <2>3. PlainAsk(q, d)
      BY <2>1, <2>2 DEF PlainAsk
    <2> QED BY <2>3
  <1>7. CASE q.ask = "login"
    <2>1. PICK d : LoginOf(d)
      BY DEF LoginOf
    <2>2. d \in Data8 /\ Len(d) = 8 /\ d[1] = 8 /\ d[2] = 25
      BY <2>1, LoginData
    <2>3. RequestFrame(q) = Ask7(q, d) /\ KeyOf(q) = <<"p", q.addr, 8, 25>>
      BY <1>7, <2>1, RequestIs, KeyIs, Zenon DEF LoginOf
    <2>4. PlainAsk(q, d)
      BY <2>2, <2>3 DEF PlainAsk
    <2>5. QED
      BY <2>4
  <1>8. QED
    BY <1>1, <1>2, <1>3, <1>4, <1>5, <1>6, <1>7 DEF Plain

-----------------------------------------------------------------------------
(* Where an answer is filed.                                               *)

\* An answer that goes out whole and is filed under its question's key.
FiledFor(q, f) == f \in Frames /\ KeyForFrame(f) = KeyOf(q)

\* What a device answers about a property is filed under its two bytes.
LEMMA PlainFiled ==
  ASSUME NEW q, NEW addr \in Nat, addr < HIGH, NEW d \in Data8, Len(d) >= 2, d[1] # 48,
         KeyOf(q) = <<"p", addr, d[1], d[2]>>
  PROVE  FiledFor(q, [id |-> CanId(PropertyInfo, addr), data |-> d])
  <1> DEFINE f == [id |-> CanId(PropertyInfo, addr), data |-> d]
  <1>1. /\ PropertyInfo \in Nat /\ PropertyInfo < 32
    BY DEF PropertyInfo
  <1>2. addr < TwoTo24 /\ ~IsHigh(addr)
    BY Halves
  <1>3. f \in Frames
    BY <1>1, <1>2, FrameIs
  <1>4. ClassOf(f.id) = PropertyInfo /\ AddrOf(f.id) = addr /\ f.data = d
    BY <1>1, <1>2, IdBytes
  <1>5. KeyForFrame(f) = PropertyKey(addr, d)
    BY <1>4 DEF KeyForFrame
  <1>6. PropertyKey(addr, d) = <<"p", addr, d[1], d[2]>>
    <2>1. ~(Len(d) < 2)
      <3>1. Len(d) \in Nat
        BY LenProperties DEF Data8
      <3>2. QED BY <3>1
    <2>2. QED BY <1>2, <2>1 DEF PropertyKey
  <1>7. QED
    BY <1>3, <1>5, <1>6 DEF FiledFor

\* A chunk of a string is filed under the string and its number.
LEMMA ChunkFiled ==
  ASSUME NEW q, NEW addr \in Nat, addr < HIGH, NEW d \in Data8, Len(d) >= 4, d[1] = 48,
         KeyOf(q) = <<"str", addr, d[2] + 256 * d[3], d[4]>>
  PROVE  FiledFor(q, [id |-> CanId(PropertyInfo, addr), data |-> d])
  <1> DEFINE f == [id |-> CanId(PropertyInfo, addr), data |-> d]
             k == <<"str", addr, d[2] + 256 * d[3], d[4]>>
  <1>1. /\ PropertyInfo \in Nat /\ PropertyInfo < 32
    BY DEF PropertyInfo
  <1>2. addr < TwoTo24 /\ ~IsHigh(addr)
    BY Halves
  <1>3. f \in Frames
    BY <1>1, <1>2, FrameIs
  <1>4. ClassOf(f.id) = PropertyInfo /\ AddrOf(f.id) = addr /\ f.data = d
    BY <1>1, <1>2, IdBytes
  <1>5. KeyForFrame(f) = PropertyKey(addr, d)
    BY <1>4 DEF KeyForFrame
  <1>6. PropertyKey(addr, d) = k
    <2>1. ~(Len(d) < 2)
      <3>1. Len(d) \in Nat
        BY LenProperties DEF Data8
      <3>2. QED BY <3>1
    <2>2. QED BY <1>2, <2>1 DEF PropertyKey
  <1>7. QED
    BY <1>3, <1>5, <1>6 DEF FiledFor

\* A refused output is filed under its selector, from the other half.
LEMMA RefusalFiled ==
  ASSUME NEW q, NEW addr \in Nat, addr < HIGH, NEW d \in Data8, Len(d) = 2, d[1] = 8, d[2] >= 63,
         KeyOf(q) = <<"p", addr, d[1], d[2]>>
  PROVE  FiledFor(q, [id |-> CanId(PropertyInfo, addr + HIGH), data |-> d])
  <1> DEFINE a == addr + HIGH
             f == [id |-> CanId(PropertyInfo, a), data |-> d]
  <1>1. /\ PropertyInfo \in Nat /\ PropertyInfo < 32
    BY DEF PropertyInfo
  <1>2. a \in Nat /\ a < TwoTo24 /\ IsHigh(a) /\ RealAddr(a) = addr
    BY Halves
  <1> HIDE DEF a
  <1>3. f \in Frames
    BY <1>1, <1>2, FrameIs
  <1>4. ClassOf(f.id) = PropertyInfo /\ AddrOf(f.id) = a /\ f.data = d
    BY <1>1, <1>2, IdBytes
  <1>5. KeyForFrame(f) = PropertyKey(a, d)
    BY <1>4 DEF KeyForFrame
  <1>6. PropertyKey(a, d) = <<"p", addr, d[1], d[2]>>
    <2>1. ~(Len(d) < 2)
      OBVIOUS
    <2>2. QED BY <1>2, <2>1 DEF PropertyKey
  <1>7. QED
    BY <1>3, <1>5, <1>6 DEF FiledFor, a

\* What arrives on a tab's wire is filed by TabKey, told by its tab and kind.
TabFrame(t, k, na, addr, d) ==
  [id |-> WireId(IF na THEN Exchange(t, k).na ELSE Exchange(t, k).info, addr), data |-> d]

\* What arrives on a tab's class is filed by its kind.
LEMMA TabFiled ==
  ASSUME NEW addr \in Nat, addr < HIGH, NEW t \in Tabs, NEW k \in Kinds, NEW na \in BOOLEAN,
         NEW d \in Data8, Len(d) >= 4, NEW f, f = TabFrame(t, k, na, addr, d)
  PROVE  /\ f \in Frames
         /\ k = "Data" /\ ~na /\ Len(d) >= 6 => KeyForFrame(f) = <<"val", addr, t, d[1]>>
         /\ k = "Property" /\ d[1] # 38 => KeyForFrame(f) = <<"prop", t, addr, d[1], d[2]>>
         /\ k = "Property" /\ d[1] = 38 => KeyForFrame(f) = <<"prop", t, addr, 38, d[2], d[4]>>
         /\ k = "Group" /\ d[1] # 3 => KeyForFrame(f) = <<"group", t, addr, d[1], d[2]>>
         /\ k = "Group" /\ d[1] = 3 => KeyForFrame(f) = <<"group", t, addr, 3, d[2], d[4]>>
  <1> DEFINE w == IF na THEN Exchange(t, k).na ELSE Exchange(t, k).info
             a == OnHalf(w, addr)
  <1>1. w \in Wires /\ w.class # PropertyInfo
    BY WiresAre
  <1>2. Answer(w.class, a) = [tab |-> t, kind |-> k, na |-> na]
    BY AnswerTold
  <1>3. f = [id |-> WireId(w, addr), data |-> d]
    BY DEF TabFrame
  <1> HIDE DEF w
  <1>4. /\ WireId(w, addr) = CanId(w.class, a) /\ w.class \in Nat /\ w.class < 32
        /\ a \in Nat /\ a < TwoTo24 /\ RealAddr(a) = addr
    BY <1>1, OnTheWire
  <1> HIDE DEF a
  <1>5. f \in Frames
    BY <1>3, <1>4, FrameIs
  <1>6. ClassOf(f.id) = w.class /\ AddrOf(f.id) = a /\ f.data = d
    BY <1>3, <1>4, IdBytes
  <1>7. KeyForFrame(f) = TabKey(w.class, a, d)
    BY <1>1, <1>6 DEF KeyForFrame
  <1>8. Len(d) \in Nat /\ ~(Len(d) < 2)
    BY LenProperties DEF Data8
  <1>9. /\ k = "Data" /\ ~na /\ Len(d) >= 6 => TabKey(w.class, a, d) = <<"val", addr, t, d[1]>>
        /\ k = "Property" /\ d[1] # 38 => TabKey(w.class, a, d) = <<"prop", t, addr, d[1], d[2]>>
        /\ k = "Property" /\ d[1] = 38 => TabKey(w.class, a, d) = <<"prop", t, addr, 38, d[2], d[4]>>
        /\ k = "Group" /\ d[1] # 3 => TabKey(w.class, a, d) = <<"group", t, addr, d[1], d[2]>>
        /\ k = "Group" /\ d[1] = 3 => TabKey(w.class, a, d) = <<"group", t, addr, 3, d[2], d[4]>>
    <2> DEFINE an == Answer(w.class, a)
    <2>1. an.tab = t /\ an.kind = k /\ (an.na <=> na)
      BY <1>2
    <2> HIDE DEF an
    <2>2. k = "Data" /\ ~na /\ Len(d) >= 6 => TabKey(w.class, a, d) = <<"val", addr, t, d[1]>>
      BY <1>4, <1>8, <2>1 DEF TabKey, an
    <2>3. k = "Property" /\ d[1] # 38 => TabKey(w.class, a, d) = <<"prop", t, addr, d[1], d[2]>>
      BY <1>4, <1>8, <2>1 DEF TabKey, an
    <2>4. k = "Property" /\ d[1] = 38 => TabKey(w.class, a, d) = <<"prop", t, addr, 38, d[2], d[4]>>
      BY <1>4, <1>8, <2>1 DEF TabKey, an
    <2>5. k = "Group" /\ d[1] # 3 => TabKey(w.class, a, d) = <<"group", t, addr, d[1], d[2]>>
      BY <1>4, <1>8, <2>1 DEF TabKey, an
    <2>6. k = "Group" /\ d[1] = 3 => TabKey(w.class, a, d) = <<"group", t, addr, 3, d[2], d[4]>>
      BY <1>4, <1>8, <2>1 DEF TabKey, an
    <2>7. QED BY <2>2, <2>3, <2>4, <2>5, <2>6
  <1>10. QED
    BY <1>5, <1>7, <1>9

\* What a device answers, row by row.
LEMMA AnswerIs ==
  ASSUME NEW q \in Questions, NEW refuses \in BOOLEAN, refuses => MayRefuse(q), q.ask \notin Unanswered
  PROVE  LET f == RequestFrame(q) IN
         /\ AsksOutputs(q) /\ refuses =>
              DeviceAnswer(q, refuses) = [id |-> CanId(PropertyInfo, q.addr + HIGH), data |-> f.data]
         /\ q.ask \in Plain /\ ~(AsksOutputs(q) /\ refuses) =>
              DeviceAnswer(q, refuses) =
                [id |-> CanId(PropertyInfo, q.addr), data |-> SubSeq(f.data, 1, 2) \o <<1, 0>>]
         /\ q.ask \in Chunks =>
              DeviceAnswer(q, refuses) =
                [id |-> CanId(PropertyInfo, q.addr), data |-> SubSeq(f.data, 1, 4) \o <<65, 66, 67, 68>>]
         /\ q.ask \in {"group_name", "group_count", "group_field"} =>
              DeviceAnswer(q, refuses) =
                TabFrame(q.tab, "Group", refuses, q.addr,
                         IF Len(f.data) = 3 THEN f.data \o <<0, 1, 0, 0, 0>> ELSE f.data \o <<1, 0>>)
         /\ q.ask \in {"property", "option"} =>
              DeviceAnswer(q, refuses) =
                TabFrame(q.tab, "Property", refuses, q.addr,
                         IF Len(f.data) = 3 THEN f.data \o <<0, 1, 0, 0, 0>> ELSE f.data \o <<1, 0>>)
         /\ q.ask = "read" =>
              DeviceAnswer(q, refuses) = TabFrame(q.tab, "Data", FALSE, q.addr, f.data \o F32(3))
         /\ q.ask = "write" =>
              DeviceAnswer(q, refuses) = TabFrame(q.tab, "Data", FALSE, q.addr, f.data)
  <1> DEFINE f == RequestFrame(q)
  <1> HIDE DEF f
  <1>1. AsksOutputs(q) => q.ask \in {"output", "select"}
    BY DEF AsksOutputs
  <1>2. q.ask \in {"read", "write"} => ~refuses
    BY <1>1 DEF MayRefuse
  <1>3. AsksOutputs(q) /\ refuses =>
              DeviceAnswer(q, refuses) = [id |-> CanId(PropertyInfo, q.addr + HIGH), data |-> f.data]
    BY <1>1 DEF DeviceAnswer, f
  <1>4. q.ask \in Plain /\ ~(AsksOutputs(q) /\ refuses) =>
              DeviceAnswer(q, refuses) =
                [id |-> CanId(PropertyInfo, q.addr), data |-> SubSeq(f.data, 1, 2) \o <<1, 0>>]
    BY DEF DeviceAnswer, f, Plain
  <1>5. q.ask \in Chunks =>
              DeviceAnswer(q, refuses) =
                [id |-> CanId(PropertyInfo, q.addr), data |-> SubSeq(f.data, 1, 4) \o <<65, 66, 67, 68>>]
    BY <1>1 DEF DeviceAnswer, f, Chunks
  <1>6. q.ask \in {"group_name", "group_count", "group_field"} =>
              DeviceAnswer(q, refuses) =
                TabFrame(q.tab, "Group", refuses, q.addr,
                         IF Len(f.data) = 3 THEN f.data \o <<0, 1, 0, 0, 0>> ELSE f.data \o <<1, 0>>)
    BY <1>1 DEF DeviceAnswer, f, TabFrame
  <1>7. q.ask \in {"property", "option"} =>
              DeviceAnswer(q, refuses) =
                TabFrame(q.tab, "Property", refuses, q.addr,
                         IF Len(f.data) = 3 THEN f.data \o <<0, 1, 0, 0, 0>> ELSE f.data \o <<1, 0>>)
    BY <1>1 DEF DeviceAnswer, f, TabFrame
  <1>8. /\ q.ask = "read" =>
              DeviceAnswer(q, refuses) = TabFrame(q.tab, "Data", FALSE, q.addr, f.data \o F32(3))
        /\ q.ask = "write" =>
              DeviceAnswer(q, refuses) = TabFrame(q.tab, "Data", FALSE, q.addr, f.data)
    BY <1>1, <1>2 DEF DeviceAnswer, f, TabFrame
  <1>9. QED
    BY <1>3, <1>4, <1>5, <1>6, <1>7, <1>8 DEF f

\* An answer about a property finds its question.
LEMMA PlainAnswer ==
  ASSUME NEW q \in Questions, q.ask \in Plain, NEW refuses \in BOOLEAN, refuses => MayRefuse(q)
  PROVE  FiledFor(q, DeviceAnswer(q, refuses))
  <1>0. q.ask \notin Unanswered /\ q.addr \in Nat /\ q.addr < HIGH
    BY Bounds DEF Plain, Unanswered
  <1>1. PICK d : PlainAsk(q, d)
    BY PlainRequest
  <1>2. /\ d \in Data8 /\ d \in Seq(Nat) /\ Len(d) \in Nat /\ Len(d) >= 2 /\ d[1] # 48
        /\ KeyOf(q) = <<"p", q.addr, d[1], d[2]>>
    BY <1>1, LenProperties DEF PlainAsk, Data8
  <1>3. RequestFrame(q).data = d
    BY <1>1 DEF PlainAsk, Ask7
  <1>4. CASE ~(AsksOutputs(q) /\ refuses)
    <2> DEFINE t == <<1, 0>>
               e == SubSeq(d, 1, 2) \o t
    <2>1. DeviceAnswer(q, refuses) = [id |-> CanId(PropertyInfo, q.addr), data |-> e]
      BY <1>0, <1>3, <1>4, AnswerIs
    <2>2. t \in Seq(Nat) /\ Len(t) = 2
      BY Sequences
    <2> HIDE DEF t
    <2>3. e \in Seq(Nat) /\ Len(e) = 2 + Len(t) /\ \A i \in 1..2 : e[i] = d[i]
      BY <1>2, <2>2, HeadStays, 2 \in Nat
    <2> HIDE DEF e
    <2>4. Len(e) = 4 /\ Len(e) <= 8 /\ Len(e) >= 2 /\ e[1] = d[1] /\ e[2] = d[2]
      BY <2>2, <2>3
    <2>5. e \in Data8 /\ Len(e) >= 2 /\ e[1] # 48
      BY <1>2, <2>3, <2>4, ShortData, Zenon
    <2>6. KeyOf(q) = <<"p", q.addr, e[1], e[2]>>
      BY <1>2, <2>4, Zenon
    <2>7. QED
      BY <1>0, <2>1, <2>5, <2>6, PlainFiled
  <1>5. CASE AsksOutputs(q) /\ refuses
    <2>1. DeviceAnswer(q, refuses) = [id |-> CanId(PropertyInfo, q.addr + HIGH), data |-> d]
      BY <1>0, <1>3, <1>5, AnswerIs
    <2>2. \E x \in Nat : x >= 63 /\ RequestFrame(q) = Ask7(q, <<8, x>>)
      <3>1. CASE q.ask = "output"
        <4>1. q.n \in Nat /\ RequestFrame(q) = Ask7(q, <<8, 64 + q.n>>)
          BY <3>1, Bounds, RequestIs, Zenon
        <4>2. 64 + q.n \in Nat /\ 64 + q.n >= 63
          BY <4>1
        <4>3. QED BY <4>1, <4>2, Zenon
      <3>2. CASE q.ask = "select" /\ q.n = Eventables
        <4>1. RequestFrame(q) = Ask7(q, <<8, q.n>>)
          BY <3>2, RequestIs, Zenon
        <4>2. q.n \in Nat /\ q.n >= 63
          BY <3>2 DEF Eventables
        <4>3. QED BY <4>1, <4>2, Zenon
      <3>3. QED
        BY <1>5, <3>1, <3>2 DEF AsksOutputs
    <2>3. PICK x \in Nat : x >= 63 /\ RequestFrame(q) = Ask7(q, <<8, x>>)
      BY <2>2
    <2>4. d = <<8, x>>
      <3>1. RequestFrame(q).data = <<8, x>>
        BY <2>3 DEF Ask7
      <3>2. QED BY <1>3, <3>1
    <2>5. Len(d) = 2 /\ d[1] = 8 /\ d[2] >= 63
      BY <2>3, <2>4
    <2>6. QED
      BY <1>0, <1>2, <2>1, <2>5, RefusalFiled
  <1>6. QED
    BY <1>4, <1>5

Chunk(d, sid, seq) == /\ d \in Data8 /\ Len(d) >= 4 /\ d[1] = 48 /\ d[4] = seq
                      /\ d[2] = Byte(sid, 0) /\ d[3] = Byte(sid, 1)

\* Data of three or four bytes, made longer by the answer.
LEMMA Longer ==
  ASSUME NEW s \in Seq(Nat), NEW t \in Seq(Nat), Len(s) + Len(t) <= 8
  PROVE  s \o t \in Data8 /\ Len(s \o t) = Len(s) + Len(t) /\ \A i \in 1..Len(s) : (s \o t)[i] = s[i]
  <1> DEFINE u == s \o t
  <1>1. u \in Seq(Nat) /\ Len(u) = Len(s) + Len(t) /\ \A i \in 1..Len(s) : u[i] = s[i]
    BY Joined
  <1> HIDE DEF u
  <1>2. u \in Data8
    BY <1>1, ShortData
  <1>3. QED
    BY <1>1, <1>2 DEF u

\* The data of a chunk to store.
LEMMA EightBytes ==
  ASSUME NEW a \in Nat, NEW b \in Nat, NEW c \in Nat, NEW d \in Nat
  PROVE  LET s == <<48, a, b, c, 65, 66, 67, 68>> IN
         s \in Data8 /\ Len(s) = 8 /\ s[1] = 48 /\ s[2] = a /\ s[3] = b /\ s[4] = c
  <1> DEFINE s == <<48, a, b, c, 65, 66, 67, 68>>
  <1>1. s \in Seq(Nat) /\ Len(s) = 8 /\ Len(s) <= 8
    OBVIOUS
  <1>2. s[1] = 48 /\ s[2] = a /\ s[3] = b /\ s[4] = c
    OBVIOUS
  <1> HIDE DEF s
  <1>3. s \in Data8
    BY <1>1, ShortData
  <1>4. QED
    BY <1>1, <1>2, <1>3 DEF s

\* Asking for a chunk and storing one begin alike.
LEMMA ChunkRequest ==
  ASSUME NEW q \in Questions, q.ask \in Chunks
  PROVE  \E d : RequestFrame(q) = Ask7(q, d) /\ Chunk(d, q.sid, q.seq)
  <1>1. q.seq \in Nat /\ q.sid \in StringIds
    BY Bounds, QuestionKinds DEF Chunks
  <1>2. Byte(q.sid, 0) \in Nat /\ Byte(q.sid, 1) \in Nat
    BY <1>1, StringIdBytes
  <1>3. CASE q.ask = "chunk"
    <2> DEFINE d == <<48, Byte(q.sid, 0), Byte(q.sid, 1), q.seq>>
    <2>1. RequestFrame(q) = Ask7(q, d)
      BY <1>3, RequestIs, Zenon
    <2>2. d \in Data8 /\ Len(d) = 4
      BY <1>1, <1>2, FourData, 48 \in Nat
    <2>3. d[1] = 48 /\ d[2] = Byte(q.sid, 0) /\ d[3] = Byte(q.sid, 1) /\ d[4] = q.seq
      OBVIOUS
    <2> HIDE DEF d
    <2>4. Chunk(d, q.sid, q.seq)
      BY <2>2, <2>3 DEF Chunk
    <2>5. QED
      BY <2>1, <2>4, Zenon
  <1>4. CASE q.ask = "store_chunk"
    <2> DEFINE d == <<48, Byte(q.sid, 0), Byte(q.sid, 1), q.seq, 65, 66, 67, 68>>
    <2>1. RequestFrame(q) = Ask7(q, d)
      BY <1>4, RequestIs, Zenon
    <2>2. /\ d \in Data8 /\ Len(d) = 8
          /\ d[1] = 48 /\ d[2] = Byte(q.sid, 0) /\ d[3] = Byte(q.sid, 1) /\ d[4] = q.seq
      BY <1>1, <1>2, EightBytes
    <2> HIDE DEF d
    <2>3. Chunk(d, q.sid, q.seq)
      BY <2>2 DEF Chunk
    <2>4. QED
      BY <2>1, <2>3, Zenon
  <1>5. QED
    BY <1>3, <1>4 DEF Chunks

\* A chunk finds its question.
LEMMA ChunkAnswer ==
  ASSUME NEW q \in Questions, q.ask \in Chunks, NEW refuses \in BOOLEAN, refuses => MayRefuse(q)
  PROVE  FiledFor(q, DeviceAnswer(q, refuses))
  <1>0. /\ q.ask \notin Unanswered /\ q.addr \in Nat /\ q.addr < HIGH /\ q.sid \in StringIds
        /\ KeyOf(q) = <<"str", q.addr, q.sid, q.seq>>
    BY Bounds, QuestionKinds, KeyIs DEF Chunks, Unanswered
  <1>1. PICK d : RequestFrame(q) = Ask7(q, d) /\ Chunk(d, q.sid, q.seq)
    BY ChunkRequest
  <1>2. d \in Seq(Nat) /\ 4 <= Len(d) /\ Len(d) \in Nat
    BY <1>1, LenProperties DEF Chunk, Data8
  <1>3. RequestFrame(q).data = d
    BY <1>1 DEF Ask7
  <1> DEFINE e == SubSeq(d, 1, 4) \o <<65, 66, 67, 68>>
  <1>4. DeviceAnswer(q, refuses) = [id |-> CanId(PropertyInfo, q.addr), data |-> e]
    BY <1>0, <1>3, AnswerIs
  <1>5. e \in Data8 /\ Len(e) = 8 /\ \A i \in 1..4 : e[i] = d[i]
    <2> DEFINE t == <<65, 66, 67, 68>>
    <2>1. t \in Seq(Nat) /\ Len(t) = 4
      BY Sequences
    <2>2. e = SubSeq(d, 1, 4) \o t
      OBVIOUS
    <2> HIDE DEF t, e
    <2>3. e \in Seq(Nat) /\ Len(e) = 4 + Len(t) /\ \A i \in 1..4 : e[i] = d[i]
      BY <1>2, <2>1, <2>2, HeadStays, 4 \in Nat
    <2>4. Len(e) = 8 /\ Len(e) <= 8
      BY <2>1, <2>3
    <2>5. QED
      BY <2>3, <2>4, ShortData, Zenon
  <1> HIDE DEF e
  <1>6. Len(e) >= 4 /\ e[1] = 48 /\ e[2] = Byte(q.sid, 0) /\ e[3] = Byte(q.sid, 1) /\ e[4] = q.seq
    BY <1>1, <1>5 DEF Chunk
  <1>7. e[2] + 256 * e[3] = q.sid
    BY <1>0, <1>6, StringIdBytes
  <1>8. KeyOf(q) = <<"str", q.addr, e[2] + 256 * e[3], e[4]>>
    BY <1>0, <1>6, <1>7, Zenon
  <1>9. QED
    BY <1>0, <1>4, <1>5, <1>6, <1>8, ChunkFiled

\* What an answer says after the question that came with it: its value or text.
More(d) == IF Len(d) = 3 THEN d \o <<0, 1, 0, 0, 0>> ELSE d \o <<1, 0>>

\* An answer keeps the bytes of its question in front.
LEMMA MoreData ==
  ASSUME NEW d \in Seq(Nat), Len(d) \in {3, 4}
  PROVE  /\ More(d) \in Data8 /\ Len(More(d)) >= 4
         /\ \A i \in 1..Len(d) : More(d)[i] = d[i]
  <1>1. CASE Len(d) = 3
    <2> DEFINE t == <<0, 1, 0, 0, 0>>
    <2>1. t \in Seq(Nat) /\ Len(t) = 5
      BY Sequences
    <2>2. More(d) = d \o t
      BY <1>1 DEF More
    <2> HIDE DEF t
    <2>3. Len(d) + Len(t) <= 8 /\ Len(d) + Len(t) >= 4
      BY <1>1, <2>1
    <2>4. QED
      BY <2>1, <2>2, <2>3, Longer
  <1>2. CASE Len(d) = 4
    <2> DEFINE t == <<1, 0>>
    <2>1. t \in Seq(Nat) /\ Len(t) = 2
      BY Sequences
    <2>2. More(d) = d \o t
      BY <1>2 DEF More
    <2> HIDE DEF t
    <2>3. Len(d) + Len(t) <= 8 /\ Len(d) + Len(t) >= 4
      BY <1>2, <2>1
    <2>4. QED
      BY <2>1, <2>2, <2>3, Longer
  <1>3. QED
    BY <1>1, <1>2

\* The same, of three bytes.
LEMMA MoreOfThree ==
  ASSUME NEW a \in Nat, NEW b \in Nat, NEW c \in Nat, NEW d, d = <<a, b, c>>
  PROVE  /\ d \in Data8 /\ More(d) \in Data8 /\ Len(More(d)) >= 4
         /\ More(d)[1] = a /\ More(d)[2] = b
  <1>1. d \in Data8 /\ Len(d) = 3 /\ d[1] = a /\ d[2] = b
    BY ThreeData
  <1>2. d \in Seq(Nat) /\ Len(d) \in {3, 4} /\ 1 \in 1..Len(d) /\ 2 \in 1..Len(d)
    BY <1>1 DEF Data8
  <1>3. /\ More(d) \in Data8 /\ Len(More(d)) >= 4 /\ \A i \in 1..Len(d) : More(d)[i] = d[i]
    BY <1>2, MoreData
  <1>4. QED
    BY <1>1, <1>2, <1>3, Zenon

\* The same, of four bytes.
LEMMA MoreOfFour ==
  ASSUME NEW a \in Nat, NEW b \in Nat, NEW c \in Nat, NEW n \in Nat, NEW d, d = <<a, b, c, n>>
  PROVE  /\ d \in Data8 /\ More(d) \in Data8 /\ Len(More(d)) >= 4
         /\ More(d)[1] = a /\ More(d)[2] = b /\ More(d)[4] = n
  <1>1. d \in Data8 /\ Len(d) = 4 /\ d[1] = a /\ d[2] = b /\ d[4] = n
    BY FourData
  <1>2. d \in Seq(Nat) /\ Len(d) \in {3, 4} /\ 1 \in 1..Len(d) /\ 2 \in 1..Len(d) /\ 4 \in 1..Len(d)
    BY <1>1 DEF Data8
  <1>3. /\ More(d) \in Data8 /\ Len(More(d)) >= 4 /\ \A i \in 1..Len(d) : More(d)[i] = d[i]
    BY <1>2, MoreData
  <1>4. QED
    BY <1>1, <1>2, <1>3, Zenon

\* The data of a question to a tab.
LEMMA OnTabData == ASSUME NEW q, NEW kind, NEW d PROVE OnTab(q, kind, d).data = d
  BY DEF OnTab

\* An answer about a group finds its question.
LEMMA GroupAnswer ==
  ASSUME NEW q \in Questions, q.ask \in {"group_name", "group_count", "group_field"},
         NEW refuses \in BOOLEAN, refuses => MayRefuse(q)
  PROVE  FiledFor(q, DeviceAnswer(q, refuses))
  <1>0. /\ q.ask \notin Unanswered /\ q.addr \in Nat /\ q.addr < HIGH /\ q.tab \in Tabs /\ q.group \in Nat
        /\ q.ask = "group_field" => q.n \in Nat
    BY Bounds DEF Unanswered
  <1> DEFINE d == RequestFrame(q).data
             f == DeviceAnswer(q, refuses)
             e == More(d)
  <1>1. f = TabFrame(q.tab, "Group", refuses, q.addr, e)
    BY <1>0, AnswerIs, Zenon DEF More
  <1> HIDE DEF d, f, e
  <1>2. ASSUME e \in Data8, Len(e) >= 4
        PROVE  /\ f \in Frames
               /\ e[1] # 3 => KeyForFrame(f) = <<"group", q.tab, q.addr, e[1], e[2]>>
               /\ e[1] = 3 => KeyForFrame(f) = <<"group", q.tab, q.addr, 3, e[2], e[4]>>
    <2>1. "Group" \in Kinds
      BY DEF Kinds
    <2>2. QED
      BY <1>0, <1>1, <1>2, <2>1, TabFiled
  <1>3. CASE q.ask = "group_name"
    <2>0. RequestFrame(q) = OnTab(q, "Group", <<40, q.group, 0>>)
      BY <1>3, RequestIs, Zenon
    <2>1. d = <<40, q.group, 0>>
      BY <2>0, OnTabData DEF d
    <2>2. e \in Data8 /\ Len(e) >= 4 /\ e[1] = 40 /\ e[2] = q.group
      BY <1>0, <2>1, MoreOfThree, 40 \in Nat, 0 \in Nat DEF e
    <2>3. KeyOf(q) = <<"group", q.tab, q.addr, 40, q.group>>
      BY <1>3, KeyIs
    <2>4. f \in Frames /\ KeyForFrame(f) = <<"group", q.tab, q.addr, 40, q.group>>
      BY <1>2, <2>2
    <2>5. QED
      BY <2>3, <2>4 DEF FiledFor, f
  <1>4. CASE q.ask = "group_count"
    <2>0. RequestFrame(q) = OnTab(q, "Group", <<7, q.group, 0>>)
      BY <1>4, RequestIs, Zenon
    <2>1. d = <<7, q.group, 0>>
      BY <2>0, OnTabData DEF d
    <2>2. e \in Data8 /\ Len(e) >= 4 /\ e[1] = 7 /\ e[2] = q.group
      BY <1>0, <2>1, MoreOfThree, 7 \in Nat, 0 \in Nat DEF e
    <2>3. KeyOf(q) = <<"group", q.tab, q.addr, 7, q.group>>
      BY <1>4, KeyIs
    <2>4. f \in Frames /\ KeyForFrame(f) = <<"group", q.tab, q.addr, 7, q.group>>
      BY <1>2, <2>2
    <2>5. QED
      BY <2>3, <2>4 DEF FiledFor, f
  <1>5. CASE q.ask = "group_field"
    <2>0. RequestFrame(q) = OnTab(q, "Group", <<3, q.group, 0, q.n>>)
      BY <1>5, RequestIs, Zenon
    <2>1. d = <<3, q.group, 0, q.n>>
      BY <2>0, OnTabData DEF d
    <2>2. e \in Data8 /\ Len(e) >= 4 /\ e[1] = 3 /\ e[2] = q.group /\ e[4] = q.n
      BY <1>0, <1>5, <2>1, MoreOfFour, 3 \in Nat, 0 \in Nat DEF e
    <2>3. KeyOf(q) = <<"group", q.tab, q.addr, 3, q.group, q.n>>
      BY <1>5, KeyIs
    <2>4. f \in Frames /\ KeyForFrame(f) = <<"group", q.tab, q.addr, 3, q.group, q.n>>
      BY <1>2, <2>2, Zenon
    <2>5. QED
      BY <2>3, <2>4 DEF FiledFor, f
  <1>6. QED
    BY <1>3, <1>4, <1>5

\* An answer about a field finds its question.
LEMMA PropertyAnswer ==
  ASSUME NEW q \in Questions, q.ask \in {"property", "option"},
         NEW refuses \in BOOLEAN, refuses => MayRefuse(q)
  PROVE  FiledFor(q, DeviceAnswer(q, refuses))
  <1>0. /\ q.ask \notin Unanswered /\ q.addr \in Nat /\ q.addr < HIGH /\ q.tab \in Tabs /\ q.field \in Nat
        /\ q.ask = "option" => q.n \in Nat
        /\ q.ask = "property" => q.op \in Nat /\ q.op # 38
    BY Bounds DEF Unanswered, PropertyOps
  <1> DEFINE d == RequestFrame(q).data
             f == DeviceAnswer(q, refuses)
             e == More(d)
  <1>1. f = TabFrame(q.tab, "Property", refuses, q.addr, e)
    BY <1>0, AnswerIs, Zenon DEF More
  <1> HIDE DEF d, f, e
  <1>2. ASSUME e \in Data8, Len(e) >= 4
        PROVE  /\ f \in Frames
               /\ e[1] # 38 => KeyForFrame(f) = <<"prop", q.tab, q.addr, e[1], e[2]>>
               /\ e[1] = 38 => KeyForFrame(f) = <<"prop", q.tab, q.addr, 38, e[2], e[4]>>
    <2>1. "Property" \in Kinds
      BY DEF Kinds
    <2>2. QED
      BY <1>0, <1>1, <1>2, <2>1, TabFiled
  <1>3. CASE q.ask = "property"
    <2>0. RequestFrame(q) = OnTab(q, "Property", <<q.op, q.field, 0>>)
      BY <1>3, RequestIs, Zenon
    <2>1. d = <<q.op, q.field, 0>>
      BY <2>0, OnTabData DEF d
    <2>2. e \in Data8 /\ Len(e) >= 4 /\ e[1] = q.op /\ e[2] = q.field
      BY <1>0, <1>3, <2>1, MoreOfThree, 0 \in Nat DEF e
    <2>3. KeyOf(q) = <<"prop", q.tab, q.addr, q.op, q.field>>
      BY <1>3, KeyIs
    <2>4. f \in Frames /\ KeyForFrame(f) = <<"prop", q.tab, q.addr, q.op, q.field>>
      BY <1>0, <1>3, <1>2, <2>2, Zenon
    <2>5. QED
      BY <2>3, <2>4 DEF FiledFor, f
  <1>4. CASE q.ask = "option"
    <2>0. RequestFrame(q) = OnTab(q, "Property", <<38, q.field, 0, q.n>>)
      BY <1>4, RequestIs, Zenon
    <2>1. d = <<38, q.field, 0, q.n>>
      BY <2>0, OnTabData DEF d
    <2>2. e \in Data8 /\ Len(e) >= 4 /\ e[1] = 38 /\ e[2] = q.field /\ e[4] = q.n
      BY <1>0, <1>4, <2>1, MoreOfFour, 38 \in Nat, 0 \in Nat DEF e
    <2>3. KeyOf(q) = <<"prop", q.tab, q.addr, 38, q.field, q.n>>
      BY <1>4, KeyIs
    <2>4. f \in Frames /\ KeyForFrame(f) = <<"prop", q.tab, q.addr, 38, q.field, q.n>>
      BY <1>2, <2>2, Zenon
    <2>5. QED
      BY <2>3, <2>4 DEF FiledFor, f
  <1>5. QED
    BY <1>3, <1>4

\* A value finds its question, and the echo of a write says what was written.
LEMMA ValueAnswer ==
  ASSUME NEW q \in Questions, q.ask \in {"read", "write"},
         NEW refuses \in BOOLEAN, refuses => MayRefuse(q)
  PROVE  /\ FiledFor(q, DeviceAnswer(q, refuses))
         /\ q.ask = "write" => SubSeq(DeviceAnswer(q, refuses).data, 3, 6) = F32(Written(q))
  <1>0. /\ q.ask \notin Unanswered /\ q.addr \in Nat /\ q.addr < HIGH /\ q.tab \in Tabs /\ q.field \in Nat
        /\ q.ask = "write" => Written(q) \in Nat /\ Written(q) < TwoTo24
        /\ KeyOf(q) = <<"val", q.addr, q.tab, q.field>>
    BY Bounds, KeyIs DEF Unanswered
  <1>1. \E n \in Nat : \E e :
          /\ n < TwoTo24 /\ WriteOf(e, q.field, n)
          /\ DeviceAnswer(q, refuses) = TabFrame(q.tab, "Data", FALSE, q.addr, e)
          /\ q.ask = "write" => n = Written(q)
    <2>1. CASE q.ask = "read"
      <3> DEFINE e == RequestFrame(q).data \o F32(3)
      <3>1. DeviceAnswer(q, refuses) = TabFrame(q.tab, "Data", FALSE, q.addr, e)
        BY <1>0, <2>1, AnswerIs
      <3>2. RequestFrame(q).data = <<q.field, 0>>
        <4>1. RequestFrame(q) = OnTab(q, "Data", <<q.field, 0>>)
          BY <2>1, RequestIs, Zenon
        <4>2. QED BY <4>1, OnTabData
      <3>3. WriteOf(e, q.field, 3)
        BY <3>2, Zenon DEF WriteOf
      <3>4. 3 \in Nat /\ 3 < TwoTo24
        BY SMT DEF TwoTo24
      <3> HIDE DEF e
      <3>5. QED
        BY <2>1, <3>1, <3>3, <3>4
    <2>2. CASE q.ask = "write"
      <3> DEFINE e == RequestFrame(q).data
      <3>1. DeviceAnswer(q, refuses) = TabFrame(q.tab, "Data", FALSE, q.addr, e)
        BY <1>0, <2>2, AnswerIs
      <3>2. e = <<q.field, 0>> \o F32(Written(q))
        <4> DEFINE w == <<q.field, 0>> \o F32(Written(q))
        <4>1. RequestFrame(q) = OnTab(q, "Data", w)
          BY <2>2, RequestIs, Zenon
        <4> HIDE DEF w
        <4>2. e = w
          BY <4>1, OnTabData
        <4>3. QED BY <4>2 DEF w
      <3>3. WriteOf(e, q.field, Written(q))
        BY <3>2, Zenon DEF WriteOf
      <3> HIDE DEF e
      <3>4. QED
        BY <1>0, <2>2, <3>1, <3>3
    <2>3. QED
      BY <2>1, <2>2
  <1>w. PICK n \in Nat : \E e :
          /\ n < TwoTo24 /\ WriteOf(e, q.field, n)
          /\ DeviceAnswer(q, refuses) = TabFrame(q.tab, "Data", FALSE, q.addr, e)
          /\ q.ask = "write" => n = Written(q)
    BY <1>1
  <1>2. PICK e : /\ n < TwoTo24 /\ WriteOf(e, q.field, n)
                 /\ DeviceAnswer(q, refuses) = TabFrame(q.tab, "Data", FALSE, q.addr, e)
                 /\ q.ask = "write" => n = Written(q)
    BY <1>w
  <1> DEFINE f == DeviceAnswer(q, refuses)
  <1>3. e \in Data8 /\ Len(e) = 6 /\ e[1] = q.field /\ SubSeq(e, 3, 6) = F32(n)
    BY <1>0, <1>2, WriteData
  <1>4. Len(e) >= 4 /\ Len(e) >= 6 /\ "Data" \in Kinds
    BY <1>3 DEF Kinds
  <1>5. f.data = e
    BY <1>2 DEF TabFrame
  <1> HIDE DEF f
  <1>6. f \in Frames /\ KeyForFrame(f) = <<"val", q.addr, q.tab, e[1]>>
    <2> DEFINE na == FALSE
               k == "Data"
    <2>1. f = TabFrame(q.tab, k, na, q.addr, e) /\ na \in BOOLEAN /\ ~na /\ k \in Kinds /\ k = "Data"
      BY <1>2, <1>4, Zenon DEF f
    <2> HIDE DEF na, k
    <2>2. /\ f \in Frames
          /\ k = "Data" /\ ~na /\ Len(e) >= 6 => KeyForFrame(f) = <<"val", q.addr, q.tab, e[1]>>
      <3>0. q.addr \in Nat /\ q.addr < HIGH /\ q.tab \in Tabs /\ e \in Data8 /\ Len(e) >= 4
        BY <1>0, <1>3, <1>4
      <3>1. QED BY <3>0, <2>1, TabFiled
    <2>3. QED
      BY <1>4, <2>1, <2>2
  <1>7. FiledFor(q, f)
    BY <1>0, <1>3, <1>6 DEF FiledFor
  <1>8. QED
    BY <1>2, <1>3, <1>5, <1>7 DEF f

-----------------------------------------------------------------------------
(* No two questions share a key but on purpose.                            *)

GroupAsks == {"group_name", "group_count", "group_field"}
PropAsks == {"property", "option"}
ValueAsks == {"read", "write"}

\* The parts of a key.
LEMMA KeyParts ==
  ASSUME NEW q \in Questions
  PROVE  /\ q.ask \in Plain =>
              /\ KeyOf(q)[1] = "p" /\ KeyOf(q)[2] = q.addr
              /\ q.ask = "fw" => KeyOf(q)[3] = 130 /\ KeyOf(q)[4] = q.n
              /\ q.ask = "prop" => KeyOf(q)[3] = 9 /\ KeyOf(q)[4] = q.n
              /\ q.ask = "select" => KeyOf(q)[3] = 8 /\ KeyOf(q)[4] = q.n
              /\ q.ask = "output" => KeyOf(q)[3] = 8 /\ KeyOf(q)[4] = 64 + q.n
              /\ q.ask \in {"login_read", "login", "logout"} => KeyOf(q)[3] = 8 /\ KeyOf(q)[4] = 25
         /\ q.ask \in Chunks =>
              KeyOf(q)[1] = "str" /\ KeyOf(q)[2] = q.addr /\ KeyOf(q)[3] = q.sid /\ KeyOf(q)[4] = q.seq
         /\ q.ask \in GroupAsks =>
              /\ KeyOf(q)[1] = "group" /\ KeyOf(q)[2] = q.tab /\ KeyOf(q)[3] = q.addr /\ KeyOf(q)[5] = q.group
              /\ q.ask = "group_name" => KeyOf(q)[4] = 40
              /\ q.ask = "group_count" => KeyOf(q)[4] = 7
              /\ q.ask = "group_field" => KeyOf(q)[4] = 3 /\ KeyOf(q)[6] = q.n
         /\ q.ask \in PropAsks =>
              /\ KeyOf(q)[1] = "prop" /\ KeyOf(q)[2] = q.tab /\ KeyOf(q)[3] = q.addr /\ KeyOf(q)[5] = q.field
              /\ q.ask = "property" => KeyOf(q)[4] = q.op
              /\ q.ask = "option" => KeyOf(q)[4] = 38 /\ KeyOf(q)[6] = q.n
         /\ q.ask \in ValueAsks =>
              KeyOf(q)[1] = "val" /\ KeyOf(q)[2] = q.addr /\ KeyOf(q)[3] = q.tab /\ KeyOf(q)[4] = q.field
         /\ q.ask \in Unanswered => KeyOf(q)[1] = q.ask
  <1>1. q.ask \in Plain =>
              /\ KeyOf(q)[1] = "p" /\ KeyOf(q)[2] = q.addr
              /\ q.ask = "fw" => KeyOf(q)[3] = 130 /\ KeyOf(q)[4] = q.n
              /\ q.ask = "prop" => KeyOf(q)[3] = 9 /\ KeyOf(q)[4] = q.n
              /\ q.ask = "select" => KeyOf(q)[3] = 8 /\ KeyOf(q)[4] = q.n
              /\ q.ask = "output" => KeyOf(q)[3] = 8 /\ KeyOf(q)[4] = 64 + q.n
              /\ q.ask \in {"login_read", "login", "logout"} => KeyOf(q)[3] = 8 /\ KeyOf(q)[4] = 25
    BY KeyIs DEF Plain
  <1>2. q.ask \in Chunks =>
              KeyOf(q)[1] = "str" /\ KeyOf(q)[2] = q.addr /\ KeyOf(q)[3] = q.sid /\ KeyOf(q)[4] = q.seq
    BY KeyIs DEF Chunks
  <1>3. q.ask \in GroupAsks =>
              /\ KeyOf(q)[1] = "group" /\ KeyOf(q)[2] = q.tab /\ KeyOf(q)[3] = q.addr /\ KeyOf(q)[5] = q.group
              /\ q.ask = "group_name" => KeyOf(q)[4] = 40
              /\ q.ask = "group_count" => KeyOf(q)[4] = 7
              /\ q.ask = "group_field" => KeyOf(q)[4] = 3 /\ KeyOf(q)[6] = q.n
    BY KeyIs DEF GroupAsks
  <1>4. q.ask \in PropAsks =>
              /\ KeyOf(q)[1] = "prop" /\ KeyOf(q)[2] = q.tab /\ KeyOf(q)[3] = q.addr /\ KeyOf(q)[5] = q.field
              /\ q.ask = "property" => KeyOf(q)[4] = q.op
              /\ q.ask = "option" => KeyOf(q)[4] = 38 /\ KeyOf(q)[6] = q.n
    BY KeyIs DEF PropAsks
  <1>5. /\ q.ask \in ValueAsks =>
              KeyOf(q)[1] = "val" /\ KeyOf(q)[2] = q.addr /\ KeyOf(q)[3] = q.tab /\ KeyOf(q)[4] = q.field
        /\ q.ask \in Unanswered => KeyOf(q)[1] = q.ask
    BY KeyIs DEF ValueAsks, Unanswered
  <1>6. QED
    BY <1>1, <1>2, <1>3, <1>4, <1>5

\* Two questions with one key share it on purpose.
LEMMA KeysTold ==
  ASSUME NEW q \in Questions, NEW r \in Questions, r.ask \notin Unanswered, KeyOf(q) = KeyOf(r)
  PROVE  SharesKey(q, r)
  <1>0. /\ q.ask \in Plain \cup Chunks \cup GroupAsks \cup PropAsks \cup ValueAsks \cup Unanswered
        /\ r.ask \in Plain \cup Chunks \cup GroupAsks \cup PropAsks \cup ValueAsks
    BY QuestionKinds DEF Plain, Chunks, GroupAsks, PropAsks, ValueAsks, Unanswered
  <1>k. KeyOf(q)[1] = KeyOf(r)[1] /\ KeyOf(q)[2] = KeyOf(r)[2] /\ KeyOf(q)[3] = KeyOf(r)[3]
        /\ KeyOf(q)[4] = KeyOf(r)[4] /\ KeyOf(q)[5] = KeyOf(r)[5] /\ KeyOf(q)[6] = KeyOf(r)[6]
    OBVIOUS
  <1>h. /\ q.ask \in Plain => KeyOf(q)[1] = "p"
        /\ q.ask \in Chunks => KeyOf(q)[1] = "str"
        /\ q.ask \in GroupAsks => KeyOf(q)[1] = "group"
        /\ q.ask \in PropAsks => KeyOf(q)[1] = "prop"
        /\ q.ask \in ValueAsks => KeyOf(q)[1] = "val"
        /\ q.ask \in Unanswered => KeyOf(q)[1] \in {"commit", "heartbeat"}
    BY KeyParts DEF Unanswered
  <1>1. CASE r.ask \in Plain
    <2>1. q.ask \in Plain
      <3>1. KeyOf(q)[1] = "p"
        BY <1>1, <1>k, KeyParts
      <3>2. QED BY <3>1, <1>0, <1>h
    <2>2. q.addr = r.addr
      BY <1>1, <1>k, <2>1, KeyParts
    <2>3. /\ q.ask \in {"fw", "prop", "select", "output"} => q.n \in Nat
          /\ r.ask \in {"fw", "prop", "select", "output"} => r.n \in Nat
          /\ q.ask = "select" => q.n \in Selectors
          /\ r.ask = "select" => r.n \in Selectors
      BY Bounds, QuestionKinds
    <2>4. \A n \in Selectors, m \in Nat : n # 25 /\ n # 64 + m
      BY DEF Selectors
    <2>5. \A m \in Nat : 25 # 64 + m
      OBVIOUS
    <2>6. \A m, n \in Nat : 64 + m = 64 + n => m = n
      OBVIOUS
    <2>a. \/ q.ask = r.ask /\ q.ask \in {"fw", "prop", "select", "output"} /\ q.n = r.n
          \/ {q.ask, r.ask} \subseteq {"login_read", "login", "logout"}
      <3> DEFINE kq == KeyOf(q)
                 kr == KeyOf(r)
      <3>1. /\ q.ask = "fw" => kq[3] = 130 /\ kq[4] = q.n
            /\ q.ask = "prop" => kq[3] = 9 /\ kq[4] = q.n
            /\ q.ask = "select" => kq[3] = 8 /\ kq[4] = q.n
            /\ q.ask = "output" => kq[3] = 8 /\ kq[4] = 64 + q.n
            /\ q.ask \in {"login_read", "login", "logout"} => kq[3] = 8 /\ kq[4] = 25
        BY <2>1, KeyParts
      <3>2. /\ r.ask = "fw" => kr[3] = 130 /\ kr[4] = r.n
            /\ r.ask = "prop" => kr[3] = 9 /\ kr[4] = r.n
            /\ r.ask = "select" => kr[3] = 8 /\ kr[4] = r.n
            /\ r.ask = "output" => kr[3] = 8 /\ kr[4] = 64 + r.n
            /\ r.ask \in {"login_read", "login", "logout"} => kr[3] = 8 /\ kr[4] = 25
        BY <1>1, KeyParts
      <3>3. kq[3] = kr[3] /\ kq[4] = kr[4]
        BY <1>k
      <3> HIDE DEF kq, kr
      <3>4. QED
        BY <1>1, <2>1, <2>3, <2>4, <2>5, <2>6, <3>1, <3>2, <3>3 DEF Plain
    <2>7. ASSUME q.ask = r.ask, q.ask \in {"fw", "prop", "select", "output"}, q.n = r.n
          PROVE  q = r
      <3>1. CASE q.ask \in {"fw", "prop"}
        BY <2>2, <2>7, <3>1, QuestionKinds
      <3>2. CASE q.ask = "select"
        <4>1. q \in [ask : {"select"}, addr : Addrs, n : Selectors]
          BY <3>2, QuestionKinds
        <4>2. r \in [ask : {"select"}, addr : Addrs, n : Selectors]
          BY <2>7, <3>2, QuestionKinds
        <4>3. QED BY <2>2, <2>7, <3>2, <4>1, <4>2
      <3>3. CASE q.ask = "output"
        <4>1. q \in [ask : {"output"}, addr : Addrs, n : Outputs]
          BY <3>3, QuestionKinds
        <4>2. r \in [ask : {"output"}, addr : Addrs, n : Outputs]
          BY <2>7, <3>3, QuestionKinds
        <4>3. QED BY <2>2, <2>7, <3>3, <4>1, <4>2
      <3>4. QED BY <2>7, <3>1, <3>2, <3>3
    <2>8. QED
      BY <2>2, <2>a, <2>7 DEF SharesKey
  <1>2. CASE r.ask \in Chunks
    <2>1. q.ask \in Chunks
      <3>1. KeyOf(q)[1] = "str"
        BY <1>2, <1>k, KeyParts
      <3>2. QED BY <3>1, <1>0, <1>h
    <2>2. q.addr = r.addr /\ q.sid = r.sid /\ q.seq = r.seq
      BY <1>2, <1>k, <2>1, KeyParts
    <2>3. QED
      BY <1>2, <2>1, <2>2 DEF SharesKey, Chunks
  <1>3. CASE r.ask \in GroupAsks
    <2>1. q.ask \in GroupAsks
      <3>1. KeyOf(q)[1] = "group"
        BY <1>3, <1>k, KeyParts
      <3>2. QED BY <3>1, <1>0, <1>h
    <2>2. q.addr = r.addr /\ q.tab = r.tab /\ q.group = r.group
      BY <1>3, <1>k, <2>1, KeyParts
    <2>3. /\ q.ask = "group_name" => KeyOf(q)[4] = 40
          /\ q.ask = "group_count" => KeyOf(q)[4] = 7
          /\ q.ask = "group_field" => KeyOf(q)[4] = 3 /\ KeyOf(q)[6] = q.n
      BY <2>1, KeyParts
    <2>4. /\ r.ask = "group_name" => KeyOf(r)[4] = 40
          /\ r.ask = "group_count" => KeyOf(r)[4] = 7
          /\ r.ask = "group_field" => KeyOf(r)[4] = 3 /\ KeyOf(r)[6] = r.n
      BY <1>3, KeyParts
    <2>5. q.ask = r.ask /\ (q.ask = "group_field" => q.n = r.n)
      BY <1>3, <1>k, <2>1, <2>3, <2>4 DEF GroupAsks
    <2>6. q = r
      <3>1. CASE q.ask \in {"group_name", "group_count"}
        BY <2>2, <2>5, <3>1, QuestionKinds
      <3>2. CASE q.ask = "group_field"
        <4>1. q \in [ask : {"group_field"}, addr : Addrs, tab : Tabs, group : Indices, n : Indices]
          BY <3>2, QuestionKinds
        <4>2. r \in [ask : {"group_field"}, addr : Addrs, tab : Tabs, group : Indices, n : Indices]
          BY <2>5, <3>2, QuestionKinds
        <4>3. QED BY <2>2, <2>5, <3>2, <4>1, <4>2
      <3>3. QED BY <2>1, <3>1, <3>2 DEF GroupAsks
    <2>7. QED
      BY <2>6 DEF SharesKey
  <1>4. CASE r.ask \in PropAsks
    <2>1. q.ask \in PropAsks
      <3>1. KeyOf(q)[1] = "prop"
        BY <1>4, <1>k, KeyParts
      <3>2. QED BY <3>1, <1>0, <1>h
    <2>2. q.addr = r.addr /\ q.tab = r.tab /\ q.field = r.field
      BY <1>4, <1>k, <2>1, KeyParts
    <2>3. /\ q.ask = "property" => KeyOf(q)[4] = q.op /\ q.op # 38
          /\ q.ask = "option" => KeyOf(q)[4] = 38 /\ KeyOf(q)[6] = q.n
      BY <2>1, KeyParts, Bounds DEF PropertyOps
    <2>4. /\ r.ask = "property" => KeyOf(r)[4] = r.op /\ r.op # 38
          /\ r.ask = "option" => KeyOf(r)[4] = 38 /\ KeyOf(r)[6] = r.n
      BY <1>4, KeyParts, Bounds DEF PropertyOps
    <2>5. /\ q.ask = r.ask /\ (q.ask = "option" => q.n = r.n)
          /\ q.ask = "property" => q.op = r.op
      BY <1>4, <1>k, <2>1, <2>3, <2>4 DEF PropAsks
    <2>6. q = r
      <3>1. CASE q.ask = "property"
        <4>1. q \in [ask : {"property"}, addr : Addrs, tab : Tabs, op : PropertyOps, field : Indices]
          BY <3>1, QuestionKinds
        <4>2. r \in [ask : {"property"}, addr : Addrs, tab : Tabs, op : PropertyOps, field : Indices]
          BY <2>5, <3>1, QuestionKinds
        <4>3. QED BY <2>2, <2>5, <3>1, <4>1, <4>2
      <3>2. CASE q.ask = "option"
        <4>1. q \in [ask : {"option"}, addr : Addrs, tab : Tabs, field : Indices, n : Indices]
          BY <3>2, QuestionKinds
        <4>2. r \in [ask : {"option"}, addr : Addrs, tab : Tabs, field : Indices, n : Indices]
          BY <2>5, <3>2, QuestionKinds
        <4>3. QED BY <2>2, <2>5, <3>2, <4>1, <4>2
      <3>3. QED BY <2>1, <3>1, <3>2 DEF PropAsks
    <2>7. QED
      BY <2>6 DEF SharesKey
  <1>5. CASE r.ask \in ValueAsks
    <2>1. q.ask \in ValueAsks
      <3>1. KeyOf(q)[1] = "val"
        BY <1>5, <1>k, KeyParts
      <3>2. QED BY <3>1, <1>0, <1>h
    <2>2. q.addr = r.addr /\ q.tab = r.tab /\ q.field = r.field
      BY <1>5, <1>k, <2>1, KeyParts
    <2>3. QED
      BY <1>5, <2>1, <2>2 DEF SharesKey, ValueAsks
  <1>6. QED
    BY <1>0, <1>1, <1>2, <1>3, <1>4, <1>5

-----------------------------------------------------------------------------
(* Everything that is asked fits a frame, and every frame survives its report.*)

\* A frame comes out of its report as it went in.
LEMMA FrameCarried ==
  ASSUME NEW f \in Frames
  PROVE  ParseReport(BuildReport(f)) = f /\ ParseReport(Marked(BuildReport(f))) = f
  <1>1. PICK class \in Nat, addr \in Nat : class < 32 /\ addr < TwoTo24 /\ f.id = CanId(class, addr)
    BY DEF Frames
  <1>2. f \in [id : Nat, data : Data8]
    BY DEF Frames
  <1>3. f = [id |-> CanId(class, addr), data |-> f.data] /\ f.data \in Data8
    BY <1>1, <1>2
  <1>4. f.data \in Seq(Nat) /\ Len(f.data) <= 8
    BY <1>3 DEF Data8
  <1> DEFINE b == BuildReport(f)
             m == Marked(BuildReport(f))
  <1>5. ParseReport(b) = f
    BY <1>1, <1>3, <1>4, Carried
  <1>6. ParseReport(m) = f
    BY <1>1, <1>3, <1>4, Carried
  <1>7. QED
    BY <1>5, <1>6

NamesWriter(d, writer) ==
  /\ AddrForBusId(<<d[3], d[4] + 256 * d[5] + 65536 * d[6]>>) = writer
  /\ d[3] \in 10..30

\* The BusID that a commit carries is its writer's, which is read back from it.
LEMMA CommitSent ==
  ASSUME NEW q \in Questions, q.ask = "commit", NEW d, CommitOf(d, q.field, BusIdForAddr(q.writer))
  PROVE  d \in Data8 /\ NamesWriter(d, q.writer)
  <1> DEFINE w == q.writer
             b1 == (w % TwoTo24) \div TwoTo18
             b2 == w % TwoTo18
             busId == BusIdForAddr(w)
  <1>1. w \in Nat /\ w < HIGH /\ IsValidBusId(busId) /\ q.field \in Nat
    <2>1. w \in Writers
      BY QuestionKinds
    <2>2. QED
      BY <2>1, CodecAssumption, Bounds DEF Writers, CodecAssumption
  <1> HIDE DEF w
  <1>2. busId[1] = b1 /\ busId[2] = b2
    BY DEF BusIdForAddr
  <1>3. b1 \in 10..30
    <2>1. busId[1] \in 10..30
      BY <1>1 DEF IsValidBusId
    <2>2. QED
      BY <1>2, <2>1
  <1>4. b1 \in Nat /\ b2 \in Nat /\ b2 < TwoTo18 /\ b1 * TwoTo18 + b2 = w
    <2>1. w < TwoTo24
      BY <1>1, Halves
    <2>2. QED
      BY <1>1, <2>1, SMT DEF TwoTo18, TwoTo24
  <1> HIDE DEF b1, b2, busId
  <1>5. CommitOf(d, q.field, busId)
    BY DEF busId, w
  <1>6. d \in Data8 /\ d[3] = busId[1] /\ d[4] + 256 * d[5] + 65536 * d[6] = busId[2]
    BY <1>1, <1>2, <1>4, <1>5, CommitData
  <1>7. AddrForBusId(<<d[3], d[4] + 256 * d[5] + 65536 * d[6]>>) = w
    <2> DEFINE lo == d[4] + 256 * d[5] + 65536 * d[6]
    <2>1. d[3] = b1 /\ lo = b2
      BY <1>2, <1>6
    <2> HIDE DEF lo
    <2>2. AddrForBusId(<<d[3], lo>>) = b1 * TwoTo18 + b2
      BY <2>1 DEF AddrForBusId
    <2>3. QED
      BY <1>4, <2>2 DEF lo
  <1>8. QED
    BY <1>2, <1>3, <1>6, <1>7 DEF w, NamesWriter

\* Whatever is asked fits a frame.
LEMMA RequestGoes ==
  ASSUME NEW q \in Questions
  PROVE  RequestFrame(q) \in Frames
  <1>0. q.addr \in Nat /\ q.addr < HIGH /\ q.addr < TwoTo24
    BY Bounds, Halves
  <1>1. CASE q.ask \in Plain
    BY <1>1, PlainRequest, Ask7IsFrame DEF PlainAsk
  <1>2. CASE q.ask \in Chunks
    BY <1>2, ChunkRequest, Ask7IsFrame DEF Chunk
  <1>3. CASE q.ask \in GroupAsks
    <2>0. q.tab \in Tabs /\ q.group \in Nat /\ (q.ask = "group_field" => q.n \in Nat)
      BY <1>3, Bounds DEF GroupAsks
    <2>1. CASE q.ask = "group_name"
      <3>1. RequestFrame(q) = OnTab(q, "Group", <<40, q.group, 0>>)
        BY <2>1, RequestIs, Zenon
      <3>2. <<40, q.group, 0>> \in Data8
        BY <2>0, ThreeData, 40 \in Nat, 0 \in Nat
      <3>3. QED BY <2>0, <3>1, <3>2, OnTabIsFrame DEF Kinds
    <2>2. CASE q.ask = "group_count"
      <3>1. RequestFrame(q) = OnTab(q, "Group", <<7, q.group, 0>>)
        BY <2>2, RequestIs, Zenon
      <3>2. <<7, q.group, 0>> \in Data8
        BY <2>0, ThreeData, 7 \in Nat, 0 \in Nat
      <3>3. QED BY <2>0, <3>1, <3>2, OnTabIsFrame DEF Kinds
    <2>3. CASE q.ask = "group_field"
      <3>1. RequestFrame(q) = OnTab(q, "Group", <<3, q.group, 0, q.n>>)
        BY <2>3, RequestIs, Zenon
      <3>2. <<3, q.group, 0, q.n>> \in Data8
        BY <2>0, <2>3, FourData, 3 \in Nat, 0 \in Nat
      <3>3. QED BY <2>0, <3>1, <3>2, OnTabIsFrame DEF Kinds
    <2>4. QED
      BY <1>3, <2>1, <2>2, <2>3 DEF GroupAsks
  <1>4. CASE q.ask \in PropAsks
    <2>0. q.tab \in Tabs /\ q.field \in Nat /\ (q.ask = "option" => q.n \in Nat)
          /\ (q.ask = "property" => q.op \in Nat)
      BY <1>4, Bounds DEF PropAsks
    <2>1. CASE q.ask = "property"
      <3>1. RequestFrame(q) = OnTab(q, "Property", <<q.op, q.field, 0>>)
        BY <2>1, RequestIs, Zenon
      <3>2. <<q.op, q.field, 0>> \in Data8
        BY <2>0, <2>1, ThreeData, 0 \in Nat
      <3>3. QED BY <2>0, <3>1, <3>2, OnTabIsFrame DEF Kinds
    <2>2. CASE q.ask = "option"
      <3>1. RequestFrame(q) = OnTab(q, "Property", <<38, q.field, 0, q.n>>)
        BY <2>2, RequestIs, Zenon
      <3>2. <<38, q.field, 0, q.n>> \in Data8
        BY <2>0, <2>2, FourData, 38 \in Nat, 0 \in Nat
      <3>3. QED BY <2>0, <3>1, <3>2, OnTabIsFrame DEF Kinds
    <2>3. QED
      BY <1>4, <2>1, <2>2 DEF PropAsks
  <1>5. CASE q.ask = "read"
    <2>0. q.tab \in Tabs /\ q.field \in Nat
      BY <1>5, Bounds
    <2>1. RequestFrame(q) = OnTab(q, "Data", <<q.field, 0>>)
      BY <1>5, RequestIs, Zenon
    <2>2. <<q.field, 0>> \in Data8
      BY <2>0, TwoData, 0 \in Nat
    <2>3. QED BY <2>0, <2>1, <2>2, OnTabIsFrame DEF Kinds
  <1>6. CASE q.ask = "write"
    <2>0. q.tab \in Tabs /\ q.field \in Nat /\ Written(q) \in Nat /\ Written(q) < TwoTo24
      BY <1>6, Bounds
    <2> DEFINE d == <<q.field, 0>> \o F32(Written(q))
    <2>1. RequestFrame(q) = OnTab(q, "Data", d)
      BY <1>6, RequestIs, Zenon
    <2>2. WriteOf(d, q.field, Written(q))
      BY Zenon DEF WriteOf
    <2> HIDE DEF d
    <2>3. d \in Data8
      BY <2>0, <2>2, WriteData
    <2>4. QED BY <2>0, <2>1, <2>3, OnTabIsFrame DEF Kinds
  <1>7. CASE q.ask = "commit"
    <2> DEFINE d == <<q.field, 0>> \o CommitValue(BusIdForAddr(q.writer))
    <2>1. RequestFrame(q) = [id |-> CanId(24, q.addr), data |-> d]
      BY <1>7, RequestIs, Zenon
    <2>2. CommitOf(d, q.field, BusIdForAddr(q.writer))
      BY Zenon DEF CommitOf
    <2> HIDE DEF d
    <2>3. d \in Data8
      BY <1>7, <2>2, CommitSent, Zenon
    <2>4. QED
      BY <1>0, <2>1, <2>3, FrameIs, 24 \in Nat, 24 < 32
  <1>8. CASE q.ask = "heartbeat"
    <2> DEFINE d == <<>>
    <2>1. d \in Seq(Nat) /\ Len(d) = 0 /\ Len(d) <= 8
      OBVIOUS
    <2>2. RequestFrame(q) = [id |-> CanId(5, q.addr), data |-> d]
      BY <1>8, RequestIs
    <2> HIDE DEF d
    <2>3. QED
      BY <1>0, <2>1, <2>2, ShortData, FrameIs, 5 \in Nat, 5 < 32
  <1>9. QED
    BY <1>1, <1>2, <1>3, <1>4, <1>5, <1>6, <1>7, <1>8, QuestionKinds
    DEF Plain, Chunks, GroupAsks, PropAsks

-----------------------------------------------------------------------------
(* An exchange, from question to filing.                                   *)

\* Every answer fits a frame and finds its question.
LEMMA AnswerGoes ==
  ASSUME NEW q \in Questions, NEW refuses \in BOOLEAN, refuses => MayRefuse(q), q.ask \notin Unanswered
  PROVE  /\ FiledFor(q, DeviceAnswer(q, refuses))
         /\ q.ask = "write" => SubSeq(DeviceAnswer(q, refuses).data, 3, 6) = F32(Written(q))
  <1>1. q.ask \in Plain \cup Chunks \cup GroupAsks \cup PropAsks \cup ValueAsks
    BY QuestionKinds DEF Plain, Chunks, GroupAsks, PropAsks, ValueAsks, Unanswered
  <1>2. q.ask \notin ValueAsks => q.ask # "write"
    BY DEF ValueAsks
  <1>3. QED
    BY <1>1, <1>2, PlainAnswer, ChunkAnswer, GroupAnswer, PropertyAnswer, ValueAnswer
    DEF Plain, Chunks, GroupAsks, PropAsks, ValueAsks

\* A switch is written as one or zero, and read as on or off.
LEMMA SwitchReads == (\E i \in 1..4 : F32(1)[i] # 0) /\ ~(\E i \in 1..4 : F32(0)[i] # 0)
  <1>1. F32Bits(0) = 0
    BY DEF F32Bits
  <1>2. \A i \in 1..4 : F32(0)[i] = 0
    <2>1. Byte(0, 0) = 0 /\ Byte(0, 1) = 0 /\ Byte(0, 2) = 0 /\ Byte(0, 3) = 0
      BY Shifts, SMT DEF Byte
    <2>2. \A i \in 1..4 : F32(0)[i] = Byte(0, i - 1)
      BY <1>1 DEF F32
    <2>3. QED
      BY <2>1, <2>2
  <1>3. \E i \in 1..4 : F32(1)[i] # 0
    <2>1. SUFFICES ASSUME \A i \in 1..4 : F32(1)[i] = 0 PROVE FALSE
      OBVIOUS
    <2>2. 1 < TwoTo24 /\ 0 < TwoTo24
      BY SMT DEF TwoTo24
    <2>3. F32(1) = F32(0)
      <3>1. F32(1) \in [1..4 -> Nat] /\ F32(0) \in [1..4 -> Nat]
        BY <2>2, F32Shape
      <3>2. QED
        BY <1>2, <2>1, <3>1
    <2>4. FromF32(F32(1)) = 1 /\ FromF32(F32(0)) = 0
      BY <2>2, ReadsBack
    <2>5. QED
      BY <2>3, <2>4
  <1>4. QED
    BY <1>2, <1>3

\* What was written reads back as written.
LEMMA ReadsAsWritten ==
  ASSUME NEW q \in Questions, q.ask = "write"
  PROVE  DecodeValue(q.viz, F32(Written(q))) = Written(q)
  <1>1. Written(q) \in Nat /\ Written(q) < TwoTo24
    BY Bounds
  <1>2. CASE q.viz = "Boolean"
    <2>1. Written(q) \in {0, 1}
      BY <1>2 DEF Written
    <2>2. QED
      BY <1>2, <2>1, SwitchReads DEF DecodeValue
  <1>3. CASE q.viz # "Boolean"
    BY <1>1, <1>3, ReadsBack DEF DecodeValue
  <1>4. QED
    BY <1>2, <1>3

\* What is true of an exchange at each of its stages.
Asked == wireStage = "asked"
Sent == /\ wireStage = "sent"
        /\ frame = RequestFrame(question) /\ report = BuildReport(frame)
Answered ==
  /\ wireStage = "answered" /\ question.ask \notin Unanswered
  /\ \E refuses \in BOOLEAN : /\ refuses => MayRefuse(question)
                              /\ frame = DeviceAnswer(question, refuses)
  /\ report = Marked(BuildReport(frame))
Filed ==
  /\ wireStage = "filed" /\ question.ask \notin Unanswered
  /\ key = KeyOf(question)
  /\ question.ask = "write" => value = Written(question)

CodecInv == question \in Questions /\ (Asked \/ Sent \/ Answered \/ Filed)

\* At first a question is asked.
LEMMA CodecInitInv == CodecInit => CodecInv
  BY DEF CodecInit, CodecInv, Asked

\* Each step takes an exchange from one stage to the next.
LEMMA CodecStepInv == CodecInv /\ [CodecNext]_codecVars => CodecInv'
  <1> SUFFICES ASSUME CodecInv, [CodecNext]_codecVars PROVE CodecInv'
    OBVIOUS
  <1>0. question \in Questions
    BY DEF CodecInv
  <1>1. CASE SendRequest
    <2>1. question' = question /\ Sent'
      BY <1>1 DEF SendRequest, Sent
    <2>2. QED
      BY <1>0, <2>1 DEF CodecInv
  <1>2. CASE DeviceReplies
    <2>1. question' = question /\ Answered'
      BY <1>2 DEF DeviceReplies, Answered
    <2>2. QED
      BY <1>0, <2>1 DEF CodecInv
  <1>3. CASE ReplyIsFiled
    <2>1. Answered
      BY <1>3 DEF ReplyIsFiled, CodecInv, Asked, Sent, Filed
    <2>2. PICK refuses \in BOOLEAN : /\ refuses => MayRefuse(question)
                                     /\ frame = DeviceAnswer(question, refuses)
      BY <2>1 DEF Answered
    <2>3. question.ask \notin Unanswered /\ report = Marked(BuildReport(frame))
      BY <2>1 DEF Answered
    <2>4. /\ FiledFor(question, frame)
          /\ question.ask = "write" => SubSeq(frame.data, 3, 6) = F32(Written(question))
      BY <1>0, <2>2, <2>3, AnswerGoes
    <2>5. ParseReport(report) = frame
      BY <2>3, <2>4, FrameCarried DEF FiledFor
    <2>6. /\ question' = question /\ wireStage' = "filed"
          /\ key' = KeyForFrame(frame)
          /\ question.ask = "write" => value' = DecodeValue(question.viz, SubSeq(frame.data, 3, 6))
      BY <1>3, <2>5 DEF ReplyIsFiled
    <2>7. key' = KeyOf(question)
      BY <2>4, <2>6 DEF FiledFor
    <2>8. question.ask = "write" => value' = Written(question)
      BY <1>0, <2>4, <2>6, ReadsAsWritten
    <2>9. Filed'
      BY <2>3, <2>6, <2>7, <2>8 DEF Filed
    <2>10. QED
      BY <1>0, <2>6, <2>9 DEF CodecInv
  <1>4. CASE UNCHANGED codecVars
    BY <1>4 DEF codecVars, CodecInv, Asked, Sent, Answered, Filed
  <1>5. QED
    BY <1>1, <1>2, <1>3, <1>4 DEF CodecNext

\* So every exchange is at one of its stages.
LEMMA CodecInvariance == CodecSpec => []CodecInv
  BY CodecInitInv, CodecStepInv, PTL DEF CodecSpec

\* What is filed is filed under its question's key.
LEMMA InvFinds == CodecInv => AnswersFindTheirQuestion
  <1> SUFFICES ASSUME CodecInv, wireStage = "filed"
               PROVE  /\ key = KeyOf(question)
                      /\ \A q \in Questions : SharesKey(q, question) \/ KeyOf(q) # key
    BY DEF AnswersFindTheirQuestion
  <1>1. question \in Questions /\ question.ask \notin Unanswered /\ key = KeyOf(question)
    BY DEF CodecInv, Asked, Sent, Answered, Filed
  <1>2. QED
    BY <1>1, KeysTold

\* What is under way comes out as it went in.
LEMMA InvSurvives == CodecInv => FramesSurvive
  <1> SUFFICES ASSUME CodecInv PROVE FramesSurvive
    OBVIOUS
  <1>0. question \in Questions
    BY DEF CodecInv
  <1>1. ASSUME wireStage = "sent" PROVE frame = RequestFrame(question) /\ ParseReport(report) = frame
    <2>1. frame = RequestFrame(question) /\ report = BuildReport(frame)
      BY <1>1 DEF CodecInv, Asked, Sent, Answered, Filed
    <2>2. frame \in Frames
      BY <1>0, <2>1, RequestGoes
    <2>3. QED
      BY <2>1, <2>2, FrameCarried
  <1>2. ASSUME wireStage = "answered" PROVE ParseReport(report) = frame
    <2>1. Answered
      BY <1>2 DEF CodecInv, Asked, Sent, Filed
    <2>2. frame \in Frames
      BY <1>0, <2>1, AnswerGoes DEF Answered, FiledFor
    <2>3. QED
      BY <2>1, <2>2, FrameCarried DEF Answered
  <1>3. (wireStage = "filed" /\ question.ask = "write") => value = Written(question)
    BY DEF CodecInv, Asked, Sent, Answered, Filed
  <1>4. ASSUME wireStage = "sent", question.ask = "commit"
        PROVE  NamesWriter(ParseReport(report).data, question.writer)
    <2> DEFINE d == ParseReport(report).data
               c == <<question.field, 0>> \o CommitValue(BusIdForAddr(question.writer))
    <2>1. CommitOf(c, question.field, BusIdForAddr(question.writer))
      BY Zenon DEF CommitOf
    <2>2. RequestFrame(question) = [id |-> CanId(24, question.addr), data |-> c]
      BY <1>0, <1>4, RequestIs, Zenon
    <2> HIDE DEF c
    <2>3. d = c
      BY <1>1, <1>4, <2>2
    <2> HIDE DEF d
    <2>4. CommitOf(d, question.field, BusIdForAddr(question.writer))
      BY <2>1, <2>3
    <2>5. NamesWriter(d, question.writer)
      BY <1>0, <1>4, <2>4, CommitSent, Zenon
    <2>6. QED
      BY <2>5 DEF d
  <1>5. QED
    BY <1>1, <1>2, <1>3, <1>4 DEF FramesSurvive, NamesWriter

\* For any addresses, indices and string ids: the answer to a question is filed
\* under the key its asker registered, and under no other question's, but for
\* those that share one on purpose: every class of every tab, either half of the
\* addresses and each shape of answer tells its question (decode.rs
\* key_for_frame, tab.rs classify).
THEOREM AnswersFind == CodecSpec => []AnswersFindTheirQuestion
  BY CodecInvariance, InvFinds, PTL

\* For any addresses, and any whole number of 24 bits: a frame comes out of the
\* USB link's report as it went in, with the device's mark or without, a value
\* reads back as it was written, and a commit names its writer (usb.rs
\* build_report, decode_can_id; encode.rs; decode.rs decode_value; bus_id.rs).
THEOREM FramesComeThrough == CodecSpec => []FramesSurvive
  BY CodecInvariance, InvSurvives, PTL
=============================================================================
