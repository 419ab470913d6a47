--------------------------- MODULE DfsBootProofs ----------------------------
(***************************************************************************)
(* Proofs about DfsBoot, for any number of disks and filesystems, any size  *)
(* of the config sector and any number of runs of deploy.                   *)
(***************************************************************************)
EXTENDS DfsBoot, NatLemmas, SequenceTheorems, TLAPS

\* A lookup that matches anything finds an entry of the sector, and its name
\* matches: FirstMatch is well defined.
LEMMA FirstMatchIsMatch ==
  ASSUME NEW entries \in Seq(Entry), NEW name, Matches(entries, name) # {}
  PROVE  /\ FirstMatch(entries, name) \in Matches(entries, name)
         /\ FirstMatch(entries, name) \in DOMAIN entries
         /\ \A j \in Matches(entries, name) : FirstMatch(entries, name) <= j
<1>1. Matches(entries, name) \subseteq DOMAIN entries
  BY DEF Matches
<1>2. Matches(entries, name) \subseteq Nat
  BY <1>1
<1>3. \E i \in Matches(entries, name) : \A j \in Matches(entries, name) : i <= j
  BY <1>2, LeastNumber
<1> QED BY <1>1, <1>3 DEF FirstMatch

\* Appending to a sector with room keeps every entry where it is and adds the
\* new one at the end; a full sector stays as it is.
LEMMA RecordedEntries ==
  ASSUME NEW entries \in Seq(Entry), NEW name \in FsNames, NEW id \in Ids
  PROVE  /\ Recorded(entries, name, id) \in Seq(Entry)
         /\ \A k \in DOMAIN Recorded(entries, name, id) :
              \/ k \in DOMAIN entries /\ Recorded(entries, name, id)[k] = entries[k]
              \/ Recorded(entries, name, id)[k] = [name |-> name, id |-> id]
<1>1. [name |-> name, id |-> id] \in Entry
  BY DEF Entry
<1>2. CASE HasRoom(entries)
  <2>1. Recorded(entries, name, id) = Append(entries, [name |-> name, id |-> id])
    BY <1>2 DEF Recorded
  <2> QED BY <1>1, <2>1, AppendProperties
<1>3. CASE ~ HasRoom(entries)
  BY <1>3 DEF Recorded
<1> QED BY <1>2, <1>3

\* Recording leaves every entry where it is.
LEMMA RecordedKeeps ==
  ASSUME NEW entries \in Seq(Entry), NEW name \in FsNames, NEW id \in Ids
  PROVE  \A k \in DOMAIN entries :
           /\ k \in DOMAIN Recorded(entries, name, id)
           /\ Recorded(entries, name, id)[k] = entries[k]
<1>1. [name |-> name, id |-> id] \in Entry
  BY DEF Entry
<1>2. CASE HasRoom(entries)
  <2>1. Recorded(entries, name, id) = Append(entries, [name |-> name, id |-> id])
    BY <1>2 DEF Recorded
  <2> QED BY <1>1, <2>1, AppendProperties
<1>3. CASE ~ HasRoom(entries)
  BY <1>3 DEF Recorded
<1> QED BY <1>2, <1>3

\* A sector with room holds, after the recording, the new entry in its last place.
LEMMA RecordedAdds ==
  ASSUME NEW entries \in Seq(Entry), NEW name \in FsNames, NEW id \in Ids, HasRoom(entries)
  PROVE  /\ Len(entries) + 1 \in DOMAIN Recorded(entries, name, id)
         /\ Recorded(entries, name, id)[Len(entries) + 1] = [name |-> name, id |-> id]
         /\ \A k \in DOMAIN Recorded(entries, name, id) : k \in DOMAIN entries \/ k = Len(entries) + 1
<1>1. [name |-> name, id |-> id] \in Entry
  BY DEF Entry
<1>2. Recorded(entries, name, id) = Append(entries, [name |-> name, id |-> id])
  BY DEF Recorded
<1> QED BY <1>1, <1>2, AppendProperties

\* A name matches itself.
LEMMA SameNameReflexive == \A s : SameName(s, s)
BY DEF SameName

\* A lookup that finds an entry finds the same one when others were recorded since.
LEMMA FirstMatchKept ==
  ASSUME NEW entries \in Seq(Entry), NEW name \in FsNames, NEW id \in Ids,
         NEW other, Matches(entries, other) # {}
  PROVE  /\ Matches(Recorded(entries, name, id), other) # {}
         /\ FirstMatch(Recorded(entries, name, id), other) = FirstMatch(entries, other)
         /\ Recorded(entries, name, id)[FirstMatch(entries, other)]
              = entries[FirstMatch(entries, other)]
<1> DEFINE R == Recorded(entries, name, id)
           m == FirstMatch(entries, other)
<1>1. m \in Matches(entries, other) /\ m \in DOMAIN entries
      /\ \A j \in Matches(entries, other) : m <= j
  BY FirstMatchIsMatch
<1>2. R \in Seq(Entry) /\ m \in DOMAIN R /\ R[m] = entries[m]
  BY <1>1, RecordedEntries, RecordedKeeps
<1>3. m \in Matches(R, other)
  BY <1>1, <1>2 DEF Matches
<1>4. \A j \in Matches(R, other) : m <= j
  <2>1. SUFFICES ASSUME NEW j \in Matches(R, other) PROVE m <= j
    OBVIOUS
  <2>2. j \in DOMAIN R /\ SameName(R[j].name, other)
    BY <2>1 DEF Matches
  <2>3. CASE j \in DOMAIN entries
    <3>1. R[j] = entries[j]
      BY <2>3, RecordedKeeps
    <3>2. j \in Matches(entries, other)
      BY <2>2, <2>3, <3>1 DEF Matches
    <3> QED BY <1>1, <3>2
  <2>4. CASE j \notin DOMAIN entries
    <3>1. HasRoom(entries)
      BY <2>2, <2>4 DEF Recorded
    <3>2. j = Len(entries) + 1
      BY <2>2, <2>4, <3>1, RecordedAdds
    <3>3. m \in 1 .. Len(entries) /\ Len(entries) \in Nat
      BY <1>1
    <3> HIDE DEF m
    <3> QED BY <3>2, <3>3
  <2> QED BY <2>3, <2>4
<1>5. FirstMatch(R, other) \in Matches(R, other) /\ \A j \in Matches(R, other) : FirstMatch(R, other) <= j
  BY <1>2, <1>3, FirstMatchIsMatch
<1>6. FirstMatch(R, other) <= m /\ m <= FirstMatch(R, other)
  BY <1>3, <1>4, <1>5
<1>7. FirstMatch(R, other) \in Nat /\ m \in Nat
  BY <1>1, <1>2, <1>5 DEF Matches
<1>8. FirstMatch(R, other) = m
  <2> HIDE DEF m, R
  <2> QED BY <1>6, <1>7
<1> QED BY <1>2, <1>3, <1>8

\* A name that nothing matched is found, once recorded, in the new entry.
LEMMA FirstMatchNew ==
  ASSUME NEW entries \in Seq(Entry), NEW name \in FsNames, NEW id \in Ids,
         HasRoom(entries), Matches(entries, name) = {}
  PROVE  /\ Matches(Recorded(entries, name, id), name) # {}
         /\ Recorded(entries, name, id)[FirstMatch(Recorded(entries, name, id), name)]
              = [name |-> name, id |-> id]
<1> DEFINE R == Recorded(entries, name, id)
           l == Len(entries) + 1
<1>1. l \in DOMAIN R /\ R[l] = [name |-> name, id |-> id]
      /\ \A k \in DOMAIN R : k \in DOMAIN entries \/ k = l
  BY RecordedAdds
<1>2. l \in Matches(R, name)
  BY <1>1, SameNameReflexive DEF Matches
<1>3. \A k \in Matches(R, name) : k = l
  <2>1. \A k \in DOMAIN entries : R[k] = entries[k]
    BY RecordedKeeps
  <2> QED BY <1>1, <2>1 DEF Matches
<1>4. FirstMatch(R, name) \in Matches(R, name)
  BY <1>2, FirstMatchIsMatch, RecordedEntries
<1> QED BY <1>1, <1>2, <1>3, <1>4

\* An offer is a value of the byte it travels in.
LEMMA OfferIsId == \A c \in Nat : Offer(c) \in Ids /\ (c < IdSpace => Offer(c) = c)
BY IdsAssumption DEF Offer, Ids

\* Absence is none of the values it stands beside.
LEMMA NoneIsNothing == None \notin Memory /\ None \notin Reply /\ None \notin Disks /\ None \notin FsNames
BY NoneAssumption

\* What a lookup in a sector leaves behind: the pi keeps the name it was given, and
\* the card is as it was, or nothing in the sector matched the name and the card
\* holds the sector with the offer recorded in it.
LEMMA SearchEffect ==
  ASSUME TypeOK, Remembers, NEW d \in Disks, pi[d] = "asked",
         NEW sector \in Seq(Entry), Search(d, sector)
  PROVE  /\ ram[d] \in Memory /\ ram[d].fs \in FsNames /\ ram[d].id \in Ids
         /\ \E m \in Memory :
              /\ ram' = [ram EXCEPT ![d] = m]
              /\ m.fs = ram[d].fs
              /\ m.used => m.id = ram[d].id
              /\ \/ cfg' = cfg
                 \/ /\ m.used
                    /\ Matches(sector, ram[d].fs) = {}
                    /\ cfg' = [cfg EXCEPT ![d] = Recorded(sector, ram[d].fs, ram[d].id)]
         /\ cfg' \in [Disks -> Seq(Entry)]
         /\ unwritten' \subseteq unwritten \cup {<<d, ram[d].fs>>}
         /\ unwritten \subseteq unwritten'
<1> DEFINE name == ram[d].fs
<1>1. ram[d] \in Memory /\ name \in FsNames /\ ram[d].id \in Ids
  BY DEF Remembers, Memory, TypeOK
<1>2. unwritten' \subseteq unwritten \cup {<<d, ram[d].fs>>} /\ unwritten \subseteq unwritten'
  BY DEF Search
<1>3. CASE Matches(sector, name) # {}
  <2> DEFINE i == FirstMatch(sector, name)
             m == [ram[d] EXCEPT !.id = sector[i].id, !.used = FALSE]
  <2>1. sector[i].id \in Ids
    <3>1. i \in DOMAIN sector
      BY <1>3, FirstMatchIsMatch
    <3>2. sector[i] \in Entry
      <4> HIDE DEF i
      <4> QED BY <3>1
    <3> QED BY <3>2 DEF Entry
  <2>2. m \in Memory /\ m.fs = name /\ ~ m.used
    BY <1>1, <2>1 DEF Memory
  <2>3. ram' = [ram EXCEPT ![d] = m] /\ cfg' = cfg
    BY <1>3 DEF Search, Kept
  <2>4. cfg' \in [Disks -> Seq(Entry)]
    BY <2>3 DEF TypeOK
  <2> HIDE DEF m
  <2> QED BY <1>1, <1>2, <2>2, <2>3, <2>4
<1>4. CASE Matches(sector, name) = {}
  <2> DEFINE m == [ram[d] EXCEPT !.used = TRUE]
  <2>1. m \in Memory /\ m.fs = name /\ m.id = ram[d].id /\ m.used
    BY <1>1 DEF Memory
  <2>2. ram' = [ram EXCEPT ![d] = m]
    BY <1>4 DEF Search
  <2>3. cfg' = [cfg EXCEPT ![d] = Recorded(sector, name, ram[d].id)] \/ cfg' = cfg
    BY <1>4 DEF Search
  <2>4. cfg' \in [Disks -> Seq(Entry)]
    <3>1. Recorded(sector, name, ram[d].id) \in Seq(Entry)
      BY <1>1, RecordedEntries
    <3> QED BY <2>3, <3>1 DEF TypeOK
  <2> HIDE DEF m
  <2> QED BY <1>1, <1>2, <1>4, <2>1, <2>2, <2>3, <2>4
<1> QED BY <1>3, <1>4

\* id_for_dfs searches the sector of the card, or one that memory holds instead.
LEMMA IdForDfsSearches ==
  ASSUME TypeOK, NEW d \in Disks, IdForDfs(d)
  PROVE  /\ pi[d] = "asked"
         /\ \E sector \in Seq(Entry) :
              /\ Search(d, sector)
              /\ (sector = cfg[d] /\ misread' = misread) \/ misread' = misread \cup {d}
<1>1. PICK sector \in {cfg[d]} \cup Unread :
        /\ Search(d, sector)
        /\ misread' = IF sector = cfg[d] THEN misread ELSE misread \cup {d}
  BY DEF IdForDfs
<1>2. sector \in Seq(Entry)
  BY UnreadAssumption DEF TypeOK
<1> QED BY <1>1, <1>2 DEF IdForDfs

\* What id_for_dfs leaves behind, on a card whose sector was read: the sector as it
\* was, or, when nothing in it matched the name, the offer recorded in it.
LEMMA IdForDfsEffect ==
  ASSUME TypeOK, Remembers, NEW d \in Disks, IdForDfs(d)
  PROVE  /\ ram[d] \in Memory /\ ram[d].fs \in FsNames /\ ram[d].id \in Ids
         /\ \E m \in Memory :
              /\ ram' = [ram EXCEPT ![d] = m]
              /\ m.fs = ram[d].fs
              /\ m.used => m.id = ram[d].id
              /\ \/ cfg' = cfg
                 \/ d \in misread'
                 \/ /\ m.used
                    /\ Matches(cfg[d], ram[d].fs) = {}
                    /\ cfg' = [cfg EXCEPT ![d] = Recorded(cfg[d], ram[d].fs, ram[d].id)]
         /\ cfg' \in [Disks -> Seq(Entry)]
         /\ \A e \in Disks : e # d => cfg'[e] = cfg[e]
         /\ unwritten' \subseteq unwritten \cup {<<d, ram[d].fs>>}
         /\ unwritten \subseteq unwritten'
         /\ misread' = misread \/ misread' = misread \cup {d}
<1>1. PICK sector \in Seq(Entry) :
        /\ Search(d, sector)
        /\ (sector = cfg[d] /\ misread' = misread) \/ misread' = misread \cup {d}
  BY IdForDfsSearches
<1>2. /\ ram[d] \in Memory /\ ram[d].fs \in FsNames /\ ram[d].id \in Ids
      /\ cfg' \in [Disks -> Seq(Entry)]
      /\ unwritten' \subseteq unwritten \cup {<<d, ram[d].fs>>}
      /\ unwritten \subseteq unwritten'
  BY <1>1, IdForDfsSearches, SearchEffect
<1>3. PICK m \in Memory :
        /\ ram' = [ram EXCEPT ![d] = m]
        /\ m.fs = ram[d].fs
        /\ m.used => m.id = ram[d].id
        /\ \/ cfg' = cfg
           \/ /\ m.used
              /\ Matches(sector, ram[d].fs) = {}
              /\ cfg' = [cfg EXCEPT ![d] = Recorded(sector, ram[d].fs, ram[d].id)]
  BY <1>1, IdForDfsSearches, SearchEffect
<1>4. \A e \in Disks : e # d => cfg'[e] = cfg[e]
  BY <1>3 DEF TypeOK
<1>5. \/ cfg' = cfg
      \/ d \in misread'
      \/ /\ m.used
         /\ Matches(cfg[d], ram[d].fs) = {}
         /\ cfg' = [cfg EXCEPT ![d] = Recorded(cfg[d], ram[d].fs, ram[d].id)]
  BY <1>1, <1>3
<1> QED BY <1>1, <1>2, <1>3, <1>4, <1>5

\* An entry found after id_for_dfs was there before, or is the offer of the pi
\* that ran it, which will say so, if the sectors were always read.
LEMMA EntriesAfterIdForDfs ==
  ASSUME TypeOK, Remembers, NEW d \in Disks, IdForDfs(d),
         NEW e \in Disks \ misread', NEW k \in DOMAIN cfg'[e]
  PROVE  \/ k \in DOMAIN cfg[e] /\ cfg'[e][k] = cfg[e][k]
         \/ /\ e = d
            /\ ram'[d].used
            /\ cfg'[e][k] = [name |-> ram[d].fs, id |-> ram[d].id]
<1> DEFINE name == ram[d].fs
           id   == ram[d].id
<1>1. name \in FsNames /\ id \in Ids
  BY IdForDfsEffect
<1>2. PICK m \in Memory :
         /\ ram' = [ram EXCEPT ![d] = m]
         /\ \/ cfg' = cfg
            \/ d \in misread'
            \/ m.used /\ cfg' = [cfg EXCEPT ![d] = Recorded(cfg[d], name, id)]
  BY IdForDfsEffect
<1>3. CASE cfg' = cfg \/ e # d
  BY <1>3, IdForDfsEffect
<1>4. CASE cfg' # cfg /\ e = d
  <2>1. cfg'[e] = Recorded(cfg[d], name, id) /\ cfg[d] \in Seq(Entry)
    BY <1>2, <1>4 DEF TypeOK
  <2>2. \A j \in DOMAIN Recorded(cfg[d], name, id) :
          \/ j \in DOMAIN cfg[d] /\ Recorded(cfg[d], name, id)[j] = cfg[d][j]
          \/ Recorded(cfg[d], name, id)[j] = [name |-> name, id |-> id]
    BY <1>1, <2>1, RecordedEntries
  <2>3. ram'[d].used
    BY <1>2, <1>4 DEF TypeOK
  <2> QED BY <1>4, <2>1, <2>2, <2>3
<1> QED BY <1>3, <1>4

\* Only id_for_dfs touches a config sector.
LEMMA SectorStep ==
  ASSUME [Next]_vars
  PROVE  (UNCHANGED <<cfg, unwritten, misread>>) \/ \E d \in Disks : IdForDfs(d)
BY DEF Next, MacWorks, PiWorks, Deploy, OpenPi, OpenFails, LoadKernel, SendName,
   SelectTimeout, OfferId, ReadAnswer, ReadClaim, SaveRoot, WriteRoot, Panic, Killed, BootPanics, AnswerLost, DieUnsaved,
   PiMounts, PiPanics, PiAnswers, StartsLate, Reset, vars, piVars, histVars

\* What id_for_dfs does to the sectors: that of its own disk stays as it is, or
\* records the offer because nothing matched, or was not read.
LEMMA IdForDfsSector ==
  ASSUME TypeOK, Remembers, NEW d \in Disks, IdForDfs(d)
  PROVE  /\ ram[d].fs \in FsNames /\ ram[d].id \in Ids
         /\ unwritten \subseteq unwritten' /\ misread \subseteq misread'
         /\ \A e \in Disks : e # d => cfg'[e] = cfg[e]
         /\ \/ cfg'[d] = cfg[d]
            \/ d \in misread'
            \/ /\ Matches(cfg[d], ram[d].fs) = {}
               /\ cfg'[d] = Recorded(cfg[d], ram[d].fs, ram[d].id)
<1>1. /\ ram[d].fs \in FsNames /\ ram[d].id \in Ids
      /\ unwritten \subseteq unwritten' /\ misread \subseteq misread'
      /\ \A e \in Disks : e # d => cfg'[e] = cfg[e]
  BY IdForDfsEffect
<1>2. \/ cfg' = cfg
      \/ d \in misread'
      \/ /\ Matches(cfg[d], ram[d].fs) = {}
         /\ cfg' = [cfg EXCEPT ![d] = Recorded(cfg[d], ram[d].fs, ram[d].id)]
  BY IdForDfsEffect
<1> QED BY <1>1, <1>2 DEF TypeOK

\* What a lookup finds it finds for ever.
LEMMA RecallsKept ==
  ASSUME TypeOK, Remembers, [Next]_vars,
         NEW e \in Disks, NEW n, NEW i, Recalls(e, n, i)
  PROVE  Recalls(e, n, i)'
<1>1. CASE UNCHANGED <<cfg, unwritten, misread>>
  BY <1>1 DEF Recalls
<1>2. ASSUME NEW d \in Disks, IdForDfs(d) PROVE Recalls(e, n, i)'
  <2> DEFINE name == ram[d].fs
             id   == ram[d].id
  <2>1. /\ name \in FsNames /\ id \in Ids
        /\ unwritten \subseteq unwritten' /\ misread \subseteq misread'
        /\ cfg[e] \in Seq(Entry)
        /\ e \in misread' \/ cfg'[e] = cfg[e] \/ cfg'[e] = Recorded(cfg[e], name, id)
    BY <1>2, IdForDfsSector DEF TypeOK
  <2>2. CASE <<e, n>> \in unwritten \/ e \in misread'
    BY <2>1, <2>2 DEF Recalls
  <2>3. CASE cfg'[e] = cfg[e]
    BY <2>1, <2>3 DEF Recalls
  <2>4. CASE <<e, n>> \notin unwritten /\ e \notin misread' /\ cfg'[e] = Recorded(cfg[e], name, id)
    <3>1. CASE Matches(cfg[e], n) # {}
      <4>1. /\ Matches(cfg'[e], n) # {}
            /\ FirstMatch(cfg'[e], n) = FirstMatch(cfg[e], n)
            /\ cfg'[e][FirstMatch(cfg[e], n)] = cfg[e][FirstMatch(cfg[e], n)]
        BY <2>1, <2>4, <3>1, FirstMatchKept
      <4> QED BY <2>1, <2>4, <3>1, <4>1 DEF Recalls
    <3>2. CASE Matches(cfg[e], n) = {}
      <4>1. ~ HasRoom(cfg[e])
        BY <2>1, <2>4, <3>2 DEF Recalls
      <4>2. cfg'[e] = cfg[e]
        BY <2>4, <4>1 DEF Recorded
      <4> QED BY <2>3, <4>2
    <3> QED BY <3>1, <3>2
  <2> QED BY <2>1, <2>2, <2>3, <2>4
<1> QED BY <1>1, <1>2, SectorStep

\* An id that is used up stays used up.
LEMMA TakenKept ==
  ASSUME TypeOK, Remembers, [Next]_vars,
         NEW e \in Disks, NEW n, NEW i, Taken(e, n, i)
  PROVE  Taken(e, n, i)'
<1>1. CASE UNCHANGED <<cfg, unwritten, misread>>
  BY <1>1 DEF Taken, Holds
<1>2. ASSUME NEW d \in Disks, IdForDfs(d) PROVE Taken(e, n, i)'
  <2> DEFINE name == ram[d].fs
             id   == ram[d].id
  <2>1. /\ name \in FsNames /\ id \in Ids
        /\ unwritten \subseteq unwritten' /\ misread \subseteq misread'
        /\ cfg[e] \in Seq(Entry)
        /\ e \in misread' \/ cfg'[e] = cfg[e] \/ cfg'[e] = Recorded(cfg[e], name, id)
    BY <1>2, IdForDfsSector DEF TypeOK
  <2>2. CASE cfg'[e] = cfg[e]
    BY <2>1, <2>2 DEF Taken, Holds
  <2>3. CASE cfg'[e] = Recorded(cfg[e], name, id)
    <3>1. CASE Holds(e, n, i)
      <4>1. PICK k \in DOMAIN cfg[e] : cfg[e][k] = [name |-> n, id |-> i]
        BY <3>1 DEF Holds
      <4>2. k \in DOMAIN cfg'[e] /\ cfg'[e][k] = cfg[e][k]
        BY <2>1, <2>3, RecordedKeeps
      <4> QED BY <4>1, <4>2 DEF Taken, Holds
    <3>2. CASE ~ HasRoom(cfg[e])
      <4>1. cfg'[e] = cfg[e]
        BY <2>3, <3>2 DEF Recorded
      <4> QED BY <2>2, <4>1
    <3>3. CASE <<e, n>> \in unwritten \/ e \in misread
      BY <2>1, <3>3 DEF Taken
    <3> QED BY <3>1, <3>2, <3>3 DEF Taken
  <2>4. CASE e \in misread'
    BY <2>4 DEF Taken
  <2> QED BY <2>1, <2>2, <2>3, <2>4
<1> QED BY <1>1, <1>2, SectorStep

\* What id_for_dfs answers is what the next lookup finds; and if it used the
\* offer, the offer is used up.
LEMMA IdForDfsAnswer ==
  ASSUME TypeOK, Remembers, NEW d \in Disks, IdForDfs(d),
         NEW n, n = ram[d].fs, NEW i, i = ram'[d].id
  PROVE  /\ ram'[d].fs = n
         /\ Recalls(d, n, i)'
         /\ ram'[d].used => i = ram[d].id /\ Taken(d, n, i)'
<1>1. ram[d] \in Memory /\ n \in FsNames /\ ram[d].id \in Ids /\ cfg[d] \in Seq(Entry)
  BY IdForDfsEffect DEF TypeOK
<1>4. CASE d \in misread'
  <2>1. ram'[d].fs = n /\ (ram'[d].used => i = ram[d].id)
    BY IdForDfsEffect DEF TypeOK
  <2> QED BY <1>4, <2>1 DEF Recalls, Taken
<1>5. d \in misread' \/ Search(d, cfg[d])
  BY IdForDfsSearches
<1> SUFFICES ASSUME d \notin misread', Search(d, cfg[d])
             PROVE  /\ ram'[d].fs = n
                    /\ Recalls(d, n, i)'
                    /\ ram'[d].used => i = ram[d].id /\ Taken(d, n, i)'
  BY <1>4, <1>5
<1>2. CASE Matches(cfg[d], n) # {}
  <2> DEFINE m == [ram[d] EXCEPT !.id = cfg[d][FirstMatch(cfg[d], n)].id, !.used = FALSE]
  <2>1. ram' = [ram EXCEPT ![d] = m] /\ UNCHANGED <<cfg, unwritten>>
    BY <1>2 DEF Search, Kept
  <2>2. ram'[d] = m
    BY <2>1 DEF TypeOK
  <2>3. m.fs = n /\ m.id = cfg[d][FirstMatch(cfg[d], n)].id /\ ~ m.used
    BY <1>1 DEF Memory
  <2> HIDE DEF m
  <2> QED BY <1>2, <2>1, <2>2, <2>3 DEF Recalls
<1>3. CASE Matches(cfg[d], n) = {}
  <2> DEFINE m == [ram[d] EXCEPT !.used = TRUE]
  <2>1. ram' = [ram EXCEPT ![d] = m]
    BY <1>3 DEF Search
  <2>2. ram'[d] = m
    BY <2>1 DEF TypeOK
  <2>3. m.fs = n /\ m.id = ram[d].id
    BY <1>1 DEF Memory
  <2>4. ram'[d].fs = n /\ i = ram[d].id
    <3> HIDE DEF m
    <3> QED BY <2>2, <2>3
  <2>5. \/ cfg' = [cfg EXCEPT ![d] = Recorded(cfg[d], n, i)]
        \/ unwritten' = unwritten \cup {<<d, n>>}
    BY <1>3, <2>4 DEF Search
  <2>6. CASE unwritten' = unwritten \cup {<<d, n>>}
    BY <2>4, <2>6 DEF Recalls, Taken
  <2>7. CASE cfg' = [cfg EXCEPT ![d] = Recorded(cfg[d], n, i)]
    <3>1. cfg'[d] = Recorded(cfg[d], n, i)
      BY <2>7 DEF TypeOK
    <3>2. CASE HasRoom(cfg[d])
      <4>1. /\ Matches(cfg'[d], n) # {}
            /\ cfg'[d][FirstMatch(cfg'[d], n)] = [name |-> n, id |-> i]
        BY <1>1, <1>3, <2>4, <3>1, <3>2, FirstMatchNew
      <4>2. FirstMatch(cfg'[d], n) \in DOMAIN cfg'[d]
        <5>1. cfg'[d] \in Seq(Entry)
          BY IdForDfsEffect
        <5> QED BY <4>1, <5>1, FirstMatchIsMatch
      <4> QED BY <2>4, <4>1, <4>2 DEF Recalls, Taken, Holds
    <3>3. CASE ~ HasRoom(cfg[d])
      <4>1. cfg'[d] = cfg[d]
        BY <3>1, <3>3 DEF Recorded
      <4> QED BY <1>3, <2>4, <3>3, <4>1 DEF Recalls, Taken
    <3> QED BY <3>2, <3>3
  <2> QED BY <2>5, <2>6, <2>7
<1> QED BY <1>2, <1>3

----------------------------------------------------------------------------
\* Types are kept by every step of a session that makes sense.
LEMMA TypeStep ==
  ASSUME TypeOK, Session, Remembers, [Next]_vars
  PROVE  TypeOK'
<1> USE DEF TypeOK, macVars, piVars, histVars
<1>1. ASSUME NEW n \in FsNames, NEW S \in SUBSET Disks, Deploy(n, S) PROVE TypeOK'
  <2>1. deploys' \in Nat /\ first_free_id' \in Nat /\ fs' \in FsNames /\ todo' \in SUBSET Disks
    BY <1>1 DEF Deploy
  <2>2. phase' \in Phases /\ dirty_dfs' \in BOOLEAN /\ cur' = None
    BY <1>1 DEF Deploy, Phases
  <2>3. UNCHANGED <<root, pi, ram, cfg, tty, told, forgotten, unwritten, misread>>
    BY <1>1 DEF Deploy
  <2> QED BY <2>1, <2>2, <2>3
<1>2. ASSUME NEW d \in Disks, OpenPi(d) PROVE TypeOK'
  BY <1>2 DEF OpenPi, Phases
<1>3. CASE OpenFails
  BY <1>3 DEF OpenFails, Phases
<1>4. CASE LoadKernel
  BY <1>4 DEF LoadKernel, Phases, PiStates
<1>5. CASE SendName
  <2>1. fs \in FsNames
    BY <1>5 DEF SendName, Session
  <2>2. [fs |-> fs, id |-> 0, used |-> FALSE] \in Memory
    BY <2>1, IdsAssumption DEF Memory, Ids
  <2> QED BY <1>5, <2>2 DEF SendName, Phases, PiStates
<1>6. CASE SelectTimeout
  BY <1>6 DEF SelectTimeout, Phases
<1>7. CASE OfferId
  <2>1. cur \in Disks /\ ram[cur] \in Memory
    BY <1>7 DEF OfferId, Session, Remembers, Talking, Dialogue
  <2>2. [ram[cur] EXCEPT !.id = Offer(first_free_id)] \in Memory
    BY <2>1, OfferIsId DEF Memory
  <2> QED BY <1>7, <2>1, <2>2 DEF OfferId, Phases, PiStates
<1>8. CASE ReadAnswer
  BY <1>8 DEF ReadAnswer, AfterReply, Phases
<1>9. CASE ReadClaim
  <2>1. cur \in Disks /\ fs \in FsNames /\ tty[cur] \in Reply
    BY <1>9 DEF ReadClaim, Session, Talking, Dialogue
  <2>2. tty[cur].id \in Ids /\ tty[cur].used \in BOOLEAN
    BY <2>1 DEF Reply
  <2> QED BY <1>9, <2>1, <2>2 DEF ReadClaim, MarkDirty, Phases
<1>10. CASE SaveRoot
  BY <1>10 DEF SaveRoot, WriteRoot, Phases, Session
<1>11. ASSUME DieUnsaved, fs \in FsNames PROVE TypeOK'
  BY <1>11 DEF DieUnsaved, Phases
<1>12. CASE Panic
  BY <1>11, <1>12 DEF Panic, Silent, Session
<1>13. CASE Killed
  BY <1>11, <1>13 DEF Killed, Session
<1>21. CASE AnswerLost
  BY <1>21 DEF AnswerLost, Phases
<1>22. CASE BootPanics
  BY <1>11, <1>22 DEF BootPanics, Session
<1>14. ASSUME NEW d \in Disks, PiMounts(d) PROVE TypeOK'
  BY <1>14 DEF PiMounts, PiStates
<1>15. ASSUME NEW d \in Disks, PiPanics(d) PROVE TypeOK'
  BY <1>15 DEF PiPanics, PiStates
<1>16. ASSUME NEW d \in Disks, IdForDfs(d) PROVE TypeOK'
  <2>1. PICK m \in Memory : ram' = [ram EXCEPT ![d] = m]
    BY <1>16, IdForDfsEffect
  <2>2. cfg' \in [Disks -> Seq(Entry)]
    BY <1>16, IdForDfsEffect
  <2>3. pi' \in [Disks -> PiStates]
    BY <1>16 DEF IdForDfs, PiStates
  <2>4. unwritten' \subseteq Disks \X FsNames /\ misread' \subseteq Disks
    <3>1. unwritten' \subseteq unwritten \cup {<<d, ram[d].fs>>} /\ ram[d].fs \in FsNames
      BY <1>16, IdForDfsEffect
    <3>2. misread' = misread \/ misread' = misread \cup {d}
      BY <1>16, IdForDfsEffect
    <3> QED BY <3>1, <3>2
  <2>5. UNCHANGED <<root, macVars, tty, told, forgotten>>
    BY <1>16 DEF IdForDfs
  <2>6. ram' \in [Disks -> Memory \cup {None}]
    BY <2>1
  <2> QED BY <2>2, <2>3, <2>4, <2>5, <2>6
<1>17. ASSUME NEW d \in Disks, PiAnswers(d) PROVE TypeOK'
  <2>1. ram[d] \in Memory
    BY <1>17 DEF PiAnswers, Remembers
  <2>2. [used |-> ram[d].used, id |-> ram[d].id] \in Reply
    BY <2>1 DEF Memory, Reply
  <2> QED BY <1>17, <2>2 DEF PiAnswers, PiStates
<1>18. ASSUME NEW d \in Disks, Reset(d) PROVE TypeOK'
  BY <1>18 DEF Reset, PiStates
<1>20. ASSUME NEW d \in Disks, StartsLate(d) PROVE TypeOK'
  BY <1>20 DEF StartsLate, PiStates
<1>19. CASE UNCHANGED vars
  BY <1>19 DEF vars
<1> QED
  BY <1>1, <1>2, <1>3, <1>4, <1>5, <1>6, <1>7, <1>8, <1>9, <1>10, <1>12, <1>13,
     <1>14, <1>15, <1>16, <1>17, <1>18, <1>19, <1>20, <1>21, <1>22
     DEF Next, MacWorks, PiWorks

\* The dialogue goes through its phases on both sides.
LEMMA SessionStep ==
  ASSUME TypeOK, Session, Remembers, [Next]_vars
  PROVE  Session' /\ Remembers'
<1> USE DEF TypeOK, Session, Remembers, Talking, Dialogue, Phases, macVars, piVars, histVars
<1>1. ASSUME NEW n \in FsNames, NEW S \in SUBSET Disks, Deploy(n, S) PROVE Session' /\ Remembers'
  BY <1>1 DEF Deploy
<1>2. ASSUME NEW d \in Disks, OpenPi(d) PROVE Session' /\ Remembers'
  BY <1>2 DEF OpenPi
<1>3. CASE OpenFails
  BY <1>3 DEF OpenFails
<1>4. CASE LoadKernel
  BY <1>4 DEF LoadKernel
<1>5. CASE SendName
  <2> DEFINE m == [fs |-> fs, id |-> 0, used |-> FALSE]
  <2>1. cur \in Disks /\ m \in Memory /\ m.fs = fs
    BY <1>5, IdsAssumption DEF SendName, Memory, Ids
  <2>2. m # None
    BY <2>1, NoneIsNothing
  <2>3. ram' = [ram EXCEPT ![cur] = m]
    BY <1>5 DEF SendName
  <2> HIDE DEF m
  <2> QED BY <1>5, <2>1, <2>2, <2>3 DEF SendName
<1>6. CASE SelectTimeout
  BY <1>6 DEF SelectTimeout
<1>7. CASE OfferId
  <2> DEFINE m == [ram[cur] EXCEPT !.id = Offer(first_free_id)]
  <2>1. cur \in Disks /\ m \in Memory
    BY <1>7, OfferIsId DEF OfferId, Memory
  <2>2. m # None
    BY <2>1, NoneIsNothing
  <2>3. ram' = [ram EXCEPT ![cur] = m]
    BY <1>7 DEF OfferId
  <2> HIDE DEF m
  <2> QED BY <1>7, <2>1, <2>2, <2>3 DEF OfferId
<1>8. CASE ReadAnswer
  BY <1>8 DEF ReadAnswer
<1>9. CASE ReadClaim
  BY <1>9 DEF ReadClaim
<1>10. CASE SaveRoot
  BY <1>10 DEF SaveRoot, WriteRoot
<1>11. ASSUME DieUnsaved, phase # "off" PROVE Session' /\ Remembers'
  BY <1>11 DEF DieUnsaved
<1>12. CASE Panic
  BY <1>11, <1>12 DEF Panic, Silent
<1>13. CASE Killed
  BY <1>11, <1>13 DEF Killed
<1>21. CASE AnswerLost
  BY <1>21 DEF AnswerLost
<1>22. CASE BootPanics
  BY <1>11, <1>22 DEF BootPanics
<1>14. ASSUME NEW d \in Disks, PiMounts(d) PROVE Session' /\ Remembers'
  BY <1>14 DEF PiMounts
<1>15. ASSUME NEW d \in Disks, PiPanics(d) PROVE Session' /\ Remembers'
  BY <1>15 DEF PiPanics
<1>16. ASSUME NEW d \in Disks, IdForDfs(d) PROVE Session' /\ Remembers'
  <2>1. PICK m \in Memory : ram' = [ram EXCEPT ![d] = m]
    BY <1>16, IdForDfsEffect
  <2>2. m # None
    BY NoneIsNothing
  <2> QED BY <1>16, <2>1, <2>2 DEF IdForDfs
<1>17. ASSUME NEW d \in Disks, PiAnswers(d) PROVE Session' /\ Remembers'
  BY <1>17 DEF PiAnswers
<1>18. ASSUME NEW d \in Disks, Reset(d) PROVE Session' /\ Remembers'
  BY <1>18 DEF Reset
<1>20. ASSUME NEW d \in Disks, StartsLate(d) PROVE Session' /\ Remembers'
  BY <1>20 DEF StartsLate
<1>19. CASE UNCHANGED vars
  BY <1>19 DEF vars
<1> QED
  BY <1>1, <1>2, <1>3, <1>4, <1>5, <1>6, <1>7, <1>8, <1>9, <1>10, <1>12,
     <1>13, <1>14, <1>15, <1>16, <1>17, <1>18, <1>19, <1>20, <1>21, <1>22
     DEF Next, MacWorks, PiWorks

\* Only the pi that deploy waits for holds an offer.
LEMMA OfferedStep ==
  ASSUME TypeOK, Session, Remembers, Offered, [Next]_vars
  PROVE  Offered'
<1> USE DEF TypeOK, Session, Remembers, Offered, Talking, Dialogue, macVars, piVars, histVars
<1>1. ASSUME NEW n \in FsNames, NEW S \in SUBSET Disks, Deploy(n, S) PROVE Offered'
  BY <1>1 DEF Deploy
<1>2. ASSUME NEW d \in Disks, OpenPi(d) PROVE Offered'
  BY <1>2 DEF OpenPi
<1>3. CASE OpenFails
  BY <1>3 DEF OpenFails
<1>4. CASE LoadKernel
  BY <1>4 DEF LoadKernel
<1>5. CASE SendName
  BY <1>5 DEF SendName
<1>6. CASE SelectTimeout
  BY <1>6 DEF SelectTimeout
<1>7. CASE OfferId
  BY <1>7 DEF OfferId
<1>8. CASE ReadAnswer
  BY <1>8 DEF ReadAnswer
<1>9. CASE ReadClaim
  BY <1>9 DEF ReadClaim
<1>10. CASE SaveRoot
  BY <1>10 DEF SaveRoot, WriteRoot
<1>11. ASSUME DieUnsaved, phase # "off" PROVE Offered'
  BY <1>11 DEF DieUnsaved
<1>12. CASE Panic
  BY <1>11, <1>12 DEF Panic, Silent
<1>13. CASE Killed
  BY <1>11, <1>13 DEF Killed
<1>21. CASE AnswerLost
  BY <1>21 DEF AnswerLost
<1>22. CASE BootPanics
  BY <1>11, <1>22 DEF BootPanics
<1>14. ASSUME NEW d \in Disks, PiMounts(d) PROVE Offered'
  BY <1>14 DEF PiMounts
<1>15. ASSUME NEW d \in Disks, PiPanics(d) PROVE Offered'
  BY <1>15 DEF PiPanics
<1>16. ASSUME NEW d \in Disks, IdForDfs(d) PROVE Offered'
  <2>1. PICK m \in Memory : ram' = [ram EXCEPT ![d] = m]
    BY <1>16, IdForDfsEffect
  <2>2. pi' = [pi EXCEPT ![d] = "decided"] /\ UNCHANGED <<root, macVars, tty, told, forgotten>>
    BY <1>16 DEF IdForDfs
  <2> QED BY <2>1, <2>2
<1>17. ASSUME NEW d \in Disks, PiAnswers(d) PROVE Offered'
  BY <1>17 DEF PiAnswers
<1>18. ASSUME NEW d \in Disks, Reset(d) PROVE Offered'
  BY <1>18 DEF Reset
<1>20. ASSUME NEW d \in Disks, StartsLate(d) PROVE Offered'
  BY <1>20 DEF StartsLate
<1>19. CASE UNCHANGED vars
  BY <1>19 DEF vars
<1> QED
  BY <1>1, <1>2, <1>3, <1>4, <1>5, <1>6, <1>7, <1>8, <1>9, <1>10, <1>12,
     <1>13, <1>14, <1>15, <1>16, <1>17, <1>18, <1>19, <1>20, <1>21, <1>22
     DEF Next, MacWorks, PiWorks

\* A counter that has moved stays marked for the save.
LEMMA WillSaveStep ==
  ASSUME TypeOK, Session, WillSave, [Next]_vars
  PROVE  WillSave'
<1> USE DEF TypeOK, Session, WillSave, Talking, Dialogue, macVars, piVars, histVars
<1>1. ASSUME NEW n \in FsNames, NEW S \in SUBSET Disks, Deploy(n, S) PROVE WillSave'
  BY <1>1 DEF Deploy
<1>2. ASSUME NEW d \in Disks, OpenPi(d) PROVE WillSave'
  BY <1>2 DEF OpenPi
<1>3. CASE OpenFails
  BY <1>3 DEF OpenFails
<1>4. CASE LoadKernel
  BY <1>4 DEF LoadKernel
<1>5. CASE SendName
  BY <1>5 DEF SendName
<1>6. CASE SelectTimeout
  BY <1>6 DEF SelectTimeout
<1>7. CASE OfferId
  BY <1>7 DEF OfferId
<1>8. CASE ReadAnswer
  <2>1. /\ cur \in Disks /\ fs \in FsNames /\ root[fs] \in Nat
        /\ tty[cur] \in Reply /\ tty[cur].used \in BOOLEAN
    BY <1>8 DEF ReadAnswer, Reply
  <2>2. CASE tty[cur].used
    BY <1>8, <2>1, <2>2 DEF ReadAnswer, AfterReply
  <2>3. CASE ~ tty[cur].used
    BY <1>8, <2>1, <2>3 DEF ReadAnswer, AfterReply
  <2> QED BY <2>2, <2>3
<1>9. CASE ReadClaim
  <2>1. cur \in Disks /\ tty[cur] \in Reply /\ tty[cur].used \in BOOLEAN
    BY <1>9 DEF ReadClaim, Reply
  <2>2. first_free_id # root[fs] => dirty_dfs'
    BY <1>9, <2>1 DEF ReadClaim, MarkDirty
  <2> QED BY <1>9, <2>2 DEF ReadClaim
<1>10. CASE SaveRoot
  BY <1>10 DEF SaveRoot, WriteRoot
<1>11. ASSUME DieUnsaved, phase # "off" PROVE WillSave'
  BY <1>11 DEF DieUnsaved
<1>12. CASE Panic
  BY <1>11, <1>12 DEF Panic, Silent
<1>13. CASE Killed
  BY <1>11, <1>13 DEF Killed
<1>21. CASE AnswerLost
  BY <1>21 DEF AnswerLost
<1>22. CASE BootPanics
  BY <1>11, <1>22 DEF BootPanics
<1>14. ASSUME NEW d \in Disks, PiMounts(d) PROVE WillSave'
  BY <1>14 DEF PiMounts
<1>15. ASSUME NEW d \in Disks, PiPanics(d) PROVE WillSave'
  BY <1>15 DEF PiPanics
<1>16. ASSUME NEW d \in Disks, IdForDfs(d) PROVE WillSave'
  BY <1>16 DEF IdForDfs
<1>17. ASSUME NEW d \in Disks, PiAnswers(d) PROVE WillSave'
  BY <1>17 DEF PiAnswers
<1>18. ASSUME NEW d \in Disks, Reset(d) PROVE WillSave'
  BY <1>18 DEF Reset
<1>20. ASSUME NEW d \in Disks, StartsLate(d) PROVE WillSave'
  BY <1>20 DEF StartsLate
<1>19. CASE UNCHANGED vars
  BY <1>19 DEF vars
<1> QED
  BY <1>1, <1>2, <1>3, <1>4, <1>5, <1>6, <1>7, <1>8, <1>9, <1>10, <1>12,
     <1>13, <1>14, <1>15, <1>16, <1>17, <1>18, <1>19, <1>20, <1>21, <1>22
     DEF Next, MacWorks, PiWorks

\* The counter of a filesystem never goes back, but when deploy dies with it.
CounterKept ==
    /\ forgotten \subseteq forgotten'
    /\ \A n \in FsNames \ forgotten' : Counter(n)' >= Counter(n)

\* A step keeps the counter of every filesystem, or forgets it.
LEMMA CounterStep ==
  ASSUME TypeOK, Session, WillSave, [Next]_vars
  PROVE  CounterKept
<1> USE DEF TypeOK, Session, WillSave, CounterKept, Counter, macVars, piVars, histVars
<1>1. ASSUME NEW n \in FsNames, NEW S \in SUBSET Disks, Deploy(n, S) PROVE CounterKept
  BY <1>1 DEF Deploy
<1>2. ASSUME NEW d \in Disks, OpenPi(d) PROVE CounterKept
  BY <1>2 DEF OpenPi
<1>3. CASE OpenFails
  BY <1>3 DEF OpenFails
<1>4. CASE LoadKernel
  BY <1>4 DEF LoadKernel
<1>5. CASE SendName
  BY <1>5 DEF SendName
<1>6. CASE SelectTimeout
  BY <1>6 DEF SelectTimeout
<1>7. CASE OfferId
  BY <1>7 DEF OfferId
<1>8. CASE ReadAnswer
  <2>1. first_free_id' >= first_free_id
    BY <1>8 DEF ReadAnswer, AfterReply
  <2> QED BY <1>8, <2>1 DEF ReadAnswer
<1>9. CASE ReadClaim
  BY <1>9 DEF ReadClaim
<1>10. CASE SaveRoot
  BY <1>10 DEF SaveRoot, WriteRoot
<1>11. ASSUME DieUnsaved, phase # "off" PROVE CounterKept
  BY <1>11 DEF DieUnsaved
<1>12. CASE Panic
  BY <1>11, <1>12 DEF Panic, Silent
<1>13. CASE Killed
  BY <1>11, <1>13 DEF Killed
<1>21. CASE AnswerLost
  BY <1>21 DEF AnswerLost
<1>22. CASE BootPanics
  BY <1>11, <1>22 DEF BootPanics
<1>14. ASSUME NEW d \in Disks, PiMounts(d) PROVE CounterKept
  BY <1>14 DEF PiMounts
<1>15. ASSUME NEW d \in Disks, PiPanics(d) PROVE CounterKept
  BY <1>15 DEF PiPanics
<1>16. ASSUME NEW d \in Disks, IdForDfs(d) PROVE CounterKept
  BY <1>16 DEF IdForDfs
<1>17. ASSUME NEW d \in Disks, PiAnswers(d) PROVE CounterKept
  BY <1>17 DEF PiAnswers
<1>18. ASSUME NEW d \in Disks, Reset(d) PROVE CounterKept
  BY <1>18 DEF Reset
<1>20. ASSUME NEW d \in Disks, StartsLate(d) PROVE CounterKept
  BY <1>20 DEF StartsLate
<1>19. CASE UNCHANGED vars
  BY <1>19 DEF vars
<1> QED
  BY <1>1, <1>2, <1>3, <1>4, <1>5, <1>6, <1>7, <1>8, <1>9, <1>10, <1>12,
     <1>13, <1>14, <1>15, <1>16, <1>17, <1>18, <1>19, <1>20, <1>21, <1>22
     DEF Next, MacWorks, PiWorks

\* Ids stay below the counter, but for the offer on its way.
LEMMA CoveredStep ==
  ASSUME TypeOK, Session, Remembers, Offered, WillSave, Covered, [Next]_vars
  PROVE  Covered'
<1> USE DEF TypeOK, Session, Covered, Committed, Counter, Talking, Dialogue, macVars, piVars, histVars
<1>1. ASSUME NEW n \in FsNames, NEW S \in SUBSET Disks, Deploy(n, S) PROVE Covered'
  BY <1>1 DEF Deploy
<1>2. ASSUME NEW d \in Disks, OpenPi(d) PROVE Covered'
  BY <1>2 DEF OpenPi
<1>3. CASE OpenFails
  BY <1>3 DEF OpenFails
<1>4. CASE LoadKernel
  BY <1>4 DEF LoadKernel
<1>5. CASE SendName
  BY <1>5 DEF SendName
<1>6. CASE SelectTimeout
  BY <1>6 DEF SelectTimeout
<1>7. CASE OfferId
  BY <1>7 DEF OfferId
<1>8. CASE ReadAnswer
  <2>1. cur \in Disks /\ fs \in FsNames /\ tty[cur] # None
    BY <1>8 DEF ReadAnswer
  <2>2. CASE tty[cur].used
    <3>1. first_free_id' = first_free_id + 1
      BY <1>8, <2>2 DEF ReadAnswer, AfterReply
    <3>2. UNCHANGED <<root, fs, cur, pi, ram, cfg, tty, forgotten, misread>> /\ phase = "answer" /\ phase' = "claim"
      BY <1>8 DEF ReadAnswer
    <3>3. SUFFICES ASSUME NEW n \in FsNames \ forgotten, Counter(n)' < IdSpace,
                          NEW e \in Disks \ misread, NEW k \in DOMAIN cfg[e], cfg[e][k].name = n
                   PROVE  cfg[e][k].id < Counter(n)'
      BY <3>2
    <3>4. cfg[e][k].id \in Nat
      <4>1. cfg[e][k] \in Entry
        OBVIOUS
      <4> QED BY <4>1 DEF Entry, Ids
    <3>5. Counter(n) < IdSpace /\ Counter(n) \in Nat
      BY <2>1, <3>1, <3>2, <3>3, IdsAssumption
    <3>6. cfg[e][k].id < Counter(n) \/ (fs = n /\ cfg[e][k].id = first_free_id)
      BY <3>3, <3>5
    <3> QED BY <3>1, <3>2, <3>4, <3>5, <3>6
  <2>3. CASE ~ tty[cur].used
    <3>1. first_free_id' = first_free_id
      BY <1>8, <2>3 DEF ReadAnswer, AfterReply
    <3>2. UNCHANGED <<root, fs, cur, pi, ram, cfg, tty, forgotten, misread>> /\ phase = "answer" /\ phase' = "claim"
      BY <1>8 DEF ReadAnswer
    <3>3. \A n \in FsNames : Counter(n)' = Counter(n)
      BY <3>1, <3>2
    <3>4. ~ Committed(cur)
      BY <2>1, <2>3
    <3> HIDE DEF Counter, Committed
    <3> QED BY <3>2, <3>3, <3>4
  <2> QED BY <2>2, <2>3
<1>9. CASE ReadClaim
  BY <1>9 DEF ReadClaim
<1>10. CASE SaveRoot
  <2>1. \A n \in FsNames \ forgotten' : Counter(n)' = Counter(n)
    BY <1>10 DEF SaveRoot, WriteRoot, WillSave
  <2>2. phase # "answer" /\ phase' = "off" /\ UNCHANGED <<cfg, misread>> /\ forgotten \subseteq forgotten'
    BY <1>10 DEF SaveRoot, WriteRoot
  <2> HIDE DEF Counter, Committed
  <2> QED BY <2>1, <2>2
<1>11. ASSUME DieUnsaved, phase # "off" PROVE Covered'
  BY <1>11 DEF DieUnsaved
<1>12. CASE Panic
  BY <1>11, <1>12 DEF Panic, Silent
<1>13. CASE Killed
  BY <1>11, <1>13 DEF Killed
<1>21. CASE AnswerLost
  BY <1>21 DEF AnswerLost
<1>22. CASE BootPanics
  BY <1>11, <1>22 DEF BootPanics
<1>14. ASSUME NEW d \in Disks, PiMounts(d) PROVE Covered'
  BY <1>14 DEF PiMounts
<1>15. ASSUME NEW d \in Disks, PiPanics(d) PROVE Covered'
  BY <1>15 DEF PiPanics
<1>16. ASSUME NEW d \in Disks, IdForDfs(d) PROVE Covered'
  <2>1. \A f \in Disks : f # d => ram'[f] = ram[f]
    BY <1>16, IdForDfsEffect
  <2>2. /\ pi[d] = "asked" /\ pi' = [pi EXCEPT ![d] = "decided"]
        /\ UNCHANGED <<root, phase, fs, first_free_id, cur, tty, forgotten>>
        /\ misread \subseteq misread'
    BY <1>16 DEF IdForDfs
  <2>3. SUFFICES ASSUME NEW n \in FsNames \ forgotten, Counter(n) < IdSpace,
                        NEW e \in Disks \ misread', NEW k \in DOMAIN cfg'[e], cfg'[e][k].name = n
                 PROVE  \/ cfg'[e][k].id < Counter(n)
                        \/ /\ phase = "answer"
                           /\ fs = n
                           /\ cur = e
                           /\ cfg'[e][k].id = first_free_id
                           /\ Committed(e)'
    BY <2>2
  <2>4. ASSUME k \in DOMAIN cfg[e], cfg'[e][k] = cfg[e][k]
        PROVE  \/ cfg'[e][k].id < Counter(n)
               \/ /\ phase = "answer"
                  /\ fs = n
                  /\ cur = e
                  /\ cfg'[e][k].id = first_free_id
                  /\ Committed(e)'
    <3>1. CASE e = d
      <4>1. ~ Committed(d)
        BY <2>2
      <4> HIDE DEF Committed
      <4> QED BY <2>2, <2>3, <2>4, <3>1, <4>1
    <3>2. CASE e # d
      <4>1. Committed(e)' <=> Committed(e)
        BY <2>1, <2>2, <3>2
      <4> HIDE DEF Committed
      <4> QED BY <2>2, <2>3, <2>4, <4>1
    <3> QED BY <3>1, <3>2
  <2>5. ASSUME e = d, ram'[d].used, cfg'[e][k] = [name |-> ram[d].fs, id |-> ram[d].id]
        PROVE  /\ phase = "answer"
               /\ fs = n
               /\ cur = e
               /\ cfg'[e][k].id = first_free_id
               /\ Committed(e)'
    <3>1. ram[d].fs = n /\ cfg'[e][k].id = ram[d].id
      BY <2>3, <2>5
    <3>2. phase = "answer" /\ cur = d /\ fs = n /\ ram[d].id = Offer(first_free_id)
      BY <2>2, <2>3, <3>1 DEF Offered
    <3>3. Offer(first_free_id) = first_free_id
      BY <2>3, <3>2, OfferIsId
    <3>4. Committed(d)'
      BY <2>2, <2>5, <3>2
    <3> QED BY <2>5, <3>1, <3>2, <3>3, <3>4
  <2>6. \/ k \in DOMAIN cfg[e] /\ cfg'[e][k] = cfg[e][k]
        \/ e = d /\ ram'[d].used /\ cfg'[e][k] = [name |-> ram[d].fs, id |-> ram[d].id]
    BY <1>16, <2>3, EntriesAfterIdForDfs
  <2> QED BY <2>4, <2>5, <2>6
<1>17. ASSUME NEW d \in Disks, PiAnswers(d) PROVE Covered'
  BY <1>17 DEF PiAnswers
<1>18. ASSUME NEW d \in Disks, Reset(d) PROVE Covered'
  BY <1>18 DEF Reset
<1>20. ASSUME NEW d \in Disks, StartsLate(d) PROVE Covered'
  BY <1>20 DEF StartsLate
<1>19. CASE UNCHANGED vars
  BY <1>19 DEF vars
<1> QED
  BY <1>1, <1>2, <1>3, <1>4, <1>5, <1>6, <1>7, <1>8, <1>9, <1>10, <1>12,
     <1>13, <1>14, <1>15, <1>16, <1>17, <1>18, <1>19, <1>20, <1>21, <1>22
     DEF Next, MacWorks, PiWorks

\* The offer that is about to be recorded is the counter, and every id that a
\* sector has for the filesystem is below it.
LEMMA OfferIsFresh ==
  ASSUME TypeOK, Offered, Covered, NEW d \in Disks, IdForDfs(d),
         NEW n \in FsNames, n = ram[d].fs, n \notin forgotten, Counter(n) < IdSpace
  PROVE  /\ ram[d].id = Counter(n)
         /\ \A e \in Disks \ misread : \A k \in DOMAIN cfg[e] :
              cfg[e][k].name = n => cfg[e][k].id < Counter(n)
<1>1. pi[d] = "asked"
  BY DEF IdForDfs
<1>2. phase = "answer" /\ cur = d /\ fs = n /\ ram[d].id = Offer(first_free_id)
  BY <1>1 DEF Offered
<1>3. Counter(n) = first_free_id /\ first_free_id \in Nat
  BY <1>2 DEF Counter, TypeOK
<1>4. ram[d].id = Counter(n)
  BY <1>2, <1>3, OfferIsId
<1>5. ASSUME NEW e \in Disks \ misread, NEW k \in DOMAIN cfg[e], cfg[e][k].name = n
      PROVE  cfg[e][k].id < Counter(n)
  <2>1. cfg[e][k].id < Counter(n) \/ (cur = e /\ Committed(e))
    BY <1>5 DEF Covered
  <2> QED BY <1>1, <1>2, <2>1 DEF Committed
<1> QED BY <1>4, <1>5

\* No second disk records an id that is in use.
LEMMA UniqueStep ==
  ASSUME TypeOK, Session, Remembers, Offered, WillSave, Covered, UniqueIds, [Next]_vars
  PROVE  UniqueIds'
<1>1. CounterKept
  BY CounterStep
<1>2. \A n \in FsNames : Counter(n) \in Nat
  BY DEF TypeOK, Counter
<1>3. \A n \in FsNames \ forgotten' : Counter(n)' < IdSpace => n \notin forgotten /\ Counter(n) < IdSpace
  <2>1. TypeOK'
    BY TypeStep
  <2>2. \A n \in FsNames : Counter(n)' \in Nat
    BY <2>1 DEF TypeOK, Counter
  <2> QED BY <1>1, <1>2, <2>2, IdsAssumption DEF CounterKept
<1>4. CASE UNCHANGED <<cfg, unwritten, misread>>
  BY <1>3, <1>4 DEF UniqueIds, Holds
<1>5. ASSUME NEW d \in Disks, IdForDfs(d) PROVE UniqueIds'
  <2> DEFINE name == ram[d].fs
             id   == ram[d].id
  <2>1. name \in FsNames /\ id \in Ids /\ misread \subseteq misread'
    BY <1>5, IdForDfsEffect
  <2>2. \A e \in Disks \ misread', n \in FsNames, i \in Ids :
          Holds(e, n, i)' => Holds(e, n, i) \/ (e = d /\ n = name /\ i = id)
    <3>1. SUFFICES ASSUME NEW e \in Disks \ misread', NEW n \in FsNames, NEW i \in Ids,
                          NEW k \in DOMAIN cfg'[e], cfg'[e][k] = [name |-> n, id |-> i]
                   PROVE  Holds(e, n, i) \/ (e = d /\ n = name /\ i = id)
      BY DEF Holds
    <3>2. \/ k \in DOMAIN cfg[e] /\ cfg'[e][k] = cfg[e][k]
          \/ e = d /\ cfg'[e][k] = [name |-> name, id |-> id]
      BY <1>5, EntriesAfterIdForDfs
    <3> QED BY <3>1, <3>2 DEF Holds
  <2>3. ASSUME NEW e \in Disks \ misread, NEW i \in Ids, name \notin forgotten,
               Counter(name) < IdSpace, Holds(e, name, i)
        PROVE  i < Counter(name)
    <3>1. PICK k \in DOMAIN cfg[e] : cfg[e][k] = [name |-> name, id |-> i]
      BY <2>3 DEF Holds
    <3>2. PICK n \in FsNames : n = name
      BY <2>1
    <3>3. cfg[e][k].id < Counter(n)
      BY <1>5, <2>3, <3>1, <3>2, OfferIsFresh
    <3> QED BY <3>1, <3>2, <3>3
  <2>4. name \notin forgotten /\ Counter(name) < IdSpace => id = Counter(name)
    <3>1. PICK n \in FsNames : n = name
      BY <2>1
    <3> QED BY <1>5, <3>1, OfferIsFresh
  <2>5. SUFFICES ASSUME NEW n \in FsNames \ forgotten', Counter(n)' < IdSpace,
                        NEW e \in Disks \ misread', NEW f \in Disks \ misread', NEW i \in Ids,
                        Holds(e, n, i)', Holds(f, n, i)'
                 PROVE  e = f
    BY DEF UniqueIds
  <2>6. n \notin forgotten /\ Counter(n) < IdSpace /\ e \notin misread /\ f \notin misread
    BY <1>3, <2>1, <2>5
  <2>7. CASE Holds(e, n, i) /\ Holds(f, n, i)
    BY <2>6, <2>7 DEF UniqueIds
  <2>8. CASE n = name /\ i = id
    <3>1. i = Counter(n) /\ i \in Nat
      BY <1>2, <2>4, <2>6, <2>8
    <3>2. ~ Holds(e, n, i) /\ ~ Holds(f, n, i)
      BY <2>3, <2>6, <2>8, <3>1
    <3> QED BY <2>2, <2>5, <3>2
  <2> QED BY <2>2, <2>5, <2>7, <2>8
<1> QED BY <1>4, <1>5, SectorStep

\* The pi that is waited for is not given another name or offer meanwhile.
LEMMA SameTalkStep ==
  ASSUME TypeOK, Session, Remembers, SameTalk, [Next]_vars
  PROVE  SameTalk'
<1> USE DEF TypeOK, Session, SameTalk, Talking, Dialogue, macVars, piVars, histVars
<1>1. ASSUME NEW n \in FsNames, NEW S \in SUBSET Disks, Deploy(n, S) PROVE SameTalk'
  BY <1>1 DEF Deploy
<1>2. ASSUME NEW d \in Disks, OpenPi(d) PROVE SameTalk'
  BY <1>2 DEF OpenPi
<1>3. CASE OpenFails
  BY <1>3 DEF OpenFails
<1>4. CASE LoadKernel
  BY <1>4 DEF LoadKernel
<1>5. CASE SendName
  BY <1>5 DEF SendName
<1>6. CASE SelectTimeout
  BY <1>6 DEF SelectTimeout
<1>7. CASE OfferId
  <2> DEFINE m == [ram[cur] EXCEPT !.id = Offer(first_free_id)]
  <2>1. cur \in Disks /\ ram[cur].fs = fs /\ ram[cur] \in Memory
    BY <1>7 DEF OfferId, Remembers
  <2>2. /\ ram' = [ram EXCEPT ![cur] = m] /\ pi' = [pi EXCEPT ![cur] = "asked"]
        /\ UNCHANGED <<cur, fs, first_free_id>>
    BY <1>7 DEF OfferId
  <2>3. m.fs = fs /\ m.id = Offer(first_free_id)
    BY <2>1 DEF Memory
  <2> HIDE DEF m
  <2> QED BY <2>1, <2>2, <2>3
<1>8. CASE ReadAnswer
  BY <1>8 DEF ReadAnswer
<1>9. CASE ReadClaim
  BY <1>9 DEF ReadClaim
<1>10. CASE SaveRoot
  BY <1>10 DEF SaveRoot, WriteRoot
<1>11. ASSUME DieUnsaved PROVE SameTalk'
  BY <1>11 DEF DieUnsaved
<1>12. CASE Panic
  BY <1>11, <1>12 DEF Panic
<1>13. CASE Killed
  BY <1>11, <1>13 DEF Killed
<1>21. CASE AnswerLost
  BY <1>21 DEF AnswerLost
<1>22. CASE BootPanics
  BY <1>11, <1>22 DEF BootPanics
<1>14. ASSUME NEW d \in Disks, PiMounts(d) PROVE SameTalk'
  BY <1>14 DEF PiMounts
<1>15. ASSUME NEW d \in Disks, PiPanics(d) PROVE SameTalk'
  BY <1>15 DEF PiPanics
<1>16. ASSUME NEW d \in Disks, IdForDfs(d) PROVE SameTalk'
  <2>1. \A f \in Disks : f # d => ram'[f] = ram[f] /\ pi'[f] = pi[f]
    BY <1>16, IdForDfsEffect DEF IdForDfs
  <2>2. ram'[d].fs = ram[d].fs
    <3>1. PICK m \in Memory : ram' = [ram EXCEPT ![d] = m] /\ m.fs = ram[d].fs
      BY <1>16, IdForDfsEffect
    <3> QED BY <3>1
  <2>3. pi[d] = "asked" /\ pi'[d] = "decided" /\ UNCHANGED <<phase, fs, first_free_id, cur>>
    BY <1>16 DEF IdForDfs
  <2> QED BY <2>1, <2>2, <2>3
<1>17. ASSUME NEW d \in Disks, PiAnswers(d) PROVE SameTalk'
  BY <1>17 DEF PiAnswers
<1>18. ASSUME NEW d \in Disks, Reset(d) PROVE SameTalk'
  BY <1>18 DEF Reset
<1>19. CASE UNCHANGED vars
  BY <1>19 DEF vars
<1>20. ASSUME NEW d \in Disks, StartsLate(d) PROVE SameTalk'
  BY <1>20 DEF StartsLate
<1> QED
  BY <1>1, <1>2, <1>3, <1>4, <1>5, <1>6, <1>7, <1>8, <1>9, <1>10, <1>12,
     <1>13, <1>14, <1>15, <1>16, <1>17, <1>18, <1>19, <1>20, <1>21, <1>22
     DEF Next, MacWorks, PiWorks

\* A new entry has a name that no other entry of its sector has.
LEMMA OneEntryStep ==
  ASSUME TypeOK, Remembers, OneEntry, [Next]_vars
  PROVE  OneEntry'
<1>1. CASE UNCHANGED <<cfg, unwritten, misread>>
  BY <1>1 DEF OneEntry
<1>2. ASSUME NEW d \in Disks, IdForDfs(d) PROVE OneEntry'
  <2> DEFINE name == ram[d].fs
             id   == ram[d].id
  <2>1. /\ name \in FsNames /\ id \in Ids /\ cfg[d] \in Seq(Entry)
        /\ \A e \in Disks : e # d => cfg'[e] = cfg[e]
        /\ misread \subseteq misread'
        /\ \/ cfg'[d] = cfg[d]
           \/ d \in misread'
           \/ Matches(cfg[d], name) = {} /\ cfg'[d] = Recorded(cfg[d], name, id)
    BY <1>2, IdForDfsSector DEF TypeOK
  <2>2. SUFFICES ASSUME d \notin misread', NEW j \in DOMAIN cfg'[d], NEW k \in DOMAIN cfg'[d],
                        cfg'[d][j].name = cfg'[d][k].name
                 PROVE  j = k
    BY <2>1 DEF OneEntry
  <2>3. CASE cfg'[d] = cfg[d]
    BY <2>1, <2>2, <2>3 DEF OneEntry
  <2>4. CASE cfg'[d] # cfg[d]
    <3>1. HasRoom(cfg[d]) /\ cfg'[d] = Recorded(cfg[d], name, id)
      BY <2>1, <2>2, <2>4 DEF Recorded
    <3>2. /\ \A l \in DOMAIN cfg'[d] : l \in DOMAIN cfg[d] \/ l = Len(cfg[d]) + 1
          /\ cfg'[d][Len(cfg[d]) + 1] = [name |-> name, id |-> id]
      <4> HIDE DEF name, id
      <4> QED BY <2>1, <3>1, RecordedAdds
    <3>5. cfg'[d][Len(cfg[d]) + 1].name = name
      BY <3>2
    <3>3. \A l \in DOMAIN cfg[d] : cfg'[d][l] = cfg[d][l]
      BY <2>1, <3>1, RecordedKeeps
    <3>4. \A l \in DOMAIN cfg[d] : cfg[d][l].name # name
      BY <2>1, <2>2, <2>4, SameNameReflexive DEF Matches
    <3> HIDE DEF name
    <3> QED BY <2>1, <2>2, <3>2, <3>3, <3>4, <3>5 DEF OneEntry
  <2> QED BY <2>3, <2>4
<1> QED BY <1>1, <1>2, SectorStep

\* A pi that has decided has just run id_for_dfs, or had decided before.
LEMMA DecidedStep ==
  ASSUME TypeOK, [Next]_vars, NEW d \in Disks, pi'[d] = "decided"
  PROVE  IdForDfs(d) \/ (pi[d] = "decided" /\ ram'[d] = ram[d])
<1> USE DEF TypeOK, macVars, piVars, histVars
<1> DEFINE Still == pi[d] = "decided" /\ ram'[d] = ram[d]
<1>1. CASE UNCHANGED <<pi, ram>>
  BY <1>1
<1>2. CASE LoadKernel \/ SendName \/ OfferId
  BY <1>2 DEF LoadKernel, SendName, OfferId
<1>3. ASSUME NEW e \in Disks, PiMounts(e) \/ PiPanics(e) \/ PiAnswers(e) \/ StartsLate(e) \/ Reset(e)
      PROVE  Still
  BY <1>3 DEF PiMounts, PiPanics, PiAnswers, StartsLate, Reset
<1>4. ASSUME NEW e \in Disks, e # d, IdForDfs(e) PROVE Still
  BY <1>4 DEF IdForDfs, Search
<1>5. ASSUME ~ UNCHANGED <<pi, ram>>
      PROVE  \/ LoadKernel \/ SendName \/ OfferId
             \/ \E e \in Disks : PiMounts(e) \/ PiPanics(e) \/ PiAnswers(e)
                                 \/ StartsLate(e) \/ Reset(e) \/ IdForDfs(e)
  BY <1>5 DEF Next, MacWorks, PiWorks, Deploy, OpenPi, OpenFails, SelectTimeout,
     ReadAnswer, ReadClaim, SaveRoot, WriteRoot, Panic, Killed, BootPanics, AnswerLost, DieUnsaved, vars
<1> QED BY <1>1, <1>2, <1>3, <1>4, <1>5

\* The reply that deploy reads was waiting before, or the pi it talks to has
\* just sent what it had decided.
LEMMA ReplyStep ==
  ASSUME TypeOK, Session, SameTalk, [Next]_vars,
         phase' \in {"answer", "claim"}, tty'[cur'] # None
  PROVE  /\ UNCHANGED <<cur, fs>> /\ cur \in Disks
         /\ phase' = "answer" => phase = "answer" /\ UNCHANGED first_free_id
         /\ \/ phase \in {"answer", "claim"} /\ tty'[cur] = tty[cur]
            \/ /\ phase = "answer" /\ pi[cur] = "decided" /\ ram[cur].fs = fs
               /\ tty'[cur] = [used |-> ram[cur].used, id |-> ram[cur].id]
<1> USE DEF TypeOK, Session, SameTalk, Talking, Dialogue, macVars, piVars, histVars
<1> DEFINE Goal ==
         /\ UNCHANGED <<cur, fs>> /\ cur \in Disks
         /\ phase' = "answer" => phase = "answer" /\ UNCHANGED first_free_id
         /\ \/ phase \in {"answer", "claim"} /\ tty'[cur] = tty[cur]
            \/ /\ phase = "answer" /\ pi[cur] = "decided" /\ ram[cur].fs = fs
               /\ tty'[cur] = [used |-> ram[cur].used, id |-> ram[cur].id]
<1>1. CASE UNCHANGED <<phase, cur, fs, first_free_id, tty>>
  BY <1>1
<1>2. CASE OfferId
  BY <1>2 DEF OfferId
<1>3. CASE ReadAnswer
  BY <1>3 DEF ReadAnswer
<1>4. ASSUME NEW d \in Disks, PiAnswers(d) PROVE Goal
  <2>1. /\ pi[d] = "decided" /\ UNCHANGED <<phase, cur, fs, first_free_id>>
        /\ tty' = [tty EXCEPT ![d] = [used |-> ram[d].used, id |-> ram[d].id]]
    BY <1>4 DEF PiAnswers
  <2>2. CASE d # cur
    BY <2>1, <2>2
  <2>3. CASE d = cur
    BY <2>1, <2>3
  <2> QED BY <2>2, <2>3
<1>5. ASSUME ~ UNCHANGED <<phase, cur, fs, first_free_id, tty>>
      PROVE  \/ OfferId \/ ReadAnswer
             \/ \E d \in Disks : PiAnswers(d)
  BY <1>5 DEF Next, MacWorks, PiWorks, Deploy, OpenPi, OpenFails, LoadKernel, SendName,
     SelectTimeout, ReadClaim, SaveRoot, WriteRoot, Panic, Killed, BootPanics, AnswerLost, DieUnsaved,
     PiMounts, PiPanics, IdForDfs, StartsLate, Reset, vars
<1> QED BY <1>1, <1>2, <1>3, <1>4, <1>5

\* A reply is what a lookup on the card finds.
LEMMA HonestStep ==
  ASSUME TypeOK, Session, Remembers, SameTalk, Honest, [Next]_vars
  PROVE  Honest'
<1>1. ASSUME NEW d \in Disks, pi'[d] = "decided"
      PROVE  Recalls(d, ram[d].fs, ram[d].id)'
  <2>1. CASE IdForDfs(d)
    <3>1. PICK n, i : n = ram[d].fs /\ i = ram'[d].id
      OBVIOUS
    <3>2. ram'[d].fs = n /\ Recalls(d, n, i)'
      BY <2>1, <3>1, IdForDfsAnswer
    <3> QED BY <3>1, <3>2 DEF Recalls
  <2>2. CASE pi[d] = "decided" /\ ram'[d] = ram[d]
    <3>1. PICK n, i : n = ram[d].fs /\ i = ram[d].id
      OBVIOUS
    <3>2. Recalls(d, n, i)
      BY <2>2, <3>1 DEF Honest
    <3>3. Recalls(d, n, i)'
      BY <3>2, RecallsKept
    <3> QED BY <2>2, <3>1, <3>3 DEF Recalls
  <2> QED BY <1>1, <2>1, <2>2, DecidedStep
<1>2. ASSUME phase' \in {"answer", "claim"}, tty'[cur'] # None
      PROVE  Recalls(cur, fs, tty[cur].id)'
  <2>1. PICK d, n, i : d = cur /\ n = fs /\ i = tty'[cur].id
    OBVIOUS
  <2>2. UNCHANGED <<cur, fs>> /\ d \in Disks
    BY <1>2, <2>1, ReplyStep
  <2>3. CASE phase \in {"answer", "claim"} /\ tty'[cur] = tty[cur]
    <3>1. Recalls(d, n, i)
      BY <1>2, <2>1, <2>2, <2>3 DEF Honest
    <3>2. Recalls(d, n, i)'
      BY <2>2, <3>1, RecallsKept
    <3> QED BY <2>1, <2>2, <3>2 DEF Recalls
  <2>4. CASE /\ phase = "answer" /\ pi[cur] = "decided" /\ ram[cur].fs = fs
             /\ tty'[cur] = [used |-> ram[cur].used, id |-> ram[cur].id]
    <3>1. Recalls(d, n, i)
      BY <2>1, <2>2, <2>4 DEF Honest
    <3>2. Recalls(d, n, i)'
      BY <2>2, <3>1, RecallsKept
    <3> QED BY <2>1, <2>2, <3>2 DEF Recalls
  <2> QED BY <1>2, <2>3, <2>4, ReplyStep
<1> QED BY <1>1, <1>2 DEF Honest

\* What deploy prints is the reply of the pi, and stays true.
LEMMA ToldStep ==
  ASSUME TypeOK, Session, Remembers, Honest, ToldIsRecorded, [Next]_vars
  PROVE  ToldIsRecorded'
<1>1. ASSUME NEW t \in told PROVE Recalls(t.disk, t.fs, t.id)'
  <2>1. t.disk \in Disks
    BY DEF TypeOK
  <2>2. Recalls(t.disk, t.fs, t.id)
    BY DEF ToldIsRecorded
  <2> QED BY <2>1, <2>2, RecallsKept
<1>2. CASE told' = told
  BY <1>1, <1>2 DEF ToldIsRecorded
<1>3. CASE ReadClaim
  <2>1. PICK d, n, i : d = cur /\ n = fs /\ i = tty[cur].id
    OBVIOUS
  <2>2. d \in Disks /\ Recalls(d, n, i)
    BY <1>3, <2>1 DEF ReadClaim, Session, Talking, Dialogue, Honest
  <2>3. Recalls(d, n, i)'
    BY <2>2, RecallsKept
  <2>4. told' = told \cup {[disk |-> d, fs |-> n, id |-> i]}
    BY <1>3, <2>1 DEF ReadClaim
  <2>5. \A t \in told' : t \in told \/ (t.disk = d /\ t.fs = n /\ t.id = i)
    BY <2>4
  <2> QED BY <1>1, <2>3, <2>5 DEF ToldIsRecorded
<1>4. told' = told \/ ReadClaim
  BY DEF Next, MacWorks, PiWorks, Deploy, OpenPi, OpenFails, LoadKernel, SendName,
     SelectTimeout, OfferId, ReadAnswer, SaveRoot, WriteRoot, Panic, Killed, BootPanics, AnswerLost, DieUnsaved,
     PiMounts, PiPanics, IdForDfs, PiAnswers, StartsLate, Reset, vars, histVars
<1> QED BY <1>2, <1>3, <1>4

\* A pi that says that it used the offer did so.
LEMMA SpentStep ==
  ASSUME TypeOK, Session, Remembers, SameTalk, Spent, [Next]_vars
  PROVE  Spent'
<1> SUFFICES ASSUME phase' = "answer"
             PROVE  /\ pi'[cur'] = "decided" /\ ram'[cur'].used => Taken(cur, fs, Offer(first_free_id))'
                    /\ tty'[cur'] # None /\ tty'[cur'].used => Taken(cur, fs, Offer(first_free_id))'
  BY DEF Spent
<1>1. ASSUME pi'[cur'] = "decided", ram'[cur'].used
      PROVE  Taken(cur, fs, Offer(first_free_id))'
  <2>1. phase = "answer" /\ UNCHANGED <<cur, fs, first_free_id>> /\ cur \in Disks
    <3>1. CASE UNCHANGED <<phase, cur, fs, first_free_id>>
      BY <3>1 DEF Session, Talking, Dialogue
    <3>2. CASE UNCHANGED <<phase, cur, fs, first_free_id>> \/ OfferId
      BY <1>1, <3>1, <3>2 DEF OfferId, TypeOK, Session, Talking, Dialogue
    <3>3. UNCHANGED <<phase, cur, fs, first_free_id>> \/ OfferId
      BY DEF Next, MacWorks, PiWorks, Deploy, OpenPi, OpenFails, LoadKernel, SendName,
         SelectTimeout, ReadAnswer, ReadClaim, SaveRoot, WriteRoot, Panic, Killed, BootPanics, AnswerLost, DieUnsaved,
         PiMounts, PiPanics, IdForDfs, PiAnswers, StartsLate, Reset, vars, macVars
    <3> QED BY <3>2, <3>3
  <2>2. PICK d, n, i : d = cur /\ n = fs /\ i = Offer(first_free_id)
    OBVIOUS
  <2>3. CASE IdForDfs(d)
    <3>1. n = ram[d].fs /\ i = ram[d].id
      BY <2>1, <2>2, <2>3 DEF SameTalk, IdForDfs
    <3>2. PICK j : j = ram'[d].id
      OBVIOUS
    <3>3. j = ram[d].id /\ Taken(d, n, j)'
      BY <1>1, <2>1, <2>2, <2>3, <3>1, <3>2, IdForDfsAnswer
    <3> QED BY <2>1, <2>2, <3>1, <3>3 DEF Taken, Holds, Offer
  <2>4. CASE pi[d] = "decided" /\ ram'[d] = ram[d]
    <3>1. Taken(d, n, i)
      BY <1>1, <2>1, <2>2, <2>4 DEF Spent
    <3>2. Taken(d, n, i)'
      BY <2>1, <2>2, <3>1, TakenKept
    <3> QED BY <2>1, <2>2, <3>2 DEF Taken, Holds, Offer
  <2>5. IdForDfs(d) \/ (pi[d] = "decided" /\ ram'[d] = ram[d])
    BY <1>1, <2>1, <2>2, DecidedStep
  <2> QED BY <2>3, <2>4, <2>5
<1>2. ASSUME tty'[cur'] # None, tty'[cur'].used
      PROVE  Taken(cur, fs, Offer(first_free_id))'
  <2>1. /\ phase = "answer" /\ UNCHANGED <<cur, fs, first_free_id>> /\ cur \in Disks
        /\ \/ tty'[cur] = tty[cur]
           \/ /\ pi[cur] = "decided"
              /\ tty'[cur] = [used |-> ram[cur].used, id |-> ram[cur].id]
    BY <1>2, ReplyStep
  <2>2. PICK d, n, i : d = cur /\ n = fs /\ i = Offer(first_free_id)
    OBVIOUS
  <2>3. Taken(d, n, i)
    BY <1>2, <2>1, <2>2 DEF Spent
  <2>4. Taken(d, n, i)'
    BY <2>1, <2>2, <2>3, TakenKept
  <2> QED BY <2>1, <2>2, <2>4 DEF Taken, Holds, Offer
<1> QED BY <1>1, <1>2

\* A counter only moves past an id whose offer deploy was told is used.
LEMMA CounterMoves ==
  ASSUME TypeOK, Session, WillSave, [Next]_vars, NEW n \in FsNames
  PROVE  \/ Counter(n)' <= Counter(n)
         \/ /\ phase = "answer" /\ n = fs /\ cur \in Disks
            /\ tty[cur] # None /\ tty[cur].used
            /\ Counter(n) = first_free_id /\ Counter(n)' = first_free_id + 1
<1> USE DEF TypeOK, Session, WillSave, Counter, macVars, histVars, piVars
<1>1. CASE UNCHANGED <<phase, fs, first_free_id, root>>
  BY <1>1
<1>2. CASE ReadAnswer
  <2>1. phase = "answer" /\ phase' = "claim" /\ cur \in Disks /\ UNCHANGED <<fs, root>>
        /\ tty[cur] # None /\ first_free_id' = AfterReply(first_free_id, tty[cur])
    BY <1>2 DEF ReadAnswer, Talking, Dialogue
  <2>2. CASE n # fs
    BY <2>1, <2>2
  <2>3. CASE tty[cur].used
    BY <2>1, <2>2, <2>3 DEF AfterReply
  <2>4. CASE ~ tty[cur].used
    BY <2>1, <2>4 DEF AfterReply
  <2> QED BY <2>2, <2>3, <2>4
<1>3. CASE SaveRoot
  BY <1>3 DEF SaveRoot, WriteRoot
<1>4. ASSUME DieUnsaved, phase # "off" PROVE Counter(n)' <= Counter(n)
  BY <1>4 DEF DieUnsaved
<1>5. CASE Panic
  BY <1>4, <1>5 DEF Panic, Silent
<1>6. CASE Killed
  BY <1>4, <1>6 DEF Killed
<1>13. CASE BootPanics
  BY <1>4, <1>13 DEF BootPanics
<1>7. ASSUME NEW m \in FsNames, NEW S \in SUBSET Disks, Deploy(m, S) PROVE Counter(n)' <= Counter(n)
  BY <1>7 DEF Deploy
<1>8. ASSUME phase # "off", phase' # "off", UNCHANGED <<fs, first_free_id, root>>
      PROVE  Counter(n)' <= Counter(n)
  BY <1>8
<1>9. CASE OpenFails \/ AnswerLost \/ LoadKernel \/ SendName \/ SelectTimeout \/ OfferId \/ ReadClaim
  BY <1>8, <1>9 DEF OpenFails, AnswerLost, LoadKernel, SendName, SelectTimeout, OfferId, ReadClaim
<1>10. ASSUME NEW d \in Disks, OpenPi(d) PROVE Counter(n)' <= Counter(n)
  BY <1>8, <1>10 DEF OpenPi
<1>11. ASSUME NEW d \in Disks, PiWorks(d) \/ StartsLate(d) \/ Reset(d)
       PROVE  UNCHANGED <<phase, fs, first_free_id, root>>
  BY <1>11 DEF PiWorks, PiMounts, PiPanics, IdForDfs, PiAnswers, StartsLate, Reset
<1>12. CASE UNCHANGED vars
  BY <1>1, <1>12 DEF vars
<1> QED
  BY <1>1, <1>2, <1>3, <1>5, <1>6, <1>7, <1>9, <1>10, <1>11, <1>12, <1>13 DEF Next, MacWorks

\* An id below the counter was used up when the counter passed it.
LEMMA NoIdSkippedStep ==
  ASSUME TypeOK, Session, Remembers, WillSave, Spent, NoIdSkipped, [Next]_vars
  PROVE  NoIdSkipped'
<1> SUFFICES ASSUME NEW n \in FsNames, NEW i \in Ids, i < Counter(n)'
             PROVE  \E d \in Disks : Taken(d, n, i)'
  BY DEF NoIdSkipped
<1>1. ASSUME NEW d \in Disks, Taken(d, n, i) PROVE \E e \in Disks : Taken(e, n, i)'
  BY <1>1, TakenKept
<1>2. Counter(n) \in Nat /\ first_free_id \in Nat /\ i \in Nat /\ i < IdSpace
  BY IdsAssumption DEF TypeOK, Counter, Ids
<1>3. Counter(n)' \in Nat
  <2>1. TypeOK'
    BY TypeStep
  <2> QED BY <2>1 DEF TypeOK, Counter
<1>4. CASE i < Counter(n)
  BY <1>1, <1>4 DEF NoIdSkipped
<1>5. CASE ~ (i < Counter(n))
  <2>1. /\ phase = "answer" /\ n = fs /\ cur \in Disks
        /\ tty[cur] # None /\ tty[cur].used
        /\ Counter(n) = first_free_id /\ Counter(n)' = first_free_id + 1
    <3>1. ~ (Counter(n)' <= Counter(n))
      BY <1>2, <1>3, <1>5
    <3> QED BY <3>1, CounterMoves
  <2>2. i = first_free_id
    BY <1>2, <1>3, <1>5, <2>1
  <2>3. Offer(first_free_id) = i
    BY <1>2, <2>2, OfferIsId
  <2>4. Taken(cur, n, i)
    BY <2>1, <2>3 DEF Spent
  <2> QED BY <1>1, <2>1, <2>4
<1> QED BY <1>4, <1>5

----------------------------------------------------------------------------
\* The inductive invariant holds in every reachable state.
THEOREM Invariance == Spec => []IInv
<1>1. Init => IInv
  <2> SUFFICES ASSUME Init PROVE IInv
    OBVIOUS
  <2>1. TypeOK
    <3>1. root \in [FsNames -> Nat] /\ pi \in [Disks -> PiStates] /\ cfg \in [Disks -> Seq(Entry)]
      BY DEF Init, PiStates
    <3>2. ram \in [Disks -> Memory \cup {None}] /\ tty \in [Disks -> Reply \cup {None}]
      BY DEF Init
    <3> QED BY <3>1, <3>2 DEF Init, TypeOK, Phases
  <2>2. Session /\ Remembers /\ Offered /\ WillSave
    BY DEF Init, Session, Remembers, Offered, WillSave, Talking, Dialogue
  <2>3. Covered /\ UniqueIds /\ OneEntry
    BY DEF Init, Covered, UniqueIds, Holds, OneEntry
  <2>4. SameTalk /\ Honest /\ ToldIsRecorded /\ Spent
    BY DEF Init, SameTalk, Honest, ToldIsRecorded, Spent
  <2>5. NoIdSkipped
    BY DEF Init, NoIdSkipped, Counter, Ids
  <2> QED BY <2>1, <2>2, <2>3, <2>4, <2>5 DEF IInv
<1>2. IInv /\ [Next]_vars => IInv'
  <2> SUFFICES ASSUME IInv, [Next]_vars PROVE IInv'
    OBVIOUS
  <2> USE DEF IInv
  <2>1. TypeOK' /\ Session' /\ Remembers'
    BY TypeStep, SessionStep
  <2>2. Offered' /\ WillSave' /\ Covered' /\ UniqueIds' /\ OneEntry'
    BY OfferedStep, WillSaveStep, CoveredStep, UniqueStep, OneEntryStep
  <2>3. SameTalk' /\ Honest' /\ ToldIsRecorded'
    BY SameTalkStep, HonestStep, ToldStep
  <2>4. Spent' /\ NoIdSkipped'
    BY SpentStep, NoIdSkippedStep
  <2> QED BY <2>1, <2>2, <2>3, <2>4
<1> QED BY <1>1, <1>2, PTL DEF Spec

\* The types of the state of deploy and of the pies, for any constants.
THEOREM TypeCorrect == Spec => []TypeOK
<1>1. IInv => TypeOK
  BY DEF IInv
<1> QED BY <1>1, Invariance, PTL

\* No two disks hold the same id of a filesystem, as long as deploy never died
\* with an unsaved counter of it and its ids have not run out.
THEOREM UniqueIdsHold == Spec => []UniqueIds
<1>1. IInv => UniqueIds
  BY DEF IInv
<1> QED BY <1>1, Invariance, PTL

\* A save never takes back an id that an earlier save had given out.
THEOREM RootIsMonotonic == Spec => RootNeverRegresses
<1>1. IInv /\ [Next]_vars => [\A n \in FsNames : root'[n] >= root[n]]_vars
  <2> SUFFICES ASSUME IInv, Next PROVE \A n \in FsNames : root'[n] >= root[n]
    BY DEF vars
  <2>1. CASE SaveRoot
    BY <2>1 DEF SaveRoot, WriteRoot, IInv, TypeOK, Session, WillSave
  <2>2. CASE root' = root
    BY <2>2 DEF IInv, TypeOK
  <2>3. SaveRoot \/ root' = root
    BY DEF Next, MacWorks, PiWorks, Deploy, OpenPi, OpenFails, LoadKernel, SendName,
       SelectTimeout, OfferId, ReadAnswer, ReadClaim, Panic, Killed, BootPanics, AnswerLost, DieUnsaved,
       PiMounts, PiPanics, IdForDfs, PiAnswers, StartsLate, Reset
  <2> QED BY <2>1, <2>2, <2>3
<1> QED BY <1>1, Invariance, PTL DEF Spec, RootNeverRegresses

----------------------------------------------------------------------------
\* The id that a disk holds in the registry is that of the entry of the name,
\* of which there is one.
LEMMA HeldIdIs ==
  ASSUME OneEntry, NEW d \in Disks \ misread, NEW n
  PROVE  /\ (\A k \in DOMAIN cfg[d] : cfg[d][k].name # n) => HeldId(d, n) = None
         /\ \A k \in DOMAIN cfg[d] : cfg[d][k].name = n => HeldId(d, n) = cfg[d][k].id
<1>1. ASSUME NEW k \in DOMAIN cfg[d], cfg[d][k].name = n
      PROVE  HeldId(d, n) = cfg[d][k].id
  <2>1. EntriesFor(d, n) = {k}
    BY <1>1 DEF EntriesFor, OneEntry
  <2> QED BY <2>1 DEF HeldId
<1>2. ASSUME \A k \in DOMAIN cfg[d] : cfg[d][k].name # n
      PROVE  HeldId(d, n) = None
  <2>1. EntriesFor(d, n) = {}
    BY <1>2 DEF EntriesFor
  <2> QED BY <2>1 DEF HeldId
<1> QED BY <1>1, <1>2

\* The record of a filesystem is lost for good, and that of one filesystem at
\* a time: the one that deploy is in.
LEMMA LostStep ==
  ASSUME TypeOK, Session, Remembers, WillSave, [Next]_vars
  PROVE  Lost' = Lost \/ \E n \in FsNames : Lost' = Lost \cup {n}
<1>1. TypeOK'
  BY TypeStep
<1>2. \A n \in FsNames : Counter(n) \in Nat /\ Counter(n)' \in Nat
  BY <1>1 DEF TypeOK, Counter
<1>3. Lost \subseteq Lost'
  BY <1>2, CounterStep, IdsAssumption DEF Lost, CounterKept
<1>4. forgotten' \subseteq forgotten \cup {fs}
  BY DEF Next, MacWorks, PiWorks, Deploy, OpenPi, OpenFails, LoadKernel, SendName,
     SelectTimeout, OfferId, ReadAnswer, ReadClaim, SaveRoot, WriteRoot, Panic, Killed, BootPanics, AnswerLost, DieUnsaved,
     PiMounts, PiPanics, IdForDfs, PiAnswers, StartsLate, Reset, vars, histVars
<1>5. ASSUME NEW n \in Lost', n \notin Lost PROVE n = fs
  <2>1. n \in FsNames /\ n \notin forgotten /\ Counter(n) < IdSpace
    BY <1>2, <1>5, IdsAssumption DEF Lost
  <2>2. CASE n \in forgotten'
    BY <1>4, <2>1, <2>2
  <2>3. CASE Counter(n)' >= IdSpace
    <3>1. ~ (Counter(n)' <= Counter(n))
      BY <1>2, <2>1, <2>3, IdsAssumption
    <3> QED BY <2>1, <3>1, CounterMoves
  <2> QED BY <1>5, <2>2, <2>3 DEF Lost
<1>6. Lost' \subseteq FsNames
  BY DEF Lost
<1> QED BY <1>3, <1>5, <1>6

\* A disk whose sector is searched without being read is broken in the registry.
LEMMA BreakStep ==
  ASSUME TypeOK, Remembers, NEW d \in Disks, IdForDfs(d), d \in misread', Lost' = Lost
  PROVE  Registry!Break(d)
<1> DEFINE ids == [n \in FsNames |-> HeldId(d, n)']
<1>1. cfg' \in [Disks -> Seq(Entry)] /\ \A e \in Disks : e # d => cfg'[e] = cfg[e]
  BY IdForDfsEffect
<1>2. \A n \in FsNames : HeldId(d, n)' \in Ids \cup {None}
  <2>1. SUFFICES ASSUME NEW n \in FsNames PROVE HeldId(d, n)' \in Ids \cup {None}
    OBVIOUS
  <2>2. CASE EntriesFor(d, n)' = {}
    BY <2>2 DEF HeldId
  <2>3. CASE EntriesFor(d, n)' # {}
    <3>1. PICK k : k = CHOOSE j \in EntriesFor(d, n)' : TRUE
      OBVIOUS
    <3>2. k \in DOMAIN cfg'[d] /\ cfg'[d] \in Seq(Entry)
      BY <1>1, <2>3, <3>1 DEF EntriesFor
    <3>3. cfg'[d][k] \in Entry
      BY <3>2
    <3> QED BY <2>3, <3>1, <3>3 DEF HeldId, Entry
  <2> QED BY <2>2, <2>3
<1>3. ids \in [FsNames -> Ids \cup {None}]
  BY <1>2
<1>4. \A e \in Disks, n \in FsNames : e # d => HeldId(e, n)' = HeldId(e, n)
  <2>1. ASSUME NEW e \in Disks, NEW n \in FsNames, e # d PROVE HeldId(e, n)' = HeldId(e, n)
    <3>1. cfg'[e] = cfg[e]
      BY <1>1, <2>1
    <3>2. EntriesFor(e, n)' = EntriesFor(e, n)
      BY <3>1 DEF EntriesFor
    <3> QED BY <3>1, <3>2 DEF HeldId
  <2> QED BY <2>1
<1>5. Held' = [Held EXCEPT ![d] = ids]
  <2>1. Held' = [e \in Disks |-> [n \in FsNames |-> HeldId(e, n)']]
    BY DEF Held
  <2>2. \A e \in Disks : e # d => [n \in FsNames |-> HeldId(e, n)'] = [n \in FsNames |-> HeldId(e, n)]
    BY <1>4
  <2>3. Held = [e \in Disks |-> [n \in FsNames |-> HeldId(e, n)]]
    BY DEF Held
  <2> QED BY <2>1, <2>2, <2>3
<1>6. misread' = misread \cup {d}
  BY IdForDfsEffect
<1> HIDE DEF ids
<1> QED BY <1>3, <1>5, <1>6 DEF Registry!Break

\* A config sector that changes makes its disk join the filesystem that its pi
\* was asked for, with an id that is free unless the record is lost; a card that was
\* not read may lose its own.
LEMMA JoinStep ==
  ASSUME IInv, NEW d \in Disks, IdForDfs(d)
  PROVE  /\ Lost' = Lost
         /\ \/ Held' = Held /\ misread' = misread
            \/ Registry!Break(d)
            \/ \E n \in FsNames, i \in Ids : Registry!Join(d, n, i)
<1> USE DEF IInv
<1>1. Lost' = Lost
  BY DEF IdForDfs, Lost, Counter, macVars
<1>4. CASE d \in misread'
  BY <1>1, <1>4, BreakStep
<1>5. d \in misread' \/ misread' = misread
  BY IdForDfsEffect
<1>2. CASE d \notin misread' /\ cfg' = cfg
  BY <1>1, <1>2, <1>5 DEF Held, HeldId, EntriesFor
<1>3. CASE d \notin misread' /\ cfg' # cfg
  <2>1. PICK n, i : n = ram[d].fs /\ i = ram[d].id
    OBVIOUS
  <2>2. /\ n \in FsNames /\ i \in Ids /\ cfg[d] \in Seq(Entry)
        /\ \A e \in Disks : e # d => cfg'[e] = cfg[e]
        /\ cfg'[d] = cfg[d] \/ cfg'[d] = Recorded(cfg[d], n, i)
        /\ cfg'[d] # cfg[d] => Matches(cfg[d], n) = {}
    BY <1>3, <2>1, IdForDfsSector DEF TypeOK
  <2>3. cfg'[d] # cfg[d]
    <3>1. cfg \in [Disks -> Seq(Entry)] /\ cfg' \in [Disks -> Seq(Entry)]
      BY IdForDfsEffect DEF TypeOK
    <3> QED BY <1>3, <2>2, <3>1
  <2>4. HasRoom(cfg[d]) /\ cfg'[d] = Recorded(cfg[d], n, i)
    BY <2>2, <2>3 DEF Recorded
  <2>5. \A k \in DOMAIN cfg[d] : cfg[d][k].name # n
    BY <2>2, <2>3, SameNameReflexive DEF Matches
  <2>6. Held[d][n] = None
    BY <1>3, <1>5, <2>2, <2>5, HeldIdIs DEF Held
  <2>7. /\ Len(cfg[d]) + 1 \in DOMAIN cfg'[d]
        /\ cfg'[d][Len(cfg[d]) + 1] = [name |-> n, id |-> i]
        /\ \A k \in DOMAIN cfg'[d] : k \in DOMAIN cfg[d] \/ k = Len(cfg[d]) + 1
    BY <2>2, <2>4, RecordedAdds
  <2>8. \A k \in DOMAIN cfg[d] : k \in DOMAIN cfg'[d] /\ cfg'[d][k] = cfg[d][k]
    BY <2>2, <2>4, RecordedKeeps
  <2>9. HeldId(d, n)' = i
    <3>1. EntriesFor(d, n)' = {Len(cfg[d]) + 1}
      <4>1. \A k \in DOMAIN cfg[d] : cfg'[d][k].name # n
        BY <2>5, <2>8
      <4>2. cfg'[d][Len(cfg[d]) + 1].name = n
        BY <2>7
      <4> QED BY <2>7, <4>1, <4>2 DEF EntriesFor
    <3>2. cfg'[d][Len(cfg[d]) + 1].id = i
      BY <2>7
    <3> QED BY <3>1, <3>2 DEF HeldId
  <2>10. ASSUME NEW e \in Disks, NEW m \in FsNames, e # d \/ m # n
         PROVE  HeldId(e, m)' = HeldId(e, m)
    <3>1. CASE e # d
      <4>1. cfg'[e] = cfg[e]
        BY <2>2, <3>1
      <4>2. EntriesFor(e, m)' = EntriesFor(e, m)
        BY <4>1 DEF EntriesFor
      <4> QED BY <4>1, <4>2 DEF HeldId
    <3>2. CASE e = d /\ m # n
      <4>1. EntriesFor(d, m)' = EntriesFor(d, m)
        BY <2>7, <2>8, <3>2 DEF EntriesFor
      <4>2. \A k \in EntriesFor(d, m) : cfg'[d][k] = cfg[d][k]
        BY <2>8 DEF EntriesFor
      <4> QED BY <3>2, <4>1, <4>2 DEF HeldId
    <3> QED BY <2>10, <3>1, <3>2
  <2>11. Held' = [Held EXCEPT ![d][n] = i]
    BY <2>2, <2>9, <2>10 DEF Held
  <2>12. n \in Lost \/ Registry!Fresh(n, i)
    <3>1. SUFFICES ASSUME n \notin Lost, NEW e \in Disks \ misread PROVE HeldId(e, n) # i
      BY <2>2 DEF Registry!Fresh, Held
    <3>2. n \notin forgotten /\ Counter(n) < IdSpace /\ Counter(n) \in Nat
      BY <2>2, <3>1, IdsAssumption DEF Lost, Counter, TypeOK
    <3>3. i = Counter(n) /\ \A k \in DOMAIN cfg[e] : cfg[e][k].name = n => cfg[e][k].id < Counter(n)
      BY <2>1, <2>2, <3>2, OfferIsFresh
    <3>4. CASE \A k \in DOMAIN cfg[e] : cfg[e][k].name # n
      <4>1. None \notin Ids
        BY NoneAssumption
      <4> QED BY <2>2, <3>4, <4>1, HeldIdIs
    <3>5. ASSUME NEW k \in DOMAIN cfg[e], cfg[e][k].name = n PROVE HeldId(e, n) # i
      <4>1. HeldId(e, n) = cfg[e][k].id
        BY <3>5, HeldIdIs
      <4>2. cfg[e][k].id \in Nat /\ cfg[e][k].id < Counter(n)
        <5>1. cfg[e][k] \in Entry
          BY DEF TypeOK
        <5> QED BY <3>3, <3>5, <5>1 DEF Entry, Ids
      <4> QED BY <3>2, <3>3, <4>1, <4>2
    <3> QED BY <3>4, <3>5
  <2>13. Registry!Join(d, n, i)
    BY <1>1, <1>3, <1>5, <2>6, <2>11, <2>12 DEF Registry!Join
  <2> QED BY <1>1, <2>2, <2>13
<1> QED BY <1>1, <1>2, <1>3, <1>4

\* The config sectors and the counter, over any number of deploys that panic or
\* are killed, of resets and of failed writes, are a registry of ids.
THEOREM IsRegistry == Spec => ImplementsRegistry
<1>1. Init => Registry!Init
  <2> SUFFICES ASSUME Init PROVE Registry!Init
    OBVIOUS
  <2>1. Held = [d \in Disks |-> [n \in FsNames |-> None]]
    BY DEF Init, Held, HeldId, EntriesFor
  <2>2. Lost = {}
    BY IdsAssumption DEF Init, Lost, Counter
  <2>3. misread = {}
    BY DEF Init
  <2> QED BY <2>1, <2>2, <2>3 DEF Registry!Init
<1>2. IInv /\ [Next]_vars => [Registry!Next]_(Registry!vars)
  <2> SUFFICES ASSUME IInv, [Next]_vars
               PROVE  Registry!Next \/ (Held' = Held /\ Lost' = Lost /\ misread' = misread)
    BY DEF Registry!vars
  <2>1. ASSUME NEW d \in Disks, IdForDfs(d)
        PROVE  Registry!Next \/ (Held' = Held /\ Lost' = Lost /\ misread' = misread)
    BY <2>1, JoinStep DEF Registry!Next, Registry!Join
  <2>2. CASE UNCHANGED <<cfg, unwritten, misread>>
    <3>1. Held' = Held
      BY <2>2 DEF Held, HeldId, EntriesFor
    <3>2. Lost' = Lost \/ \E n \in FsNames : Lost' = Lost \cup {n}
      BY LostStep DEF IInv
    <3> QED BY <2>2, <3>1, <3>2 DEF Registry!Next, Registry!Lose
  <2> QED BY <2>1, <2>2, SectorStep
<1> QED BY <1>1, <1>2, Invariance, PTL DEF Spec, ImplementsRegistry, Registry!Spec

\* Every id below a counter went to a disk, or into a full sector or a failed
\* write, however deploy ended.
THEOREM NoIdSkippedHolds == Spec => []NoIdSkipped
<1>1. IInv => NoIdSkipped
  BY DEF IInv
<1> QED BY <1>1, Invariance, PTL

\* What deploy prints for a disk is what the disk's config sector says from
\* then on, unless that was full or its write failed.
THEOREM ToldIsRecordedHolds == Spec => []ToldIsRecorded
<1>1. IInv => ToldIsRecorded
  BY DEF IInv
<1> QED BY <1>1, Invariance, PTL
=============================================================================
