--------------------------- MODULE VcdReaderProofs ---------------------------
(***************************************************************************)
(* Proofs about VcdReader for any variables, values, event budget and      *)
(* file.  Neither property is inductive alone.  WaveformKept needs that    *)
(* nothing stored or read lies past the current time and that a waveform   *)
(* is empty exactly while its variable has not been read; CutsTile needs   *)
(* that the events strictly after the last cut are all in nCur.            *)
(***************************************************************************)
EXTENDS VcdReader, NatLemmas

AllValues == Values \cup BusValues

Events == [time : Nat, value : AllValues]

Changes == [id : Ids, time : Nat, value : AllValues, n : Nat \ {0}, before : Nat]

TypeOK ==
  /\ eof \in BOOLEAN
  /\ time \in Nat
  /\ nCur \in 0 .. MaxEventNum
  /\ values \in [Ids -> Seq(Events)]
  /\ intervals \in Seq(Nat \X Nat)
  /\ timeMax \in Nat
  /\ file \in Seq(Changes)

(* Nothing is dated past the current time.                                 *)
NothingAhead ==
  /\ \A k \in DOMAIN file : file[k].time <= time
  /\ \A id \in Ids : \A k \in DOMAIN values[id] : values[id][k].time <= time

(* A waveform is empty exactly while its variable has not been read.       *)
StoredIfRead ==
  \A id \in Ids : values[id] = <<>> <=> \A k \in DOMAIN file : file[k].id # id

(* The intervals are ordered and leave no gap before the last cut, which   *)
(* is never ahead of the time, and past it only once the file has ended.   *)
CutsOrdered ==
  /\ IF eof THEN PrevEnd = time + 1 ELSE PrevEnd <= time
  /\ \A i \in DOMAIN intervals :
       /\ intervals[i][1] = IF i = 1 THEN 0 ELSE intervals[i - 1][2]
       /\ intervals[i][1] <= intervals[i][2]
       /\ intervals[i][2] <= PrevEnd
       /\ \A j \in DOMAIN intervals : i < j => intervals[i][2] <= intervals[j][1]
  /\ \A t \in Nat : t < PrevEnd =>
       \E i \in DOMAIN intervals : intervals[i][1] <= t /\ t < intervals[i][2]

(* The events after the last cut are counted.                              *)
CountedSinceCut ==
  \A j \in DOMAIN file :
    /\ file[j].before + file[j].n <= EventsRead
    /\ file[j].time > PrevEnd => EventsRead - file[j].before <= nCur

WithinBudget ==
  \A i \in DOMAIN intervals : \A j, k \in DOMAIN file :
    /\ Within(i, j) /\ Within(i, k)
    /\ file[j].time # intervals[i][1]
    => EventsFromTo(j, k) <= MaxEventNum

IInv ==
  /\ TypeOK
  /\ NothingAhead
  /\ StoredIfRead
  /\ WaveformKept
  /\ CutsOrdered
  /\ CountedSinceCut
  /\ WithinBudget

-----------------------------------------------------------------------------
(* What scalar and bus tokens have in common: n events, one change.        *)
Change(id, v, n) ==
  /\ ~eof
  /\ values' = [values EXCEPT ![id] = Appended(id, v)]
  /\ Read(id, v, n)
  /\ Accumulate(n)
  /\ UNCHANGED <<eof, time, timeMax>>

(* A scalar or bus token is a change of a variable of the file.            *)
LEMMA TokenIsChange ==
  ASSUME ScalarToken \/ BusToken
  PROVE  \E id \in Ids, v \in AllValues, n \in Nat \ {0} : Change(id, v, n)
<1>1. CASE ScalarToken
  <2>1. PICK id \in Scalars, v \in Values :
          values' = [values EXCEPT ![id] = Appended(id, v)] /\ Read(id, v, 1)
    BY <1>1 DEF ScalarToken
  <2>2. Change(id, v, 1)
    BY <1>1, <2>1 DEF ScalarToken, Change
  <2> QED BY <2>2 DEF Ids, AllValues
<1>2. CASE BusToken
  <2>1. PICK id \in Buses, v \in BusValues \cup {0}, w \in Widths :
          /\ values' = [values EXCEPT ![id] = Appended(id, v)]
          /\ Read(id, v, w)
          /\ Accumulate(w)
    <3>1. PICK id \in Buses, v \in BusValues, unknown \in BOOLEAN, w \in Widths :
            LET value == IF unknown THEN 0 ELSE v
            IN  /\ values' = [values EXCEPT ![id] = Appended(id, value)]
                /\ Read(id, value, w)
                /\ Accumulate(w)
      BY <1>2 DEF BusToken
    <3>2. CASE unknown
      BY <3>1, <3>2
    <3>3. CASE ~unknown
      BY <3>1, <3>3
    <3> QED BY <3>2, <3>3
  <2>2. Change(id, v, w)
    BY <1>2, <2>1 DEF BusToken, Change
  <2> QED BY <2>2, VcdAssumption DEF Ids, AllValues
<1> QED BY <1>1, <1>2

(* The totals the intervals are cut by are numbers.                        *)
LEMMA EventsReadType ==
  ASSUME TypeOK
  PROVE  /\ EventsRead \in Nat
         /\ PrevEnd \in Nat
<1>1. EventsRead \in Nat
  <2>1. CASE file = <<>>
    BY <2>1 DEF EventsRead
  <2>2. CASE file # <<>>
    <3>1. file[Len(file)] \in Changes
      BY <2>2 DEF TypeOK
    <3> QED BY <2>2, <3>1 DEF EventsRead, Last, Changes
  <2> QED BY <2>1, <2>2
<1>2. PrevEnd \in Nat
  <2>1. CASE intervals = <<>>
    BY <2>1 DEF PrevEnd
  <2>2. CASE intervals # <<>>
    <3>1. intervals[Len(intervals)] \in Nat \X Nat
      BY <2>2 DEF TypeOK
    <3> QED BY <2>2, <3>1 DEF PrevEnd, Last
  <2> QED BY <2>1, <2>2
<1> QED BY <1>1, <1>2

(* What a change leaves in the file: one more entry, the others as before. *)
LEMMA ReadFacts ==
  ASSUME TypeOK, NEW id \in Ids, NEW v \in AllValues, NEW n \in Nat \ {0}, Read(id, v, n)
  PROVE  /\ file' \in Seq(Changes)
         /\ Len(file') = Len(file) + 1
         /\ DOMAIN file' = 1 .. Len(file) + 1
         /\ DOMAIN file = 1 .. Len(file)
         /\ \A k \in DOMAIN file : file'[k] = file[k]
         /\ file'[Len(file) + 1] =
              [id |-> id, time |-> time, value |-> v, n |-> n, before |-> EventsRead]
         /\ EventsRead' = EventsRead + n
<1> DEFINE e == [id |-> id, time |-> time, value |-> v, n |-> n, before |-> EventsRead]
<1>1. e \in Changes
  BY EventsReadType DEF TypeOK, Changes
<1>2. e.before = EventsRead /\ e.n = n
  OBVIOUS
<1>3. file' = Append(file, e) /\ file \in Seq(Changes)
  BY DEF Read, TypeOK
<1> HIDE DEF e
<1>4. /\ file' \in Seq(Changes) /\ Len(file') = Len(file) + 1
      /\ DOMAIN file' = 1 .. Len(file) + 1
      /\ DOMAIN file = 1 .. Len(file)
      /\ \A k \in DOMAIN file : file'[k] = file[k]
      /\ file'[Len(file) + 1] = e
  BY <1>1, <1>3
<1>5. EventsRead' = e.before + e.n
  BY <1>4 DEF EventsRead, Last
<1> QED BY <1>2, <1>4, <1>5 DEF e

(* A waveform with a value appended, the late start included.              *)
LEMMA AppendedFacts ==
  ASSUME TypeOK, NEW id \in Ids, NEW v \in AllValues
  PROVE  /\ Appended(id, v) \in Seq(Events)
         /\ Appended(id, v) # <<>>
         /\ \A k \in DOMAIN values[id] :
              k \in DOMAIN Appended(id, v) /\ Appended(id, v)[k] = values[id][k]
         /\ \A k \in DOMAIN Appended(id, v) \ DOMAIN values[id] :
              Appended(id, v)[k].time = time \/ (values[id] = <<>> /\ time # 0 /\ k = 1)
         /\ values[id] = <<>> /\ time # 0 =>
              Appended(id, v)[1] = Event(0, Initial(id)) /\ Len(Appended(id, v)) = 2
         /\ values[id] = <<>> /\ time = 0 => Len(Appended(id, v)) = 1
         /\ Appended(id, v)[Len(Appended(id, v))].value = v
<1> DEFINE s == values[id]
           e == Event(time, v)
           f == Event(0, Initial(id))
<1>1. s \in Seq(Events) /\ e \in Events /\ f \in Events
  BY VcdAssumption DEF TypeOK, Events, Event, Initial, AllValues
<1>2. e.value = v /\ e.time = time
  BY DEF Event
<1>3. Appended(id, v) =
        IF s # <<>> /\ s[Len(s)].value = v THEN s
        ELSE (IF s = <<>> /\ time # 0 THEN <<f>> ELSE s) \o <<e>>
  BY DEF Appended, Last
<1> HIDE DEF s, e, f
<1>4. CASE s # <<>> /\ s[Len(s)].value = v
  <2>1. Appended(id, v) = s
    BY <1>3, <1>4
  <2> QED BY <1>1, <1>4, <2>1 DEF s
<1>5. CASE s = <<>> /\ time # 0
  <2>1. Appended(id, v) = <<f>> \o <<e>>
    BY <1>3, <1>5
  <2>2. /\ <<f>> \o <<e>> \in Seq(Events)
        /\ Len(<<f>> \o <<e>>) = 2
        /\ (<<f>> \o <<e>>)[1] = f
        /\ (<<f>> \o <<e>>)[2] = e
    BY <1>1
  <2> QED BY <1>1, <1>2, <1>5, <2>1, <2>2 DEF s, f
<1>6. CASE ~(s # <<>> /\ s[Len(s)].value = v) /\ ~(s = <<>> /\ time # 0)
  <2>1. Appended(id, v) = s \o <<e>>
    BY <1>3, <1>6
  <2>2. /\ s \o <<e>> \in Seq(Events)
        /\ Len(s \o <<e>>) = Len(s) + 1
        /\ \A k \in 1 .. Len(s) : (s \o <<e>>)[k] = s[k]
        /\ (s \o <<e>>)[Len(s) + 1] = e
    BY <1>1
  <2> QED BY <1>1, <1>2, <1>6, <2>1, <2>2 DEF s
<1> QED BY <1>4, <1>5, <1>6

(* A waveform that is not empty starts at 0; what it and the file say of   *)
(* its variable at a time only depends on the entries up to then.          *)
LEMMA ChangeKeepsWaveforms ==
  ASSUME IInv, NEW id \in Ids, NEW v \in AllValues, NEW n \in Nat \ {0}, Change(id, v, n)
  PROVE  NothingAhead' /\ StoredIfRead' /\ WaveformKept'
<1> DEFINE s == Appended(id, v)
           new == Len(file) + 1
<1>1. /\ values' = [values EXCEPT ![id] = s]
      /\ values \in [Ids -> Seq(Events)]
      /\ values'[id] = s
      /\ \A d \in Ids \ {id} : values'[d] = values[d]
      /\ time' = time /\ time \in Nat
      /\ DOMAIN values[id] = 1 .. Len(values[id])
      /\ DOMAIN s = 1 .. Len(s) /\ Len(s) \in Nat
  BY AppendedFacts DEF IInv, TypeOK, Change
<1>2. /\ file \in Seq(Changes) /\ file' \in Seq(Changes)
      /\ DOMAIN file = 1 .. Len(file)
      /\ DOMAIN file' = DOMAIN file \cup {new}
      /\ new \in Nat /\ new \notin DOMAIN file
      /\ \A k \in DOMAIN file : file'[k] = file[k] /\ k < new
      /\ file'[new].id = id /\ file'[new].time = time /\ file'[new].value = v
  <2>1. Read(id, v, n) /\ TypeOK
    BY DEF IInv, Change
  <2>2. Len(file) \in Nat /\ file \in Seq(Changes)
    BY <2>1 DEF TypeOK
  <2>3. /\ file' \in Seq(Changes)
        /\ DOMAIN file' = 1 .. Len(file) + 1
        /\ DOMAIN file = 1 .. Len(file)
        /\ \A k \in DOMAIN file : file'[k] = file[k]
        /\ file'[Len(file) + 1] =
             [id |-> id, time |-> time, value |-> v, n |-> n, before |-> EventsRead]
    BY <2>1, ReadFacts
  <2>4. file'[new].id = id /\ file'[new].time = time /\ file'[new].value = v
    BY <2>3
  <2>5. 1 .. Len(file) + 1 = (1 .. Len(file)) \cup {Len(file) + 1}
    BY <2>2
  <2> QED BY <2>2, <2>3, <2>4, <2>5
<1>3. /\ s \in Seq(Events) /\ s # <<>>
      /\ \A k \in DOMAIN values[id] : k \in DOMAIN s /\ s[k] = values[id][k]
      /\ \A k \in DOMAIN s \ DOMAIN values[id] :
           s[k].time = time \/ (values[id] = <<>> /\ time # 0 /\ k = 1)
      /\ values[id] = <<>> /\ time # 0 => s[1] = Event(0, Initial(id)) /\ Len(s) = 2
      /\ values[id] = <<>> /\ time = 0 => Len(s) = 1
      /\ s[Len(s)].value = v
  BY AppendedFacts DEF IInv
<1>4. Event(0, Initial(id)).time = 0 /\ Event(0, Initial(id)).value = Initial(id)
  BY DEF Event
<1> HIDE DEF s, new
<1>5. \A k \in DOMAIN s : s[k].time <= time
  BY <1>1, <1>3, <1>4 DEF IInv, NothingAhead
<1>6. NothingAhead'
  <2>1. \A k \in DOMAIN file' : file'[k].time <= time
    BY <1>1, <1>2 DEF IInv, NothingAhead
  <2>2. \A d \in Ids : \A k \in DOMAIN values'[d] : values'[d][k].time <= time
    BY <1>1, <1>5 DEF IInv, NothingAhead
  <2> QED BY <1>1, <2>1, <2>2 DEF NothingAhead
<1>7. StoredIfRead'
  <2>1. ASSUME NEW d \in Ids
        PROVE  values'[d] = <<>> <=> \A k \in DOMAIN file' : file'[k].id # d
    <3>1. CASE d = id
      BY <1>1, <1>2, <1>3, <3>1
    <3>2. CASE d # id
      BY <1>1, <1>2, <3>2 DEF IInv, StoredIfRead
    <3> QED BY <3>1, <3>2
  <2> QED BY <2>1 DEF StoredIfRead
<1>8. WaveformKept'
  <2> SUFFICES ASSUME NEW d \in Ids, values'[d] # <<>>
               PROVE  /\ values'[d][1].time = 0
                      /\ \A t \in 0 .. time : StoredAt(d, t)' = FileAt(d, t)'
    BY <1>1 DEF WaveformKept
  <2> DEFINE past(t) == {k \in DOMAIN file : file[k].id = d /\ file[k].time <= t}
             pastN(t) == {k \in DOMAIN file' : file'[k].id = d /\ file'[k].time <= t}
             kept(t) == {k \in DOMAIN values[d] : values[d][k].time <= t}
             keptN(t) == {k \in DOMAIN values'[d] : values'[d][k].time <= t}
  <2>1. \A t \in 0 .. time : past(t) # {} => Max(past(t)) \in DOMAIN file
    <3>1. TAKE t \in 0 .. time
    <3>2. past(t) \in SUBSET (1 .. Len(file)) /\ Len(file) \in Nat
      BY <1>2
    <3> HIDE DEF past
    <3>3. past(t) # {} => Max(past(t)) \in past(t)
      BY <3>2, NatMax
    <3> QED BY <3>3 DEF past
  <2>2. \A t \in 0 .. time : d # id \/ t < time => pastN(t) = past(t)
    BY <1>1, <1>2
  <2>3. \A t \in 0 .. time : past(t) = pastN(t) => FileAt(d, t)' = FileAt(d, t)
    <3>1. TAKE t \in 0 .. time
    <3>2. HAVE past(t) = pastN(t)
    <3>3. /\ FileAt(d, t) = IF past(t) = {} THEN Initial(d) ELSE file[Max(past(t))].value
          /\ FileAt(d, t)' = IF pastN(t) = {} THEN Initial(d) ELSE file'[Max(pastN(t))].value
      BY DEF FileAt
    <3> HIDE DEF past, pastN
    <3> QED BY <1>2, <2>1, <3>2, <3>3
  <2>4. ASSUME d # id
        PROVE  \A t \in 0 .. time : StoredAt(d, t)' = StoredAt(d, t)
    BY <1>1, <2>4 DEF StoredAt
  <2>5. CASE d # id
    BY <1>1, <2>2, <2>3, <2>4, <2>5 DEF IInv, WaveformKept
  <2>6. CASE d = id
    <3>1. values'[d] = s
      BY <1>1, <2>6
    <3>2. s[1].time = 0
      <4>1. CASE values[id] = <<>>
        BY <1>1, <1>3, <1>4, <4>1
      <4>2. CASE values[id] # <<>>
        <5>1. 1 \in DOMAIN values[id]
          BY <1>1, <4>2 DEF IInv, TypeOK
        <5> QED BY <1>3, <4>2, <5>1 DEF IInv, WaveformKept
      <4> QED BY <4>1, <4>2
    <3>3. ASSUME NEW t \in 0 .. time
          PROVE  StoredAt(d, t)' = FileAt(d, t)'
      <4>0. StoredAt(d, t)' = s[Max(keptN(t))].value
        BY <3>1 DEF StoredAt
      <4>1. CASE t = time
        <5>1. pastN(t) \in SUBSET Nat /\ new \in pastN(t) /\ \A k \in pastN(t) : k <= new
          BY <1>2, <2>6, <4>1
        <5>2. keptN(t) = 1 .. Len(s)
          BY <1>1, <1>5, <3>1, <4>1
        <5>3. Len(s) \in keptN(t) /\ keptN(t) \in SUBSET Nat /\ \A k \in keptN(t) : k <= Len(s)
          BY <1>1, <1>3, <5>2
        <5>4. FileAt(d, t)' = IF pastN(t) = {} THEN Initial(d) ELSE file'[Max(pastN(t))].value
          BY DEF FileAt
        <5> HIDE DEF pastN, keptN
        <5>5. Max(pastN(t)) = new /\ pastN(t) # {}
          BY <5>1, MaxIs
        <5>6. Max(keptN(t)) = Len(s)
          BY <5>3, MaxIs
        <5> QED BY <1>2, <1>3, <4>0, <5>4, <5>5, <5>6
      <4>2. CASE t # time /\ values[id] = <<>>
        <5>1. past(t) = {}
          BY <2>6, <4>2 DEF IInv, StoredIfRead
        <5>2. FileAt(d, t)' = Initial(id)
          <6>1. FileAt(d, t)' = IF pastN(t) = {} THEN Initial(d) ELSE file'[Max(pastN(t))].value
            BY DEF FileAt
          <6>2. pastN(t) = {}
            BY <1>1, <2>2, <4>2, <5>1
          <6> QED BY <2>6, <6>1, <6>2
        <5>3. keptN(t) = {1}
          BY <1>1, <1>3, <1>4, <3>1, <4>2
        <5> HIDE DEF keptN
        <5>4. Max(keptN(t)) = 1
          BY <5>3, MaxIs
        <5> QED BY <1>1, <1>3, <1>4, <4>0, <4>2, <5>2, <5>4
      <4>3. CASE t # time /\ values[id] # <<>>
        <5>1. keptN(t) = kept(t)
          BY <1>1, <1>3, <2>6, <3>1, <4>3
        <5>2. kept(t) # {} /\ kept(t) \in SUBSET (1 .. Len(values[id])) /\ Len(values[id]) \in Nat
          <6>1. 1 \in DOMAIN values[id]
            BY <1>1, <4>3
          <6>2. values[id][1].time = 0
            BY <4>3 DEF IInv, WaveformKept
          <6> QED BY <1>1, <2>6, <6>1, <6>2
        <5>3. StoredAt(d, t) = values[id][Max(kept(t))].value
          BY <2>6 DEF StoredAt
        <5>4. kept(t) \in SUBSET DOMAIN values[id]
          BY <2>6
        <5>5. StoredAt(d, t) = FileAt(d, t)
          BY <2>6, <4>3 DEF IInv, WaveformKept
        <5>6. FileAt(d, t)' = FileAt(d, t)
          BY <1>1, <2>2, <2>3, <4>3
        <5> HIDE DEF kept, keptN, past, pastN
        <5>7. Max(kept(t)) \in kept(t)
          BY <5>2, NatMax
        <5> QED BY <1>3, <4>0, <5>1, <5>3, <5>4, <5>5, <5>6, <5>7
      <4> QED BY <4>1, <4>2, <4>3
    <3> QED BY <3>1, <3>2, <3>3
  <2> QED BY <2>5, <2>6
<1> QED BY <1>6, <1>7, <1>8

(* An interval is closed at e: how each part about intervals sees it.      *)
LEMMA CutFacts ==
  ASSUME TypeOK, CutsOrdered, NEW e \in Nat, PrevEnd <= e,
         intervals' = Append(intervals, <<PrevEnd, e>>)
  PROVE  /\ intervals' \in Seq(Nat \X Nat)
         /\ PrevEnd' = e
         /\ DOMAIN intervals = 1 .. Len(intervals)
         /\ DOMAIN intervals' = 1 .. Len(intervals) + 1
         /\ \A i \in DOMAIN intervals : intervals'[i] = intervals[i]
         /\ intervals'[Len(intervals) + 1][1] = PrevEnd
         /\ intervals'[Len(intervals) + 1][2] = e
         /\ \A i \in DOMAIN intervals' :
              /\ intervals'[i][1] = IF i = 1 THEN 0 ELSE intervals'[i - 1][2]
              /\ intervals'[i][1] <= intervals'[i][2]
              /\ intervals'[i][2] <= e
              /\ \A j \in DOMAIN intervals' : i < j => intervals'[i][2] <= intervals'[j][1]
         /\ \A t \in Nat : t < e =>
              \E i \in DOMAIN intervals' : intervals'[i][1] <= t /\ t < intervals'[i][2]
<1> DEFINE new == Len(intervals) + 1
<1>1. PrevEnd \in Nat
  BY EventsReadType
<1>2. intervals \in Seq(Nat \X Nat) /\ <<PrevEnd, e>> \in Nat \X Nat
  BY <1>1 DEF TypeOK
<1>3. /\ intervals' \in Seq(Nat \X Nat)
      /\ Len(intervals) \in Nat /\ Len(intervals') = new
      /\ DOMAIN intervals = 1 .. Len(intervals)
      /\ DOMAIN intervals' = 1 .. new
      /\ \A i \in DOMAIN intervals : intervals'[i] = intervals[i]
      /\ intervals'[new] = <<PrevEnd, e>>
      /\ intervals' # <<>>
  BY <1>2, SMTT(30)
<1>4. intervals'[new][1] = PrevEnd /\ intervals'[new][2] = e
  BY <1>3
<1>5. PrevEnd' = e
  BY <1>3, <1>4 DEF PrevEnd, Last
<1>6. \A i \in DOMAIN intervals : intervals[i][1] \in Nat /\ intervals[i][2] \in Nat
  <2> TAKE i \in DOMAIN intervals
  <2>1. intervals[i] \in Nat \X Nat
    BY <1>2
  <2> QED BY <2>1
<1>7. PrevEnd = IF new = 1 THEN 0 ELSE intervals[new - 1][2]
  BY <1>2 DEF PrevEnd, Last
<1>8. \A i \in DOMAIN intervals' : i \in DOMAIN intervals \/ i = new
  BY <1>3
<1> HIDE DEF new
<1>9. \A i \in DOMAIN intervals :
        /\ intervals[i][1] = IF i = 1 THEN 0 ELSE intervals[i - 1][2]
        /\ intervals[i][1] <= intervals[i][2]
        /\ intervals[i][2] <= PrevEnd
        /\ \A j \in DOMAIN intervals : i < j => intervals[i][2] <= intervals[j][1]
  BY DEF CutsOrdered
<1>10. ASSUME NEW i \in DOMAIN intervals'
       PROVE  /\ intervals'[i][1] = IF i = 1 THEN 0 ELSE intervals'[i - 1][2]
              /\ intervals'[i][1] <= intervals'[i][2]
              /\ intervals'[i][2] <= e
  <2>1. CASE i = new
    <3>1. new = 1 \/ new - 1 \in DOMAIN intervals
      BY <1>3 DEF new
    <3> QED BY <1>1, <1>3, <1>4, <1>7, <2>1, <3>1
  <2>2. CASE i \in DOMAIN intervals
    <3>1. i = 1 \/ i - 1 \in DOMAIN intervals
      <4>1. Len(intervals) \in Nat /\ i \in 1 .. Len(intervals)
        BY <1>3, <2>2
      <4>2. i = 1 \/ i - 1 \in 1 .. Len(intervals)
        BY <4>1
      <4> QED BY <1>3, <4>2
    <3>2. intervals'[i] = intervals[i]
      BY <1>3, <2>2
    <3>3. i # 1 => intervals'[i - 1] = intervals[i - 1]
      BY <1>3, <3>1
    <3>4. intervals[i][1] = IF i = 1 THEN 0 ELSE intervals[i - 1][2]
      BY <1>9, <2>2
    <3>5. intervals[i][1] <= intervals[i][2] /\ intervals[i][2] <= e
      BY <1>1, <1>6, <1>9, <2>2
    <3> QED BY <3>2, <3>3, <3>4, <3>5
  <2> QED BY <1>8, <2>1, <2>2
<1>11. ASSUME NEW i \in DOMAIN intervals', NEW j \in DOMAIN intervals', i < j
       PROVE  intervals'[i][2] <= intervals'[j][1]
  <2>1. i \in DOMAIN intervals
    BY <1>3, <1>11 DEF new
  <2>2. CASE j = new
    BY <1>3, <1>4, <1>9, <2>1, <2>2
  <2>3. CASE j \in DOMAIN intervals
    BY <1>3, <1>9, <1>11, <2>1, <2>3
  <2> QED BY <1>8, <2>2, <2>3
<1>12. ASSUME NEW t \in Nat, t < e
       PROVE  \E i \in DOMAIN intervals' : intervals'[i][1] <= t /\ t < intervals'[i][2]
  <2>1. CASE t < PrevEnd
    <3>1. PICK i \in DOMAIN intervals : intervals[i][1] <= t /\ t < intervals[i][2]
      BY <2>1 DEF CutsOrdered
    <3> QED BY <1>3, <3>1 DEF new
  <2>2. CASE t >= PrevEnd
    <3>1. new \in DOMAIN intervals'
      BY <1>3 DEF new
    <3> QED BY <1>4, <1>12, <2>2, <3>1
  <2> QED BY <1>1, <2>1, <2>2
<1> QED BY <1>3, <1>4, <1>5, <1>10, <1>11, <1>12 DEF new

(* The interval just closed holds at most what nCur counted.               *)
LEMMA CutWithinBudget ==
  ASSUME TypeOK, CutsOrdered, CountedSinceCut, WithinBudget,
         NEW e \in Nat, PrevEnd <= e,
         intervals' = Append(intervals, <<PrevEnd, e>>),
         NEW i \in DOMAIN intervals', NEW j \in DOMAIN file, NEW k \in DOMAIN file,
         intervals'[i][1] < file[j].time,
         file[j].time < intervals'[i][2],
         intervals'[i][1] <= file[k].time,
         file[k].time < intervals'[i][2]
  PROVE  EventsFromTo(j, k) <= MaxEventNum
<1>1. /\ DOMAIN intervals = 1 .. Len(intervals)
      /\ DOMAIN intervals' = 1 .. Len(intervals) + 1
      /\ \A m \in DOMAIN intervals : intervals'[m] = intervals[m]
      /\ intervals'[Len(intervals) + 1][1] = PrevEnd
  BY CutFacts
<1>2. file[j] \in Changes /\ file[k] \in Changes
  BY DEF TypeOK
<1>3. /\ file[j].time \in Nat /\ file[k].before \in Nat /\ file[k].n \in Nat
      /\ file[j].before \in Nat /\ EventsRead \in Nat /\ PrevEnd \in Nat
      /\ nCur \in 0 .. MaxEventNum /\ MaxEventNum \in Nat
  BY <1>2, EventsReadType, VcdAssumption DEF TypeOK, Changes
<1>4. CASE i = Len(intervals) + 1
  <2>1. EventsRead - file[j].before <= nCur
    BY <1>1, <1>3, <1>4 DEF CountedSinceCut
  <2>2. file[k].before + file[k].n <= EventsRead
    BY DEF CountedSinceCut
  <2>3. (file[k].before + file[k].n) - file[j].before <= EventsRead - file[j].before
    BY <1>3, <2>2
  <2>4. EventsFromTo(j, k) <= nCur
    BY <1>3, <2>1, <2>3, SMTT(30) DEF EventsFromTo
  <2>5. EventsFromTo(j, k) \in Int
    BY <1>3 DEF EventsFromTo
  <2> QED BY <1>3, <2>4, <2>5
<1>5. CASE i # Len(intervals) + 1
  <2>1. Len(intervals) \in Nat
    BY DEF TypeOK
  <2>2. i \in DOMAIN intervals
    BY <1>1, <1>5, <2>1
  <2>3. intervals[i] \in Nat \X Nat
    BY <2>2 DEF TypeOK
  <2>4. intervals'[i] = intervals[i]
    BY <1>1, <2>2
  <2>5. Within(i, j) /\ Within(i, k) /\ file[j].time # intervals[i][1]
    BY <1>3, <2>3, <2>4 DEF Within
  <2> QED BY <2>2, <2>5 DEF WithinBudget
<1> QED BY <1>4, <1>5

(* A change keeps the order of the cuts and the count since the last one.  *)
LEMMA ChangeKeepsCuts ==
  ASSUME IInv, NEW id \in Ids, NEW v \in AllValues, NEW n \in Nat \ {0}, Change(id, v, n)
  PROVE  IInv'
<1> DEFINE new == Len(file) + 1
<1>1. /\ ~eof /\ eof' = eof /\ time' = time /\ timeMax' = timeMax
      /\ time \in Nat /\ nCur \in 0 .. MaxEventNum /\ MaxEventNum \in Nat
      /\ PrevEnd \in Nat /\ EventsRead \in Nat /\ PrevEnd <= time
  <2>1. ~eof /\ eof' = eof /\ time' = time /\ timeMax' = timeMax
    BY DEF Change
  <2>2. PrevEnd \in Nat /\ EventsRead \in Nat
    BY EventsReadType DEF IInv
  <2>3. time \in Nat /\ nCur \in 0 .. MaxEventNum /\ MaxEventNum \in Nat
    BY VcdAssumption DEF IInv, TypeOK
  <2> QED BY <2>1, <2>2, <2>3 DEF IInv, CutsOrdered
<1>2. /\ file' \in Seq(Changes)
      /\ DOMAIN file = 1 .. Len(file)
      /\ DOMAIN file' = 1 .. new
      /\ \A k \in DOMAIN file : file'[k] = file[k]
      /\ file'[new] = [id |-> id, time |-> time, value |-> v, n |-> n, before |-> EventsRead]
      /\ EventsRead' = EventsRead + n
  BY ReadFacts DEF IInv, Change
<1>3. /\ file'[new].time = time /\ file'[new].n = n /\ file'[new].before = EventsRead
      /\ Len(file) \in Nat
  BY <1>2 DEF IInv, TypeOK
<1>4. \A k \in DOMAIN file : /\ file[k].time \in Nat /\ file[k].n \in Nat
                             /\ file[k].before \in Nat /\ file[k].time <= time
                             /\ file[k].before + file[k].n <= EventsRead
  <2> TAKE k \in DOMAIN file
  <2>1. file[k] \in Changes
    BY DEF IInv, TypeOK
  <2> QED BY <2>1 DEF Changes, IInv, NothingAhead, CountedSinceCut
<1>5. \A k \in DOMAIN file' : k \in DOMAIN file \/ k = new
  BY <1>2, <1>3
<1>6. values' \in [Ids -> Seq(Events)]
  BY AppendedFacts DEF IInv, TypeOK, Change
<1>7. NothingAhead' /\ StoredIfRead' /\ WaveformKept'
  BY ChangeKeepsWaveforms
<1>8. \A k \in DOMAIN file' : file'[k].before + file'[k].n <= EventsRead'
  <2> SUFFICES ASSUME NEW k \in DOMAIN file' PROVE file'[k].before + file'[k].n <= EventsRead'
    OBVIOUS
  <2>1. CASE k = new
    BY <1>2, <1>3, <2>1
  <2>2. CASE k \in DOMAIN file
    <3>1. /\ file'[k] = file[k] /\ file[k].before \in Nat /\ file[k].n \in Nat
          /\ file[k].before + file[k].n <= EventsRead
      BY <1>2, <1>4, <2>2
    <3> QED BY <1>1, <1>2, <3>1, SMTT(30)
  <2> QED BY <1>5, <2>1, <2>2
<1> HIDE DEF new
<1>9. CASE nCur + n > MaxEventNum
  <2>1. intervals' = Append(intervals, <<PrevEnd, time>>) /\ nCur' = 0
    BY <1>9 DEF Change, Accumulate
  <2>2. /\ intervals' \in Seq(Nat \X Nat)
        /\ PrevEnd' = time
        /\ DOMAIN intervals' = 1 .. Len(intervals) + 1
        /\ \A i \in DOMAIN intervals' :
             /\ intervals'[i][1] = IF i = 1 THEN 0 ELSE intervals'[i - 1][2]
             /\ intervals'[i][1] <= intervals'[i][2]
             /\ intervals'[i][2] <= time
             /\ \A j \in DOMAIN intervals' : i < j => intervals'[i][2] <= intervals'[j][1]
        /\ \A t \in Nat : t < time =>
             \E i \in DOMAIN intervals' : intervals'[i][1] <= t /\ t < intervals'[i][2]
    BY <1>1, <2>1, CutFacts DEF IInv
  <2>3. TypeOK'
    BY <1>1, <1>2, <1>6, <2>1, <2>2 DEF TypeOK, IInv
  <2>4. CutsOrdered'
    <3>1. IF eof' THEN PrevEnd' = time' + 1 ELSE PrevEnd' <= time'
      BY <1>1, <2>2
    <3>2. \A i \in DOMAIN intervals' : intervals'[i][2] <= PrevEnd'
      BY <2>2
    <3>3. \A t \in Nat : t < PrevEnd' =>
            \E i \in DOMAIN intervals' : intervals'[i][1] <= t /\ t < intervals'[i][2]
      BY <2>2
    <3> QED BY <2>2, <3>1, <3>2, <3>3 DEF CutsOrdered
  <2>5. CountedSinceCut'
    <3>1. \A j \in DOMAIN file' : ~(file'[j].time > time)
      BY <1>1, <1>2, <1>3, <1>4, <1>5
    <3> QED BY <1>8, <2>2, <3>1 DEF CountedSinceCut
  <2>6. WithinBudget'
    <3> SUFFICES ASSUME NEW i \in DOMAIN intervals', NEW j \in DOMAIN file', NEW k \in DOMAIN file',
                        Within(i, j)', Within(i, k)', file'[j].time # intervals'[i][1]
                 PROVE  EventsFromTo(j, k)' <= MaxEventNum
      BY DEF WithinBudget
    <3>1. intervals'[i] \in Nat \X Nat
      BY <2>2
    <3>2. intervals'[i][1] \in Nat /\ intervals'[i][2] \in Nat /\ intervals'[i][2] <= time
      BY <2>2, <3>1
    <3>3. j \in DOMAIN file /\ k \in DOMAIN file
      BY <1>1, <1>3, <1>5, <3>2 DEF Within
    <3>4. /\ intervals'[i][1] < file[j].time /\ file[j].time < intervals'[i][2]
          /\ intervals'[i][1] <= file[k].time /\ file[k].time < intervals'[i][2]
      BY <1>2, <1>4, <3>2, <3>3 DEF Within
    <3>5. EventsFromTo(j, k) <= MaxEventNum
      BY <1>1, <2>1, <3>3, <3>4, CutWithinBudget DEF IInv
    <3> QED BY <1>2, <3>3, <3>5 DEF EventsFromTo
  <2> QED BY <1>7, <2>3, <2>4, <2>5, <2>6 DEF IInv
<1>10. CASE ~(nCur + n > MaxEventNum)
  <2>1. intervals' = intervals /\ nCur' = nCur + n /\ PrevEnd' = PrevEnd
    BY <1>10 DEF Change, Accumulate, PrevEnd
  <2>2. nCur' \in 0 .. MaxEventNum
    BY <1>1, <1>10, <2>1
  <2>3. TypeOK'
    BY <1>1, <1>2, <1>6, <2>1, <2>2 DEF TypeOK, IInv
  <2>4. CutsOrdered'
    BY <1>1, <2>1 DEF CutsOrdered, IInv
  <2>5. CountedSinceCut'
    <3>1. ASSUME NEW j \in DOMAIN file', file'[j].time > PrevEnd
          PROVE  EventsRead' - file'[j].before <= nCur'
      <4>1. CASE j = new
        BY <1>1, <1>2, <1>3, <2>1, <4>1
      <4>2. CASE j \in DOMAIN file
        <5>1. EventsRead - file[j].before <= nCur
          BY <1>2, <3>1, <4>2 DEF IInv, CountedSinceCut
        <5>2. file'[j].before = file[j].before /\ file[j].before \in Nat
          BY <1>2, <1>4, <4>2
        <5>3. EventsRead' = EventsRead + n /\ nCur' = nCur + n
          BY <1>2, <2>1
        <5> QED BY <1>1, <5>1, <5>2, <5>3
      <4> QED BY <1>5, <4>1, <4>2
    <3> QED BY <1>8, <2>1, <3>1 DEF CountedSinceCut
  <2>6. WithinBudget'
    <3> SUFFICES ASSUME NEW i \in DOMAIN intervals, NEW j \in DOMAIN file', NEW k \in DOMAIN file',
                        Within(i, j)', Within(i, k)', file'[j].time # intervals[i][1]
                 PROVE  EventsFromTo(j, k)' <= MaxEventNum
      BY <2>1 DEF WithinBudget
    <3>1. intervals[i] \in Nat \X Nat /\ intervals[i][2] <= PrevEnd
      BY DEF IInv, TypeOK, CutsOrdered
    <3>2. j \in DOMAIN file /\ k \in DOMAIN file
      BY <1>1, <1>3, <1>5, <2>1, <3>1 DEF Within
    <3>3. Within(i, j) /\ Within(i, k) /\ file[j].time # intervals[i][1]
      BY <1>2, <2>1, <3>2 DEF Within
    <3>4. EventsFromTo(j, k) <= MaxEventNum
      BY <3>2, <3>3 DEF IInv, WithinBudget
    <3> QED BY <1>2, <3>2, <3>4 DEF EventsFromTo
  <2> QED BY <1>7, <2>3, <2>4, <2>5, <2>6 DEF IInv
<1> QED BY <1>9, <1>10

-----------------------------------------------------------------------------
(* The time moves on: what is past stays past, and no value is newer.      *)
LEMMA TimeStep ==
  ASSUME IInv, TimeToken
  PROVE  IInv'
<1>1. /\ time' \in Nat /\ time \in Nat /\ time < time' /\ ~eof
      /\ eof' = eof /\ nCur' = nCur /\ values' = values /\ intervals' = intervals
      /\ timeMax' = timeMax /\ file' = file
  BY VcdAssumption DEF TimeToken, IInv, TypeOK
<1>2. TypeOK'
  BY <1>1 DEF IInv, TypeOK
<1>3. /\ PrevEnd' = PrevEnd /\ EventsRead' = EventsRead
      /\ PrevEnd \in Nat /\ PrevEnd <= time
  <2>1. PrevEnd \in Nat
    BY EventsReadType DEF IInv
  <2> QED BY <1>1, <2>1 DEF PrevEnd, EventsRead, IInv, CutsOrdered
<1>4. \A k \in DOMAIN file : file[k].time \in Nat
  <2> TAKE k \in DOMAIN file
  <2>1. file[k] \in Changes
    BY DEF IInv, TypeOK
  <2> QED BY <2>1 DEF Changes
<1>5. \A id \in Ids : /\ DOMAIN values[id] = 1 .. Len(values[id]) /\ Len(values[id]) \in Nat
                      /\ \A k \in DOMAIN values[id] : values[id][k].time \in Nat
  <2> TAKE id \in Ids
  <2>1. values[id] \in Seq(Events)
    BY DEF IInv, TypeOK
  <2>2. \A k \in DOMAIN values[id] : values[id][k] \in Events
    BY <2>1
  <2> QED BY <2>1, <2>2 DEF Events
<1>6. NothingAhead'
  BY <1>1, <1>4, <1>5 DEF IInv, NothingAhead
<1>7. StoredIfRead'
  BY <1>1 DEF IInv, StoredIfRead
<1>8. WaveformKept'
  <2> SUFFICES ASSUME NEW id \in Ids, values[id] # <<>>
               PROVE  \A t \in 0 .. time' : StoredAt(id, t)' = FileAt(id, t)'
    BY <1>1 DEF WaveformKept, IInv
  <2> TAKE t \in 0 .. time'
  <2>1. StoredAt(id, t)' = StoredAt(id, t) /\ FileAt(id, t)' = FileAt(id, t)
    BY <1>1 DEF StoredAt, FileAt
  <2>2. CASE t <= time
    BY <1>1, <2>1, <2>2 DEF IInv, WaveformKept
  <2>3. CASE t > time
    <3>1. {k \in DOMAIN values[id] : values[id][k].time <= t}
            = {k \in DOMAIN values[id] : values[id][k].time <= time}
      BY <1>1, <1>5, <2>3 DEF IInv, NothingAhead
    <3>2. {k \in DOMAIN file : file[k].id = id /\ file[k].time <= t}
            = {k \in DOMAIN file : file[k].id = id /\ file[k].time <= time}
      BY <1>1, <1>4, <2>3 DEF IInv, NothingAhead
    <3>3. StoredAt(id, t) = StoredAt(id, time) /\ FileAt(id, t) = FileAt(id, time)
      BY <3>1, <3>2 DEF StoredAt, FileAt
    <3>4. StoredAt(id, time) = FileAt(id, time)
      BY <1>1 DEF IInv, WaveformKept
    <3> QED BY <2>1, <3>3, <3>4
  <2> QED BY <1>1, <2>2, <2>3
<1>9. CutsOrdered'
  BY <1>1, <1>3 DEF IInv, CutsOrdered
<1>10. CountedSinceCut'
  BY <1>1, <1>3 DEF IInv, CountedSinceCut
<1>11. WithinBudget'
  BY <1>1 DEF IInv, WithinBudget, Within, EventsFromTo
<1> QED BY <1>2, <1>6, <1>7, <1>8, <1>9, <1>10, <1>11 DEF IInv

(* The last interval closes one past the last time.                        *)
LEMMA EndStep ==
  ASSUME IInv, EndOfFile
  PROVE  IInv'
<1>1. /\ time \in Nat /\ time' = time /\ ~eof /\ eof' = TRUE /\ timeMax' = time
      /\ nCur' = nCur /\ values' = values /\ file' = file
      /\ intervals' = Append(intervals, <<PrevEnd, time + 1>>)
  BY DEF EndOfFile, IInv, TypeOK
<1>2. /\ EventsRead' = EventsRead /\ PrevEnd \in Nat /\ PrevEnd <= time + 1
      /\ time + 1 \in Nat
  BY <1>1, EventsReadType DEF EventsRead, IInv, CutsOrdered
<1>3. /\ intervals' \in Seq(Nat \X Nat)
      /\ PrevEnd' = time + 1
      /\ \A i \in DOMAIN intervals' :
           /\ intervals'[i][1] = IF i = 1 THEN 0 ELSE intervals'[i - 1][2]
           /\ intervals'[i][1] <= intervals'[i][2]
           /\ intervals'[i][2] <= time + 1
           /\ \A j \in DOMAIN intervals' : i < j => intervals'[i][2] <= intervals'[j][1]
      /\ \A t \in Nat : t < time + 1 =>
           \E i \in DOMAIN intervals' : intervals'[i][1] <= t /\ t < intervals'[i][2]
  BY <1>1, <1>2, CutFacts DEF IInv
<1>4. TypeOK'
  BY <1>1, <1>3 DEF IInv, TypeOK
<1>5. NothingAhead' /\ StoredIfRead'
  <2>1. NothingAhead'
    BY <1>1 DEF IInv, NothingAhead
  <2>2. StoredIfRead'
    BY <1>1 DEF IInv, StoredIfRead
  <2> QED BY <2>1, <2>2
<1>6. WaveformKept'
  <2>1. \A id \in Ids : \A t \in 0 .. time :
             StoredAt(id, t)' = StoredAt(id, t) /\ FileAt(id, t)' = FileAt(id, t)
    BY <1>1 DEF StoredAt, FileAt
  <2> QED BY <1>1, <2>1 DEF IInv, WaveformKept
<1>7. CutsOrdered'
  BY <1>1, <1>3 DEF CutsOrdered
<1>8. \A k \in DOMAIN file : file[k].time \in Nat /\ file[k].time <= time
  <2> TAKE k \in DOMAIN file
  <2>1. file[k] \in Changes
    BY DEF IInv, TypeOK
  <2> QED BY <2>1 DEF Changes, IInv, NothingAhead
<1>9. CountedSinceCut'
  <2>1. \A k \in DOMAIN file : ~(file[k].time > time + 1)
    BY <1>1, <1>8
  <2> QED BY <1>1, <1>2, <1>3, <2>1 DEF IInv, CountedSinceCut
<1>10. WithinBudget'
  <2> SUFFICES ASSUME NEW i \in DOMAIN intervals', NEW j \in DOMAIN file, NEW k \in DOMAIN file,
                      Within(i, j)', Within(i, k)', file[j].time # intervals'[i][1]
               PROVE  EventsFromTo(j, k)' <= MaxEventNum
    BY <1>1 DEF WithinBudget
  <2>1. intervals'[i] \in Nat \X Nat
    BY <1>3
  <2>2. /\ intervals'[i][1] < file[j].time /\ file[j].time < intervals'[i][2]
        /\ intervals'[i][1] <= file[k].time /\ file[k].time < intervals'[i][2]
    BY <1>1, <1>8, <2>1 DEF Within
  <2>3. EventsFromTo(j, k) <= MaxEventNum
    BY <1>1, <1>2, <2>2, CutWithinBudget DEF IInv
  <2> QED BY <1>1, <2>3 DEF EventsFromTo
<1> QED BY <1>4, <1>5, <1>6, <1>7, <1>9, <1>10 DEF IInv

(* Before the first token nothing is stored and nothing is cut.            *)
LEMMA InitIInv == Init => IInv
<1> SUFFICES ASSUME Init PROVE IInv
  OBVIOUS
<1>1. /\ eof = FALSE /\ time = 0 /\ nCur = 0 /\ intervals = <<>> /\ timeMax = 0 /\ file = <<>>
      /\ values = [id \in Ids |-> <<>>] /\ DOMAIN file = {} /\ DOMAIN intervals = {}
      /\ PrevEnd = 0
  BY DEF Init, PrevEnd
<1>2. values \in [Ids -> Seq(Events)] /\ \A id \in Ids : values[id] = <<>> /\ DOMAIN values[id] = {}
  BY <1>1
<1>3. TypeOK
  <2>1. intervals \in Seq(Nat \X Nat) /\ file \in Seq(Changes)
    BY <1>1
  <2>2. nCur \in 0 .. MaxEventNum
    BY <1>1, VcdAssumption
  <2> QED BY <1>1, <1>2, <2>1, <2>2 DEF TypeOK
<1>4. NothingAhead /\ StoredIfRead /\ WaveformKept
  BY <1>1, <1>2 DEF NothingAhead, StoredIfRead, WaveformKept
<1>5. CutsOrdered /\ CountedSinceCut /\ WithinBudget
  BY <1>1 DEF CutsOrdered, CountedSinceCut, WithinBudget
<1> QED BY <1>3, <1>4, <1>5 DEF IInv

(* Every step of the reader keeps the inductive invariant.                 *)
THEOREM Invariance == Spec => []IInv
<1>1. ASSUME IInv, [Next]_vars
      PROVE  IInv'
  <2>1. CASE TimeToken
    BY <1>1, <2>1, TimeStep
  <2>2. CASE ScalarToken \/ BusToken
    <3>1. PICK id \in Ids, v \in AllValues, n \in Nat \ {0} : Change(id, v, n)
      BY <2>2, TokenIsChange
    <3> QED BY <1>1, <3>1, ChangeKeepsCuts
  <2>3. CASE EndOfFile
    BY <1>1, <2>3, EndStep
  <2>4. CASE UNCHANGED vars
    <3>1. /\ eof' = eof /\ time' = time /\ nCur' = nCur /\ values' = values
          /\ intervals' = intervals /\ timeMax' = timeMax /\ file' = file
      BY <2>4 DEF vars
    <3>2. TypeOK' /\ NothingAhead' /\ StoredIfRead'
      BY <1>1, <3>1 DEF IInv, TypeOK, NothingAhead, StoredIfRead
    <3>3. WaveformKept'
      <4>1. \A id \in Ids : \A t \in 0 .. time :
             StoredAt(id, t)' = StoredAt(id, t) /\ FileAt(id, t)' = FileAt(id, t)
        BY <1>1, <3>1 DEF StoredAt, FileAt
      <4> QED BY <1>1, <3>1, <4>1 DEF IInv, WaveformKept
    <3>4. CutsOrdered' /\ CountedSinceCut'
      <4>1. PrevEnd' = PrevEnd /\ EventsRead' = EventsRead
        BY <3>1 DEF PrevEnd, EventsRead
      <4> QED BY <1>1, <3>1, <4>1 DEF IInv, CutsOrdered, CountedSinceCut
    <3>5. WithinBudget'
      BY <1>1, <3>1 DEF IInv, WithinBudget, Within, EventsFromTo
    <3> QED BY <3>2, <3>3, <3>4, <3>5 DEF IInv
  <2> QED BY <1>1, <2>1, <2>2, <2>3, <2>4 DEF Next
<1> QED BY <1>1, InitIInv, PTL DEF Spec

(* Dropping repeated values and adding initial conditions (Vcd.cc:203-233) *)
(* loses nothing of any file: at every time the store gives the value the  *)
(* file gives.                                                             *)
THEOREM StoreKeepsWaveforms == Spec => []WaveformKept
<1>1. IInv => WaveformKept
  BY DEF IInv
<1> QED BY <1>1, Invariance, PTL

(* The intervals cut while reading tile the file, every change falls in    *)
(* exactly one of them, and none holds more than the event budget after    *)
(* its first time unit (VcdReader.cc:292-300).                             *)
THEOREM CutsTileFile == Spec => []CutsTile
<1>1. ASSUME IInv
      PROVE  CutsTile
  <2>1. \A i \in DOMAIN intervals : intervals[i] \in Nat \X Nat
    BY <1>1 DEF IInv, TypeOK
  <2>2. ASSUME eof, NEW k \in DOMAIN file
        PROVE  \E i \in DOMAIN intervals :
                 /\ Within(i, k)
                 /\ \A j \in DOMAIN intervals \ {i} : ~Within(j, k)
    <3>1. file[k].time \in Nat /\ file[k].time <= time /\ time \in Nat
      <4>1. file[k] \in Changes
        BY <1>1 DEF IInv, TypeOK
      <4> QED BY <1>1, <4>1 DEF IInv, TypeOK, NothingAhead, Changes
    <3>2. file[k].time < PrevEnd
      BY <1>1, <2>2, <3>1 DEF IInv, CutsOrdered
    <3>3. PICK i \in DOMAIN intervals : Within(i, k)
      BY <1>1, <3>1, <3>2 DEF IInv, CutsOrdered, Within
    <3>4. ASSUME NEW j \in DOMAIN intervals \ {i}
          PROVE  ~Within(j, k)
      <4>1. i \in Nat /\ j \in Nat /\ (i < j \/ j < i)
        <5>1. intervals \in Seq(Nat \X Nat)
          BY <1>1 DEF IInv, TypeOK
        <5> QED BY <5>1
      <4>2. intervals[i][2] <= intervals[j][1] \/ intervals[j][2] <= intervals[i][1]
        BY <1>1, <4>1 DEF IInv, CutsOrdered
      <4>3. /\ intervals[i][1] \in Nat /\ intervals[i][2] \in Nat
            /\ intervals[j][1] \in Nat /\ intervals[j][2] \in Nat
        BY <2>1
      <4> QED BY <3>1, <3>3, <4>2, <4>3 DEF Within
    <3> QED BY <3>3, <3>4
  <2>3. \A i \in DOMAIN intervals :
          /\ intervals[i][1] = IF i = 1 THEN 0 ELSE intervals[i - 1][2]
          /\ intervals[i][1] <= intervals[i][2]
    BY <1>1 DEF IInv, CutsOrdered
  <2> QED BY <1>1, <2>2, <2>3 DEF CutsTile, IInv, WithinBudget
<1> QED BY <1>1, Invariance, PTL
=============================================================================
