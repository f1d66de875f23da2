-------------------------- MODULE AuditFile_proofs --------------------------
(***************************************************************************)
(* Theorems about one audit file and its writers, for any number of them: *)
(* what the sink threads of one broker record is never lost, records of   *)
(* two histories do not pass for one, rotation keeps what it removes, and *)
(* an evidence bundle that is accepted holds no seam.                      *)
(*                                                                         *)
(* Hashes and events have no common type to quantify over, so a log is    *)
(* typed by its own lines.                                                 *)
(***************************************************************************)
EXTENDS AuditExport, TLAPS

Lines(s) == {s[i] : i \in DOMAIN s}
IsLog(s) == s \in Seq(Lines(s))

LEMMA LogFacts ==
  ASSUME NEW s, IsLog(s)
  PROVE  /\ Len(s) \in Nat /\ DOMAIN s = 1..Len(s)
         /\ \A i \in 1..Len(s) : s[i] \in Lines(s)
         /\ s = <<>> <=> Len(s) = 0
BY DEF IsLog, Lines

LEMMA SeqIsLog ==
  ASSUME NEW S, NEW s \in Seq(S)
  PROVE  IsLog(s)
<1>1. Len(s) \in Nat /\ s \in [1..Len(s) -> S] /\ DOMAIN s = 1..Len(s)
  OBVIOUS
<1>2. \A i \in 1..Len(s) : s[i] \in Lines(s)
  BY <1>1 DEF Lines
<1>. QED
  BY <1>1, <1>2 DEF IsLog

LEMMA EmptyLog == IsLog(<<>>) /\ Lines(<<>>) = {}
<1>1. <<>> \in Seq({})
  OBVIOUS
<1>2. IsLog(<<>>)
  BY <1>1, SeqIsLog, Zenon
<1>3. Lines(<<>>) = {}
  BY DEF Lines
<1>. QED
  BY <1>2, <1>3

LEMMA AppendLog ==
  ASSUME NEW s, IsLog(s), NEW x
  PROVE  /\ IsLog(Append(s, x)) /\ Len(Append(s, x)) = Len(s) + 1
         /\ DOMAIN Append(s, x) = 1..(Len(s) + 1)
         /\ \A i \in 1..Len(s) : Append(s, x)[i] = s[i]
         /\ Append(s, x)[Len(s) + 1] = x
         /\ Lines(Append(s, x)) = Lines(s) \cup {x}
<1>. DEFINE S == Lines(s) \cup {x}
            a == Append(s, x)
<1>1. s \in Seq(S) /\ x \in S
  BY LogFacts DEF IsLog
<1>2. a \in Seq(S) /\ Len(a) = Len(s) + 1 /\ DOMAIN a = 1..(Len(s) + 1)
  BY <1>1
<1>3. (\A i \in 1..Len(s) : a[i] = s[i]) /\ a[Len(s) + 1] = x
  BY <1>1
<1>4. IsLog(a)
  BY <1>2, SeqIsLog
<1>5. Len(s) \in Nat /\ DOMAIN s = 1..Len(s)
  BY LogFacts
<1>6. Lines(a) = Lines(s) \cup {x}
  BY <1>2, <1>3, <1>5 DEF Lines
<1>. QED
  BY <1>2, <1>3, <1>4, <1>6

LEMMA SubSeqLog ==
  ASSUME NEW s, IsLog(s), NEW m \in 1..(Len(s) + 1), NEW n \in 0..Len(s)
  PROVE  IsLog(SubSeq(s, m, n)) /\ Lines(SubSeq(s, m, n)) \subseteq Lines(s)
<1>1. Len(s) \in Nat /\ s \in Seq(Lines(s))
  BY LogFacts DEF IsLog
<1>2. SubSeq(s, m, n) \in Seq(Lines(s))
  BY <1>1
<1>3. \A i \in DOMAIN SubSeq(s, m, n) : SubSeq(s, m, n)[i] \in Lines(s)
  BY <1>2
<1>. QED
  BY <1>2, <1>3, SeqIsLog DEF Lines

LEMMA ConcatLog ==
  ASSUME NEW s, IsLog(s), NEW t, IsLog(t)
  PROVE  IsLog(s \o t) /\ Lines(s \o t) \subseteq Lines(s) \cup Lines(t)
<1>. DEFINE S == Lines(s) \cup Lines(t)
<1>1. s \in Seq(S) /\ t \in Seq(S)
  <2>1. s \in Seq(Lines(s)) /\ t \in Seq(Lines(t))
    BY DEF IsLog
  <2>. QED
    BY <2>1
<1>2. s \o t \in Seq(S)
  BY <1>1
<1>3. \A i \in DOMAIN (s \o t) : (s \o t)[i] \in S
  BY <1>2
<1>. QED
  BY <1>2, <1>3, SeqIsLog DEF Lines

\* What is on disk after a write, whole or cut short, is lines of what was there,
\* lines of what was written, and torn ones.
LEMMA CutLines ==
  ASSUME NEW t, IsLog(t), NEW text \in CutShort(t)
  PROVE  IsLog(text) /\ Lines(text) \subseteq Lines(t) \cup {Torn}
<1>1. PICK n \in 0..(Len(t) - 1) :
        text = SubSeq(t, 1, n) \/ text = Append(SubSeq(t, 1, n), Torn)
  BY DEF CutShort
<1>2. 1 \in 1..(Len(t) + 1) /\ n \in 0..Len(t)
  BY LogFacts
<1>3. IsLog(SubSeq(t, 1, n)) /\ Lines(SubSeq(t, 1, n)) \subseteq Lines(t)
  BY <1>2, SubSeqLog
<1>4. CASE text = SubSeq(t, 1, n)
  BY <1>3, <1>4
<1>5. CASE text = Append(SubSeq(t, 1, n), Torn)
  <2>. DEFINE cut == SubSeq(t, 1, n)
  <2>1. IsLog(cut) /\ Lines(cut) \subseteq Lines(t) /\ text = Append(cut, Torn)
    BY <1>3, <1>5
  <2>. HIDE DEF cut
  <2>2. IsLog(text) /\ Lines(text) = Lines(cut) \cup {Torn}
    BY <2>1, AppendLog
  <2>. QED
    BY <2>1, <2>2
<1>. QED
  BY <1>1, <1>4, <1>5

LEMMA OverlaidLines ==
  ASSUME NEW old, IsLog(old), NEW text, IsLog(text), NEW new \in Overlaid(old, text)
  PROVE  IsLog(new) /\ Lines(new) \subseteq Lines(old) \cup Lines(text) \cup {Torn}
<1>. DEFINE rest == SubSeq(old, Len(text) + 1, Len(old))
<1>1. new \in {text, text \o <<Torn>>, text \o rest}
  BY DEF Overlaid
<1>2. CASE new = text
  BY <1>2
<1>3. CASE new = text \o <<Torn>>
  <2>1. <<Torn>> \in Seq({Torn}) /\ Lines(<<Torn>>) \subseteq {Torn}
    BY DEF Lines
  <2>. QED
    BY <1>3, <2>1, SeqIsLog, ConcatLog
<1>4. CASE new = text \o rest
  <2>1. Len(text) \in Nat /\ Len(old) \in Nat
    BY LogFacts
  <2>2. CASE Len(text) <= Len(old)
    <3>1. IsLog(rest) /\ Lines(rest) \subseteq Lines(old)
      BY <2>1, <2>2, SubSeqLog
    <3>. QED
      BY <1>4, <3>1, ConcatLog
  <2>3. CASE Len(text) > Len(old)
    <3>1. rest = <<>>
      BY <2>1, <2>3, LogFacts DEF IsLog
    <3>. QED
      BY <1>4, <3>1, EmptyLog, ConcatLog
  <2>. QED
    BY <2>1, <2>2, <2>3
<1>. QED
  BY <1>1, <1>2, <1>3, <1>4

-----------------------------------------------------------------------------
(* The chain.                                                              *)

LEMMA ExtendLog ==
  ASSUME NEW s, IsLog(s), NEW e
  PROVE  /\ IsLog(Extend(s, e)) /\ Len(Extend(s, e)) = Len(s) + 1
         /\ DOMAIN Extend(s, e) = 1..(Len(s) + 1)
         /\ \A i \in 1..Len(s) : Extend(s, e)[i] = s[i]
         /\ Extend(s, e)[Len(s) + 1] =
              [seq |-> Len(s), event |-> e, prev |-> LogHead(s),
               hash |-> ChainHash(Len(s), LogHead(s), e)]
         /\ Lines(Extend(s, e)) = Lines(s) \cup {Extend(s, e)[Len(s) + 1]}
         /\ SubSeq(Extend(s, e), 1, Len(s)) = s
<1>. DEFINE r == [seq |-> Len(s), event |-> e, prev |-> LogHead(s),
                  hash |-> ChainHash(Len(s), LogHead(s), e)]
<1>1. Extend(s, e) = Append(s, r)
  BY DEF Extend
<1>. HIDE DEF r
<1>2. SubSeq(Append(s, r), 1, Len(s)) = s
  <2>1. s \in Seq(Lines(s) \cup {r}) /\ r \in Lines(s) \cup {r}
    BY DEF IsLog
  <2>. QED
    BY <2>1
<1>. QED
  BY <1>1, <1>2, AppendLog DEF r

\* A prefix of a prefix.
LEMMA PrefixOf ==
  ASSUME NEW s, IsLog(s), NEW x, NEW i \in 1..Len(s)
  PROVE  SubSeq(Append(s, x), 1, i - 1) = SubSeq(s, 1, i - 1)
<1>1. s \in Seq(Lines(s) \cup {x}) /\ x \in Lines(s) \cup {x}
  BY DEF IsLog
<1>. QED
  BY <1>1

LEMMA ExtendVerifies ==
  ASSUME NEW s, IsLog(s), NEW e, Verifies(s)
  PROVE  Verifies(Extend(s, e))
<1>. DEFINE t == Extend(s, e)
            r == [seq |-> Len(s), event |-> e, prev |-> LogHead(s),
                  hash |-> ChainHash(Len(s), LogHead(s), e)]
<1>1. DOMAIN t = 1..(Len(s) + 1) /\ Len(s) \in Nat /\ DOMAIN s = 1..Len(s)
  BY ExtendLog, LogFacts
<1>2. ASSUME NEW i \in 1..Len(s)
      PROVE  /\ t[i].seq = i - 1
             /\ t[i].prev = LogHead(SubSeq(t, 1, i - 1))
             /\ t[i].hash = ChainHash(t[i].seq, t[i].prev, t[i].event)
  <2>1. t[i] = s[i]
    BY ExtendLog
  <2>2. SubSeq(t, 1, i - 1) = SubSeq(s, 1, i - 1)
    BY PrefixOf DEF Extend
  <2>3. /\ s[i].seq = i - 1
        /\ s[i].prev = LogHead(SubSeq(s, 1, i - 1))
        /\ s[i].hash = ChainHash(s[i].seq, s[i].prev, s[i].event)
    BY <1>1, Zenon DEF Verifies
  <2>. HIDE DEF t
  <2>. QED
    BY <2>1, <2>2, <2>3
<1>3. /\ t[Len(s) + 1].seq = Len(s)
      /\ t[Len(s) + 1].prev = LogHead(SubSeq(t, 1, Len(s)))
      /\ t[Len(s) + 1].hash = ChainHash(t[Len(s) + 1].seq, t[Len(s) + 1].prev, t[Len(s) + 1].event)
  <2>1. t[Len(s) + 1] = r /\ SubSeq(t, 1, Len(s)) = s
    BY ExtendLog
  <2>2. /\ r.seq = Len(s) /\ r.event = e /\ r.prev = LogHead(s)
        /\ r.hash = ChainHash(Len(s), LogHead(s), e)
    BY Zenon
  <2>. HIDE DEF t, r
  <2>. QED
    BY <2>1, <2>2
<1>. HIDE DEF t
<1>4. \A i \in DOMAIN t : i \in 1..Len(s) \/ i = Len(s) + 1
  BY <1>1
<1>5. Len(s) = (Len(s) + 1) - 1
  BY <1>1
<1>6. Verifies(t)
  BY <1>2, <1>3, <1>4, <1>5 DEF Verifies
<1>. QED
  BY <1>6 DEF t

LEMMA EmptyVerifies == Verifies(<<>>)
BY DEF Verifies

\* No hash of the chain is that of a torn line.
LEMMA VerifiesParses ==
  ASSUME NEW s, Verifies(s)
  PROVE  Parses(s)
<1>. SUFFICES ASSUME NEW i \in DOMAIN s, s[i] = Torn PROVE FALSE
  BY DEF Parses
<1>1. Torn.hash = <<>>
  BY DEF Torn, Genesis
<1>2. s[i].hash = <<s[i].seq, s[i].prev, s[i].event>>
  BY DEF Verifies, ChainHash
<1>3. \A a, b, c : <<a, b, c>> # <<>>
  OBVIOUS
<1>. QED
  BY <1>1, <1>2, <1>3, Zenon

-----------------------------------------------------------------------------
(* A line is sound when some writer has put it last in a text, after the  *)
(* record it links to, and, if it continues from an archive, when that    *)
(* archive has been written, sealed.                                       *)

Hashed(r) ==
  r = [seq |-> r.seq, event |-> r.event, prev |-> r.prev,
       hash |-> ChainHash(r.seq, r.prev, r.event)]

Known(r, D) ==
  /\ Hashed(r) /\ r.seq \in Nat
  /\ \E d \in D :
       /\ IsLog(d) /\ \A x \in Lines(d) : Hashed(x)
       /\ Len(d) = r.seq + 1 /\ d[Len(d)] = r
       /\ r.prev = LogHead(SubSeq(d, 1, Len(d) - 1))

Anchored(r, A) ==
  r.event.kind = "continue" => \E a \in A : LogHead(a) = r.event.of /\ Sealed(a)

Sound(r, D, A) == Known(r, D) /\ Anchored(r, A)

LEMMA SoundStays ==
  ASSUME NEW D, NEW D2, D \subseteq D2, NEW A, NEW A2, A \subseteq A2, NEW r, Sound(r, D, A)
  PROVE  Sound(r, D2, A2)
BY Zenon DEF Sound, Known, Anchored

LEMMA ExtendSound ==
  ASSUME NEW s, IsLog(s), NEW D, NEW A, \A x \in Lines(s) : Sound(x, D, A), NEW e,
         e.kind = "continue" => \E a \in A : LogHead(a) = e.of /\ Sealed(a)
  PROVE  \A x \in Lines(Extend(s, e)) : Sound(x, D \cup {Extend(s, e)}, A)
<1>. DEFINE t == Extend(s, e)
            r == [seq |-> Len(s), event |-> e, prev |-> LogHead(s),
                  hash |-> ChainHash(Len(s), LogHead(s), e)]
<1>1. /\ IsLog(t) /\ Len(t) = Len(s) + 1 /\ t[Len(s) + 1] = r
      /\ Lines(t) = Lines(s) \cup {r} /\ SubSeq(t, 1, Len(s)) = s
  <2>1. Lines(t) = Lines(s) \cup {t[Len(s) + 1]} /\ t[Len(s) + 1] = r
    BY ExtendLog, Zenon
  <2>. QED
    BY <2>1, ExtendLog, Zenon
<1>2. /\ r.seq = Len(s) /\ r.event = e /\ r.prev = LogHead(s)
      /\ r.hash = ChainHash(Len(s), LogHead(s), e)
  BY Zenon
<1>3. Hashed(r)
  BY <1>2, Zenon DEF Hashed
<1>. HIDE DEF t, r
<1>4. Anchored(r, A)
  BY <1>2 DEF Anchored
<1>5. Len(s) = Len(t) - 1
  BY <1>1, LogFacts
<1>6. \A x \in Lines(s) : Hashed(x)
  BY Zenon DEF Sound, Known
<1>7. Known(r, D \cup {t})
  BY <1>1, <1>2, <1>3, <1>5, <1>6, LogFacts DEF Known
<1>8. \A x \in Lines(s) : Sound(x, D \cup {t}, A)
  BY SoundStays
<1>9. \A x \in Lines(t) : Sound(x, D \cup {t}, A)
  BY <1>1, <1>4, <1>7, <1>8 DEF Sound
<1>. QED
  BY <1>9 DEF t

-----------------------------------------------------------------------------
(* Every line of the file, and every text about to be written, is sound.  *)

Pending(w) ==
  /\ pc[w] \in {"open", "write"} =>
       IsLog(log[w]) /\ \A r \in Lines(log[w]) : Sound(r, drafts, archives)
  /\ pc[w] = "archive" => w \in Rotators /\ IsLog(log[w]) /\ Sealed(log[w])

OnDisk == IsLog(file) /\ \A r \in Lines(file) : r = Torn \/ Sound(r, drafts, archives)

Tables == DOMAIN pc = Writers /\ DOMAIN log = Writers
          /\ pc = [w \in Writers |-> pc[w]] /\ log = [w \in Writers |-> log[w]]

FileInv == Tables /\ OnDisk /\ \A w \in Writers : Pending(w)

LEMMA InitFile == FileInit => FileInv
<1>. SUFFICES ASSUME FileInit PROVE FileInv
  OBVIOUS
<1>1. file = <<>> /\ Tables /\ \A w \in Writers : pc[w] = "idle"
  BY DEF FileInit, Tables
<1>2. OnDisk
  BY <1>1, EmptyLog, Zenon DEF OnDisk
<1>. QED
  BY <1>1, <1>2 DEF FileInv, Pending

\* A step of one writer leaves the others' texts, and their soundness, alone.
LEMMA OthersPending ==
  ASSUME FileInv, NEW w \in Writers, NEW p, NEW l,
         pc' = [pc EXCEPT ![w] = p], log' = [log EXCEPT ![w] = l],
         drafts \subseteq drafts', archives \subseteq archives'
  PROVE  /\ Tables' /\ pc'[w] = p /\ log'[w] = l
         /\ \A v \in Writers : v # w => pc'[v] = pc[v] /\ log'[v] = log[v] /\ Pending(v)'
<1>1. Tables' /\ pc'[w] = p /\ log'[w] = l
  BY DEF FileInv, Tables
<1>2. ASSUME NEW v \in Writers, v # w
      PROVE  pc'[v] = pc[v] /\ log'[v] = log[v] /\ Pending(v)'
  <2>1. pc'[v] = pc[v] /\ log'[v] = log[v]
    BY <1>2 DEF FileInv, Tables
  <2>2. Pending(v)
    BY DEF FileInv
  <2>3. \A r : Sound(r, drafts, archives) => Sound(r, drafts', archives')
    BY SoundStays
  <2>. QED
    BY <2>1, <2>2, <2>3 DEF Pending
<1>. QED
  BY <1>1, <1>2

LEMMA DiskStays ==
  ASSUME OnDisk, file' = file, drafts \subseteq drafts', archives \subseteq archives'
  PROVE  OnDisk'
<1>1. \A r : Sound(r, drafts, archives) => Sound(r, drafts', archives')
  BY SoundStays
<1>. QED
  BY <1>1 DEF OnDisk

\* A step that only moves a writer to a place where it holds no text.
LEMMA MoveFile ==
  ASSUME FileInv, NEW w \in Writers, NEW p, p \notin {"open", "write", "archive"},
         pc' = [pc EXCEPT ![w] = p], UNCHANGED <<log, drafts>>,
         archives \subseteq archives', OnDisk'
  PROVE  FileInv'
<1>1. log' = [log EXCEPT ![w] = log[w]]
  BY DEF FileInv, Tables
<1>2. drafts \subseteq drafts'
  OBVIOUS
<1>3. /\ Tables' /\ pc'[w] = p
      /\ \A v \in Writers : v # w => Pending(v)'
  <2>. PICK l : l = log[w]
    OBVIOUS
  <2>1. log' = [log EXCEPT ![w] = l]
    BY <1>1
  <2>2. archives \subseteq archives' /\ pc' = [pc EXCEPT ![w] = p]
    OBVIOUS
  <2>3. Tables' /\ pc'[w] = p
    BY <1>2, <2>1, <2>2, OthersPending, ZenonT(30)
  <2>4. \A v \in Writers : v # w => Pending(v)'
    BY <1>2, <2>1, <2>2, OthersPending
  <2>. QED
    BY <2>3, <2>4
<1>4. Pending(w)'
  BY <1>3 DEF Pending
<1>. QED
  BY <1>3, <1>4 DEF FileInv

LEMMA ReadFile ==
  ASSUME FileInv, NEW w \in Writers, ReadLog(w)
  PROVE  FileInv'
<1>. DEFINE old == IF Parses(file) THEN file ELSE <<>>
            e == Event(w, "decision", Genesis)
            new == Extend(old, e)
<1>1. /\ log' = [log EXCEPT ![w] = new] /\ drafts' = drafts \cup {new}
      /\ pc' = [pc EXCEPT ![w] = "open"] /\ file' = file /\ archives' = archives
  BY DEF ReadLog
<1>2. IsLog(old) /\ \A r \in Lines(old) : Sound(r, drafts, archives)
  <2>1. CASE Parses(file)
    <3>1. \A r \in Lines(file) : r # Torn
      BY <2>1 DEF Parses, Lines
    <3>. QED
      BY <2>1, <3>1 DEF FileInv, OnDisk
  <2>2. CASE ~Parses(file)
    BY <2>2, EmptyLog
  <2>. QED
    BY <2>1, <2>2
<1>3. e.kind # "continue"
  BY DEF Event
<1>. HIDE DEF old, e
<1>4. IsLog(new) /\ \A r \in Lines(new) : Sound(r, drafts \cup {new}, archives)
  <2>1. IsLog(new)
    BY <1>2, ExtendLog, Zenon
  <2>. QED
    BY <1>2, <1>3, <2>1, ExtendSound, Zenon
<1>. HIDE DEF new
<1>5. drafts \subseteq drafts' /\ archives \subseteq archives'
  BY <1>1
<1>6. /\ Tables' /\ pc'[w] = "open" /\ log'[w] = new
      /\ \A v \in Writers : v # w => Pending(v)'
  BY <1>1, <1>5, OthersPending, ZenonT(30)
<1>7. Pending(w)'
  BY <1>1, <1>4, <1>6 DEF Pending
<1>8. OnDisk'
  BY <1>1, <1>5, DiskStays DEF FileInv
<1>. QED
  BY <1>6, <1>7, <1>8 DEF FileInv

LEMMA SealedExtend ==
  ASSUME NEW s, IsLog(s), Verifies(s), NEW w
  PROVE  Sealed(Extend(s, Event(w, "seal", LogHead(s))))
<1>. DEFINE e == Event(w, "seal", LogHead(s))
            t == Extend(s, e)
<1>1. e.by = w
  BY DEF Event
<1>. HIDE DEF e
<1>2. Verifies(t)
  BY ExtendVerifies
<1>3. /\ Len(t) = Len(s) + 1 /\ t[Len(s) + 1].event = e /\ SubSeq(t, 1, Len(s)) = s
  <2>. DEFINE r == [seq |-> Len(s), event |-> e, prev |-> LogHead(s),
                    hash |-> ChainHash(Len(s), LogHead(s), e)]
  <2>1. Len(t) = Len(s) + 1 /\ t[Len(s) + 1] = r /\ SubSeq(t, 1, Len(s)) = s
    BY ExtendLog, Zenon
  <2>2. r.event = e
    BY Zenon
  <2>. QED
    BY <2>1, <2>2, Zenon
<1>4. Len(t) - 1 = Len(s)
  BY <1>3, LogFacts
<1>. HIDE DEF t
<1>5. t[Len(t)].event = e /\ SubSeq(t, 1, Len(t) - 1) = s
  BY <1>3, <1>4
<1>6. e = Event(e.by, "seal", LogHead(s))
  BY <1>1 DEF e
<1>7. Sealed(t)
  BY <1>2, <1>5, <1>6 DEF Sealed
<1>. QED
  BY <1>7 DEF t, e

LEMMA SealFile ==
  ASSUME FileInv, NEW w \in Writers, ReadSeal(w)
  PROVE  FileInv'
<1>. DEFINE new == Extend(file, Event(w, "seal", LogHead(file)))
<1>1. /\ log' = [log EXCEPT ![w] = new] /\ drafts' = drafts /\ Verifies(file)
      /\ w \in Rotators /\ pc' = [pc EXCEPT ![w] = "archive"] /\ file' = file /\ archives' = archives
  BY DEF ReadSeal
<1>2. IsLog(new) /\ Sealed(new)
  <2>1. IsLog(file)
    BY DEF FileInv, OnDisk
  <2>2. IsLog(new)
    BY <2>1, ExtendLog, Zenon
  <2>. QED
    BY <1>1, <2>1, <2>2, SealedExtend, Zenon
<1>. HIDE DEF new
<1>3. drafts \subseteq drafts' /\ archives \subseteq archives'
  BY <1>1
<1>4. /\ Tables' /\ pc'[w] = "archive" /\ log'[w] = new
      /\ \A v \in Writers : v # w => Pending(v)'
  BY <1>1, <1>3, OthersPending, ZenonT(30)
<1>5. Pending(w)'
  BY <1>1, <1>2, <1>4 DEF Pending
<1>6. OnDisk'
  BY <1>1, <1>3, DiskStays DEF FileInv
<1>. QED
  BY <1>4, <1>5, <1>6 DEF FileInv

\* The continuation commits to an archive that is written by then.
LEMMA ArchiveFile ==
  ASSUME FileInv, NEW w \in Writers, WriteArchive(w)
  PROVE  FileInv'
<1>. DEFINE e == Event(w, "continue", LogHead(log[w]))
            new == Extend(<<>>, e)
<1>1. /\ pc[w] = "archive" /\ archives' = archives \cup {log[w]}
      /\ log' = [log EXCEPT ![w] = new] /\ drafts' = drafts \cup {new}
      /\ pc' = [pc EXCEPT ![w] = "open"] /\ file' = file
  BY DEF WriteArchive
<1>2. Sealed(log[w]) /\ e.of = LogHead(log[w])
  BY <1>1 DEF FileInv, Pending, Event
<1>3. \E a \in archives' : LogHead(a) = e.of /\ Sealed(a)
  BY <1>1, <1>2
<1>. HIDE DEF e
<1>4. IsLog(new) /\ \A r \in Lines(new) : Sound(r, drafts \cup {new}, archives')
  <2>1. IsLog(<<>>) /\ \A r \in Lines(<<>>) : Sound(r, drafts, archives')
    BY EmptyLog
  <2>2. IsLog(new)
    BY <2>1, ExtendLog, Zenon
  <2>. QED
    BY <1>3, <2>1, <2>2, ExtendSound, Zenon
<1>. HIDE DEF new
<1>5. drafts \subseteq drafts' /\ archives \subseteq archives'
  BY <1>1
<1>6. /\ Tables' /\ pc'[w] = "open" /\ log'[w] = new
      /\ \A v \in Writers : v # w => Pending(v)'
  BY <1>1, <1>5, OthersPending
<1>7. Pending(w)'
  BY <1>1, <1>4, <1>6 DEF Pending
<1>8. OnDisk'
  BY <1>1, <1>5, DiskStays DEF FileInv
<1>. QED
  BY <1>6, <1>7, <1>8 DEF FileInv

LEMMA OpenFile ==
  ASSUME FileInv, NEW w \in Writers, Open(w)
  PROVE  FileInv'
<1>1. /\ pc[w] = "open" /\ file' = <<>> /\ pc' = [pc EXCEPT ![w] = "write"]
      /\ UNCHANGED <<archives, log, drafts>>
  BY DEF Open
<1>2. log' = [log EXCEPT ![w] = log[w]]
  BY <1>1 DEF FileInv, Tables
<1>. drafts \subseteq drafts' /\ archives \subseteq archives'
  BY <1>1
<1>3. /\ Tables' /\ pc'[w] = "write" /\ log'[w] = log[w]
      /\ \A v \in Writers : v # w => Pending(v)'
  BY <1>1, <1>2, OthersPending, ZenonT(30)
<1>4. Pending(w)'
  <2>1. Pending(w)
    BY DEF FileInv
  <2>. QED
    BY <1>1, <1>3, <2>1 DEF Pending
<1>5. OnDisk'
  BY <1>1, EmptyLog, Zenon DEF OnDisk
<1>. QED
  BY <1>3, <1>4, <1>5 DEF FileInv

\* Whatever a writer leaves on disk consists of sound lines and torn ones.
LEMMA LeavesOnDisk ==
  ASSUME FileInv, NEW text, IsLog(text),
         \A r \in Lines(text) : r = Torn \/ Sound(r, drafts, archives),
         file' \in Overlaid(file, text), UNCHANGED <<archives, drafts>>
  PROVE  OnDisk'
<1>1. OnDisk
  BY DEF FileInv
<1>2. IsLog(file') /\ Lines(file') \subseteq Lines(file) \cup Lines(text) \cup {Torn}
  BY <1>1, OverlaidLines DEF OnDisk
<1>. QED
  BY <1>1, <1>2 DEF OnDisk

LEMMA WriteFile ==
  ASSUME FileInv, NEW w \in Writers, Write(w) \/ WriteFails(w)
  PROVE  FileInv'
<1>1. /\ UNCHANGED <<archives, log, drafts>>
      /\ \/ pc' = [pc EXCEPT ![w] = "done"] \/ pc' = [pc EXCEPT ![w] = "failed"]
      /\ \/ file' = file
         \/ /\ pc[w] = "write"
            /\ \/ file' \in Overlaid(file, log[w])
               \/ \E text \in CutShort(log[w]) : file' \in Overlaid(file, text)
  BY DEF Write, WriteFails
<1>2. OnDisk'
  <2>1. CASE file' = file
    BY <1>1, <2>1, DiskStays DEF FileInv
  <2>2. ASSUME pc[w] = "write"
        PROVE  IsLog(log[w]) /\ \A r \in Lines(log[w]) : Sound(r, drafts, archives)
    BY <2>2 DEF FileInv, Pending
  <2>3. CASE pc[w] = "write" /\ file' \in Overlaid(file, log[w])
    BY <1>1, <2>2, <2>3, LeavesOnDisk
  <2>4. ASSUME pc[w] = "write", NEW text \in CutShort(log[w]), file' \in Overlaid(file, text)
        PROVE  OnDisk'
    <3>1. IsLog(text) /\ Lines(text) \subseteq Lines(log[w]) \cup {Torn}
      BY <2>2, <2>4, CutLines
    <3>2. \A r \in Lines(text) : r = Torn \/ Sound(r, drafts, archives)
      BY <2>2, <2>4, <3>1
    <3>. QED
      BY <1>1, <2>4, <3>1, <3>2, LeavesOnDisk
  <2>. QED
    BY <1>1, <2>1, <2>3, <2>4
<1>3. archives \subseteq archives'
  BY <1>1
<1>. QED
  BY <1>1, <1>2, <1>3, MoveFile

LEMMA RecordFile ==
  ASSUME FileInv, NEW w \in Writers, Record(w)
  PROVE  FileInv'
<1>1. CASE Lock(w) \/ RefuseDamaged(w) \/ RefuseRotate(w) \/ WriteArchiveFails(w)
  <2>1. /\ UNCHANGED <<file, log, drafts>> /\ archives \subseteq archives'
        /\ pc' = [pc EXCEPT ![w] = "read"] \/ pc' = [pc EXCEPT ![w] = "failed"]
    BY <1>1 DEF Lock, RefuseDamaged, RefuseRotate, WriteArchiveFails
  <2>2. OnDisk'
    BY <2>1, DiskStays DEF FileInv
  <2>. QED
    BY <2>1, <2>2, MoveFile
<1>. QED
  BY <1>1, ReadFile, SealFile, ArchiveFile, OpenFile, WriteFile DEF Record

LEMMA FileStep == FileInv /\ [Next]_vars => FileInv'
<1>. SUFFICES ASSUME FileInv, [Next]_vars PROVE FileInv'
  OBVIOUS
<1>1. CASE UNCHANGED fileVars
  <2>1. UNCHANGED <<file, archives, pc, log, drafts>>
    BY <1>1 DEF fileVars
  <2>. QED
    BY <2>1 DEF FileInv, Tables, OnDisk, Pending
<1>2. UNCHANGED vars => UNCHANGED fileVars
  BY DEF vars
<1>. QED
  BY <1>1, <1>2, RecordFile DEF Next

LEMMA FileAlways == Spec => []FileInv
<1>1. Init => FileInv
  BY InitFile DEF Init
<1>. QED
  BY <1>1, FileStep, PTL DEF Spec

\* Two logs that agree at a place and at the one before it.
LEMMA SamePair ==
  ASSUME NEW s, IsLog(s), NEW t, IsLog(t), NEW i \in 2..Len(s), i \in 2..Len(t),
         s[i] = t[i], s[i - 1] = t[i - 1]
  PROVE  SubSeq(s, i - 1, i) = SubSeq(t, i - 1, i)
<1>. DEFINE S == Lines(s) \cup Lines(t)
<1>1. s \in Seq(S) /\ t \in Seq(S)
  <2>1. s \in Seq(Lines(s)) /\ t \in Seq(Lines(t))
    BY DEF IsLog
  <2>. QED
    BY <2>1
<1>. HIDE DEF S
<1>. DEFINE u == SubSeq(s, i - 1, i)
            v == SubSeq(t, i - 1, i)
<1>2. u \in Seq(S) /\ Len(u) = 2 /\ u[1] = s[i - 1] /\ u[2] = s[i]
  BY <1>1
<1>3. v \in Seq(S) /\ Len(v) = 2 /\ v[1] = t[i - 1] /\ v[2] = t[i]
  BY <1>1
<1>. HIDE DEF u, v
<1>4. u = v
  BY <1>2, <1>3
<1>. QED
  BY <1>4 DEF u, v

LEMMA SameFirst ==
  ASSUME NEW s, IsLog(s), NEW t, IsLog(t), Len(s) >= 1, Len(t) >= 1, s[1] = t[1]
  PROVE  SubSeq(s, 1, 1) = SubSeq(t, 1, 1)
<1>. DEFINE S == Lines(s) \cup Lines(t)
<1>1. s \in Seq(S) /\ t \in Seq(S)
  <2>1. s \in Seq(Lines(s)) /\ t \in Seq(Lines(t))
    BY DEF IsLog
  <2>. QED
    BY <2>1
<1>. HIDE DEF S
<1>. DEFINE u == SubSeq(s, 1, 1)
            v == SubSeq(t, 1, 1)
<1>2. u \in Seq(S) /\ Len(u) = 1 /\ u[1] = s[1]
  BY <1>1
<1>3. v \in Seq(S) /\ Len(v) = 1 /\ v[1] = t[1]
  BY <1>1
<1>. HIDE DEF u, v
<1>4. u = v
  BY <1>2, <1>3
<1>. QED
  BY <1>4 DEF u, v

LEMMA HeadOfPrefix ==
  ASSUME NEW s, IsLog(s), NEW i \in 2..Len(s)
  PROVE  LogHead(SubSeq(s, 1, i - 1)) = s[i - 1].hash
<1>1. s \in Seq(Lines(s)) /\ Len(s) \in Nat
  BY LogFacts DEF IsLog
<1>. DEFINE u == SubSeq(s, 1, i - 1)
<1>2. Len(u) = i - 1
  BY <1>1
<1>3. u[i - 1] = s[i - 1]
  BY <1>1
<1>4. u # <<>>
  BY <1>2
<1>. HIDE DEF u
<1>5. LogHead(u) = s[i - 1].hash
  BY <1>2, <1>3, <1>4 DEF LogHead
<1>. QED
  BY <1>5 DEF u

LEMMA HashTells ==
  ASSUME NEW r, NEW x, Hashed(r), Hashed(x), r.hash = x.hash
  PROVE  r = x
<1>1. r.hash = <<r.seq, r.prev, r.event>> /\ x.hash = <<x.seq, x.prev, x.event>>
  BY DEF Hashed, ChainHash
<1>2. \A a, b, c, d, e, f : <<a, b, c>> = <<d, e, f>> => a = d /\ b = e /\ c = f
  OBVIOUS
<1>3. <<r.seq, r.prev, r.event>> = <<x.seq, x.prev, x.event>>
  BY <1>1, Zenon
<1>4. r.seq = x.seq /\ r.prev = x.prev /\ r.event = x.event
  BY <1>2, <1>3, Zenon
<1>. QED
  BY <1>4, Zenon DEF Hashed

\* The hash decides: the line before is the one its draft had there.
LEMMA SoundMixture == FileInv => MixtureDetected
<1>. SUFFICES ASSUME FileInv, Parses(file), Verifies(file), NEW i \in DOMAIN file
              PROVE  \E d \in drafts :
                       i <= Len(d) /\ SubSeq(d, IF i = 1 THEN 1 ELSE i - 1, i)
                                        = SubSeq(file, IF i = 1 THEN 1 ELSE i - 1, i)
  BY DEF MixtureDetected
<1>1. IsLog(file) /\ Len(file) \in Nat /\ DOMAIN file = 1..Len(file)
  BY LogFacts DEF FileInv, OnDisk
<1>2. \A j \in DOMAIN file : Known(file[j], drafts)
  BY DEF FileInv, OnDisk, Parses, Lines, Sound
<1>3. file[i].seq = i - 1 /\ file[i].prev = LogHead(SubSeq(file, 1, i - 1))
  BY DEF Verifies
<1>4. PICK d \in drafts :
        /\ IsLog(d) /\ \A x \in Lines(d) : Hashed(x)
        /\ Len(d) = file[i].seq + 1 /\ d[Len(d)] = file[i]
        /\ file[i].prev = LogHead(SubSeq(d, 1, Len(d) - 1))
  BY <1>2 DEF Known
<1>5. Len(d) = i /\ d[i] = file[i] /\ i \in 1..Len(file)
  BY <1>1, <1>3, <1>4
<1>6. CASE i = 1
  <2>1. SubSeq(d, 1, 1) = SubSeq(file, 1, 1)
    BY <1>1, <1>4, <1>5, <1>6, SameFirst
  <2>. QED
    BY <1>5, <1>6, <2>1
<1>7. CASE i # 1
  <2>1. i \in 2..Len(file) /\ i \in 2..Len(d) /\ i - 1 \in DOMAIN file
    BY <1>1, <1>5, <1>7
  <2>2. d[i - 1].hash = file[i - 1].hash
    BY <1>1, <1>3, <1>4, <1>5, <2>1, HeadOfPrefix
  <2>3. Hashed(file[i - 1]) /\ Hashed(d[i - 1])
    <3>1. i - 1 \in 1..Len(d)
      BY <2>1
    <3>. QED
      BY <1>2, <1>4, <2>1, <3>1, LogFacts DEF Known
  <2>4. d[i - 1] = file[i - 1]
    BY <2>2, <2>3, HashTells
  <2>. QED
    <3>1. SubSeq(d, i - 1, i) = SubSeq(file, i - 1, i)
      BY <1>1, <1>4, <1>5, <2>1, <2>4, SamePair
    <3>2. i <= Len(d)
      BY <1>1, <1>5
    <3>3. (IF i = 1 THEN 1 ELSE i - 1) = i - 1
      BY <1>7
    <3>. QED
      BY <3>1, <3>2, <3>3, Zenon
<1>. QED
  BY <1>6, <1>7

\* In a file that parses and verifies every record stands where some writer put
\* it, after the record that writer put it after, whatever the writers did to one
\* another and wherever a write was cut short (ql-audit/src/lib.rs:190-213).
THEOREM DetectsMixture == Spec => []MixtureDetected
BY FileAlways, SoundMixture, PTL

\* A log that continues from an archive is never on disk without that archive,
\* sealed and complete (audit.rs, rotate).
THEOREM ArchivesFirst == Spec => []ArchiveBeforeContinue
<1>1. FileInv => ArchiveBeforeContinue
  <2>1. Torn.event.kind # "continue"
    BY DEF Torn, Event
  <2>. QED
    BY <2>1 DEF FileInv, OnDisk, ArchiveBeforeContinue, Lines, Sound, Anchored
<1>. QED
  BY <1>1, FileAlways, PTL

-----------------------------------------------------------------------------
(* The sink threads by themselves: the mutex makes their appends follow   *)
(* one another.                                                            *)

Decision(w) == Event(w, "decision", Genesis)

Acks(q) == [i \in DOMAIN q |-> Decision(q[i])]

Alone == \A w \in Writers :
  pc[w] \in IF w \in Sinks THEN {"idle", "read", "open", "write", "done"} ELSE {"idle"}

Holding == \A w \in Sinks : pc[w] \in {"read", "open", "write"} => holder = w

Complete(s, q) == Verifies(s) /\ Events(s) = Acks(q)

Chained ==
  /\ (\A w \in Sinks : pc[w] # "write") => Complete(file, acked)
  /\ \A w \in Sinks : pc[w] = "open" => log[w] = Extend(file, Decision(w))
  /\ \A w \in Sinks : pc[w] = "write" =>
       file = <<>> /\ Complete(log[w], Append(acked, w))

SinkInv == acked \in Seq(Writers) /\ Holding /\ (Alone => Chained)

LEMMA ExtendComplete ==
  ASSUME NEW s, IsLog(s), NEW q \in Seq(Writers), Complete(s, q), NEW w \in Writers
  PROVE  Complete(Extend(s, Decision(w)), Append(q, w))
<1>. DEFINE e == Decision(w)
            t == Extend(s, e)
            p == Append(q, w)
            r == [seq |-> Len(s), event |-> e, prev |-> LogHead(s),
                  hash |-> ChainHash(Len(s), LogHead(s), e)]
<1>. HIDE DEF e
<1>1. Verifies(t)
  BY ExtendVerifies DEF Complete
<1>2. /\ DOMAIN s = 1..Len(s) /\ Len(s) \in Nat
      /\ DOMAIN q = 1..Len(q) /\ Len(q) \in Nat
  BY LogFacts
<1>3. DOMAIN s = DOMAIN q
  <2>1. DOMAIN Events(s) = DOMAIN s /\ DOMAIN Acks(q) = DOMAIN q
    BY DEF Events, Acks
  <2>. QED
    BY <2>1 DEF Complete
<1>4. Len(s) = Len(q)
  <2>1. \A m, n \in Nat : 1..m = 1..n => m = n
    <3>. SUFFICES ASSUME NEW m \in Nat, NEW n \in Nat, 1..m = 1..n, m < n PROVE FALSE
      OBVIOUS
    <3>1. n \in 1..n /\ n \notin 1..m
      OBVIOUS
    <3>. QED
      BY <3>1
  <2>. QED
    BY <1>2, <1>3, <2>1
<1>5. /\ DOMAIN p = 1..(Len(q) + 1) /\ p[Len(q) + 1] = w
      /\ \A i \in 1..Len(q) : p[i] = q[i]
  BY <1>2
<1>6. /\ DOMAIN t = 1..(Len(s) + 1) /\ t[Len(s) + 1] = r
      /\ \A i \in 1..Len(s) : t[i] = s[i]
  BY ExtendLog, Zenon
<1>7. r.event = e
  BY Zenon
<1>8. \A i \in DOMAIN s : s[i].event = Decision(q[i])
  <2>1. \A i \in DOMAIN s : Events(s)[i] = s[i].event
    BY DEF Events
  <2>2. \A i \in DOMAIN q : Acks(q)[i] = Decision(q[i])
    BY DEF Acks
  <2>. QED
    BY <1>3, <2>1, <2>2 DEF Complete
<1>. HIDE DEF t, p, r
<1>9. DOMAIN t = DOMAIN p
  BY <1>4, <1>5, <1>6
<1>10. ASSUME NEW i \in DOMAIN t
       PROVE  t[i].event = Decision(p[i])
  <2>1. CASE i = Len(s) + 1
    BY <1>4, <1>5, <1>6, <1>7, <2>1 DEF e
  <2>2. CASE i \in 1..Len(s)
    BY <1>2, <1>4, <1>5, <1>6, <1>8, <2>2
  <2>. QED
    BY <1>2, <1>6, <2>1, <2>2
<1>11. Events(t) = Acks(p)
  BY <1>9, <1>10, Zenon DEF Events, Acks
<1>. QED
  BY <1>1, <1>11 DEF Complete, t, p, e

LEMMA InitSinks == Init => SinkInv
<1>. SUFFICES ASSUME Init PROVE SinkInv
  OBVIOUS
<1>1. file = <<>> /\ acked = <<>> /\ \A w \in Sinks : pc[w] = "idle"
  BY DEF Init, FileInit, Writers
<1>2. Complete(<<>>, <<>>)
  <2>1. Events(<<>>) = Acks(<<>>)
    BY DEF Events, Acks
  <2>. QED
    BY <2>1, EmptyVerifies DEF Complete
<1>3. acked \in Seq(Writers)
  BY <1>1
<1>. QED
  BY <1>1, <1>2, <1>3 DEF SinkInv, Holding, Chained

\* The places a writer of Alone steps to tell who it is and what it did.
LEMMA AloneBack ==
  ASSUME FileInv, NEW w \in Writers, Record(w), Alone'
  PROVE  /\ w \in Sinks /\ Alone
         /\ Lock(w) \/ ReadLog(w) \/ Open(w) \/ Write(w)
<1>1. ASSUME NEW p, pc' = [pc EXCEPT ![w] = p]
      PROVE  /\ pc'[w] = p
             /\ \A v \in Writers : v # w => pc'[v] = pc[v]
             /\ p \in IF w \in Sinks THEN {"idle", "read", "open", "write", "done"} ELSE {"idle"}
  <2>1. pc'[w] = p /\ \A v \in Writers : v # w => pc'[v] = pc[v]
    BY <1>1 DEF FileInv, Tables
  <2>. QED
    BY <2>1 DEF Alone
<1>2. ~(RefuseDamaged(w) \/ ReadSeal(w) \/ RefuseRotate(w) \/ WriteArchive(w)
          \/ WriteArchiveFails(w) \/ WriteFails(w))
  <2>1. ~RefuseDamaged(w) /\ ~RefuseRotate(w) /\ ~WriteArchiveFails(w) /\ ~WriteFails(w)
    <3>1. pc' # [pc EXCEPT ![w] = "failed"]
      BY <1>1
    <3>. QED
      BY <3>1 DEF RefuseDamaged, RefuseRotate, WriteArchiveFails, WriteFails
  <2>2. ~ReadSeal(w)
    <3>1. pc' # [pc EXCEPT ![w] = "archive"]
      BY <1>1
    <3>. QED
      BY <3>1 DEF ReadSeal
  <2>3. ~WriteArchive(w)
    <3>. SUFFICES ASSUME WriteArchive(w) PROVE FALSE
      OBVIOUS
    <3>1. pc[w] = "archive" /\ pc' = [pc EXCEPT ![w] = "open"]
      BY DEF WriteArchive
    <3>2. w \in Sinks
      BY <1>1, <3>1
    <3>3. w \in Rotators
      BY <3>1 DEF FileInv, Pending
    <3>. QED
      BY <3>2, <3>3, WriterAssumption
  <2>. QED
    BY <2>1, <2>2, <2>3
<1>3. Lock(w) \/ ReadLog(w) \/ Open(w) \/ Write(w)
  BY <1>2 DEF Record
<1>4. \E p \in {"read", "open", "write", "done"} : pc' = [pc EXCEPT ![w] = p]
  BY <1>3 DEF Lock, ReadLog, Open, Write
<1>5. w \in Sinks
  BY <1>1, <1>4
<1>6. pc[w] \in {"idle", "read", "open", "write"}
  BY <1>3, <1>5 DEF Lock, ReadLog, Ready, Open, Write
<1>7. Alone
  BY <1>1, <1>4, <1>5, <1>6 DEF Alone
<1>. QED
  BY <1>3, <1>5, <1>7

LEMMA AckedStep ==
  ASSUME acked \in Seq(Writers), NEW w \in Writers, Record(w)
  PROVE  acked' \in Seq(Writers)
BY DEF Record, Lock, ReadLog, RefuseDamaged, ReadSeal, RefuseRotate, WriteArchive,
       WriteArchiveFails, Open, Write, WriteFails

LEMMA HoldingStep ==
  ASSUME FileInv, Holding, NEW w \in Writers, Record(w)
  PROVE  Holding'
<1>1. ASSUME NEW p, pc' = [pc EXCEPT ![w] = p]
      PROVE  pc'[w] = p /\ \A v \in Writers : v # w => pc'[v] = pc[v]
  BY <1>1 DEF FileInv, Tables
<1>2. Sinks \subseteq Writers /\ Nobody \notin Sinks
  BY WriterAssumption DEF Writers
<1>3. CASE Lock(w)
  <2>1. /\ pc' = [pc EXCEPT ![w] = "read"] /\ holder = Nobody /\ holder' = w
    BY <1>3 DEF Lock
  <2>2. \A v \in Sinks : v # w => pc'[v] \notin {"read", "open", "write"}
    BY <1>1, <1>2, <2>1 DEF Holding
  <2>. QED
    BY <2>1, <2>2 DEF Holding
<1>4. CASE ReadLog(w) \/ Open(w)
  <2>1. /\ \E p \in {"open", "write"} : pc' = [pc EXCEPT ![w] = p]
        /\ holder' = holder /\ (w \in Sinks => pc[w] \in {"read", "open"})
    BY <1>4 DEF ReadLog, Ready, Open
  <2>. QED
    BY <1>1, <1>2, <2>1 DEF Holding
<1>5. CASE ReadSeal(w) \/ WriteArchive(w)
  <2>1. /\ \E p \in {"archive", "open"} : pc' = [pc EXCEPT ![w] = p]
        /\ holder' = holder /\ w \in Rotators
    BY <1>5 DEF ReadSeal, WriteArchive, FileInv, Pending
  <2>2. w \notin Sinks
    BY <2>1, WriterAssumption
  <2>. QED
    BY <1>1, <1>2, <2>1, <2>2 DEF Holding
<1>6. CASE RefuseDamaged(w) \/ RefuseRotate(w) \/ WriteArchiveFails(w)
             \/ Write(w) \/ WriteFails(w)
  <2>1. /\ \E p \in {"failed", "done"} : pc' = [pc EXCEPT ![w] = p]
        /\ holder' = holder \/ holder' = Unlocked(w)
    BY <1>6 DEF RefuseDamaged, RefuseRotate, WriteArchiveFails, Write, WriteFails
  <2>. QED
    BY <1>1, <1>2, <2>1 DEF Holding, Unlocked
<1>. QED
  BY <1>3, <1>4, <1>5, <1>6 DEF Record

\* While one sink thread is past the lock, the others are not.
LEMMA OneInside ==
  ASSUME Holding, NEW w \in Sinks, pc[w] \in {"read", "open", "write"}
  PROVE  \A v \in Sinks : v # w => pc[v] \notin {"read", "open", "write"}
BY DEF Holding

LEMMA ChainedStep ==
  ASSUME FileInv, SinkInv, NEW w \in Writers, Record(w), Alone'
  PROVE  Chained'
<1>1. w \in Sinks /\ Chained /\ Holding /\ acked \in Seq(Writers)
  BY AloneBack DEF SinkInv
<1>2. ASSUME NEW p, pc' = [pc EXCEPT ![w] = p]
      PROVE  pc'[w] = p /\ \A v \in Sinks : v # w => pc'[v] = pc[v]
  BY <1>2 DEF FileInv, Tables, Writers
<1>3. CASE Lock(w)
  <2>1. /\ pc[w] = "idle" /\ pc' = [pc EXCEPT ![w] = "read"]
        /\ UNCHANGED <<file, log, acked>>
    BY <1>3 DEF Lock
  <2>2. pc'[w] = "read" /\ \A v \in Sinks : v # w => pc'[v] = pc[v]
    BY <1>2, <2>1
  <2>3. \A v \in Sinks : pc'[v] \in {"open", "write"} <=> pc[v] \in {"open", "write"}
    BY <2>1, <2>2
  <2>4. \A v \in Sinks : pc'[v] \in {"open", "write"} => pc'[v] = pc[v]
    BY <2>1, <2>2
  <2>5. (\A v \in Sinks : pc'[v] # "write") => (\A v \in Sinks : pc[v] # "write")
    BY <2>1, <2>2
  <2>. QED
    BY <1>1, <2>1, <2>4, <2>5 DEF Chained
<1>4. CASE ReadLog(w)
  <2>. DEFINE old == IF Parses(file) THEN file ELSE <<>>
  <2>1. /\ pc[w] = "read" /\ pc' = [pc EXCEPT ![w] = "open"]
        /\ log' = [log EXCEPT ![w] = Extend(old, Decision(w))]
        /\ UNCHANGED <<file, acked>>
    BY <1>1, <1>4 DEF ReadLog, Ready, Decision
  <2>2. \A v \in Sinks : v # w => pc[v] \notin {"read", "open", "write"}
    BY <1>1, <2>1, OneInside
  <2>3. Complete(file, acked)
    BY <1>1, <2>1, <2>2 DEF Chained
  <2>4. old = file
    BY <2>3, VerifiesParses DEF Complete
  <2>. HIDE DEF old
  <2>5. log'[w] = Extend(file, Decision(w))
    BY <2>1, <2>4 DEF FileInv, Tables
  <2>6. pc'[w] = "open" /\ \A v \in Sinks : v # w => pc'[v] = pc[v]
    BY <1>2, <2>1
  <2>. QED
    BY <2>1, <2>2, <2>3, <2>5, <2>6 DEF Chained
<1>5. CASE Open(w)
  <2>1. /\ pc[w] = "open" /\ pc' = [pc EXCEPT ![w] = "write"]
        /\ file' = <<>> /\ UNCHANGED <<log, acked>>
    BY <1>5 DEF Open
  <2>2. \A v \in Sinks : v # w => pc[v] \notin {"read", "open", "write"}
    BY <1>1, <2>1, OneInside
  <2>3. Complete(file, acked) /\ log[w] = Extend(file, Decision(w))
    BY <1>1, <2>1, <2>2 DEF Chained
  <2>4. Complete(log[w], Append(acked, w))
    BY <1>1, <2>3, ExtendComplete DEF FileInv, OnDisk
  <2>5. pc'[w] = "write" /\ \A v \in Sinks : v # w => pc'[v] = pc[v]
    BY <1>2, <2>1
  <2>. QED
    BY <1>1, <2>1, <2>2, <2>4, <2>5 DEF Chained
<1>6. CASE Write(w)
  <2>1. /\ pc[w] = "write" /\ pc' = [pc EXCEPT ![w] = "done"]
        /\ file' \in Overlaid(file, log[w]) /\ acked' = Append(acked, w)
    BY <1>6 DEF Write
  <2>2. \A v \in Sinks : v # w => pc[v] \notin {"read", "open", "write"}
    BY <1>1, <2>1, OneInside
  <2>3. file = <<>> /\ Complete(log[w], Append(acked, w))
    BY <1>1, <2>1 DEF Chained
  <2>4. Complete(file', acked')
    BY <2>1, <2>3 DEF Overlaid
  <2>5. pc'[w] = "done" /\ \A v \in Sinks : v # w => pc'[v] = pc[v]
    BY <1>2, <2>1
  <2>. QED
    BY <2>2, <2>4, <2>5 DEF Chained
<1>. QED
  BY <1>3, <1>4, <1>5, <1>6, AloneBack

LEMMA SinksStep == FileInv /\ SinkInv /\ [Next]_vars => SinkInv'
<1>. SUFFICES ASSUME FileInv, SinkInv, [Next]_vars PROVE SinkInv'
  OBVIOUS
<1>1. CASE UNCHANGED fileVars
  <2>1. UNCHANGED <<file, holder, pc, log, acked>>
    BY <1>1 DEF fileVars
  <2>. QED
    BY <2>1 DEF SinkInv, Holding, Alone, Chained
<1>2. UNCHANGED vars => UNCHANGED fileVars
  BY DEF vars
<1>3. ASSUME NEW w \in Writers, Record(w)
      PROVE  SinkInv'
  BY <1>3, AckedStep, HoldingStep, ChainedStep DEF SinkInv
<1>. QED
  BY <1>1, <1>2, <1>3 DEF Next

\* What the sink threads of one broker record, with nobody else writing and no
\* write failing, ends up in one chain that verifies, once each and in the order
\* in which the records returned (policy.rs:90-92).
THEOREM SinksLoseNothing == Spec => []SinkLossless
<1>1. Init => SinkInv
  BY InitSinks
<1>2. SinkInv => SinkLossless
  <2>. SUFFICES ASSUME SinkInv, Settled,
                       \A w \in Writers : pc[w] \in IF w \in Sinks
                         THEN {"idle", "read", "open", "done"} ELSE {"idle"}
                PROVE  Complete(file, acked)
    BY DEF SinkLossless, Complete, Acks, Decision
  <2>1. Alone
    BY DEF Alone
  <2>2. \A w \in Sinks : pc[w] # "write"
    BY DEF Settled, Writers
  <2>. QED
    BY <2>1, <2>2 DEF SinkInv, Chained
<1>. QED
  BY <1>1, <1>2, FileAlways, SinksStep, PTL DEF Spec

-----------------------------------------------------------------------------
(* Exports: what lies in the bundle are sound lines and torn ones, and    *)
(* while the turn is one exporter's, what it has written is all there is. *)

Linked(s) ==
  \A i \in DOMAIN s :
    /\ s[i].hash = ChainHash(s[i].seq, s[i].prev, s[i].event)
    /\ i > 1 => s[i].prev = s[i - 1].hash

Selected(x) ==
  stage[x] \in {"open", "records", "manifest", "head", "done"} =>
    /\ IsLog(window[x]) /\ window[x] # <<>> /\ Linked(window[x])
    /\ \A r \in Lines(window[x]) : Known(r, drafts)

Undisturbed(x) ==
  /\ stage[x] = "records" => records = <<>>
  /\ stage[x] \in {"manifest", "head", "done"} => records = window[x]
  /\ stage[x] = "head" => manifest = TornManifest
  /\ stage[x] = "done" => manifest = LogHead(window[x])

InBundle == IsLog(records) /\ \A r \in Lines(records) : r = Torn \/ Known(r, drafts)

ExportTables ==
  /\ stage = [x \in Exporters |-> stage[x]] /\ window = [x \in Exporters |-> window[x]]
  /\ turn \in Exporters \cup {Nobody}

ExportInv ==
  /\ ExportTables /\ InBundle
  /\ \A x \in Exporters : Selected(x)
  /\ turn # Nobody => Undisturbed(turn)

LEMMA InitExport == Init => ExportInv
<1>. SUFFICES ASSUME Init PROVE ExportInv
  OBVIOUS
<1>1. /\ records = <<>> /\ turn = Nobody /\ \A x \in Exporters : stage[x] = "idle"
      /\ ExportTables
  BY DEF Init, ExportTables
<1>2. InBundle
  BY <1>1, EmptyLog, Zenon DEF InBundle
<1>. QED
  BY <1>1, <1>2 DEF ExportInv, Selected

\* The writers of the log only add drafts.
LEMMA DraftsGrow ==
  ASSUME NEW w \in Writers, Record(w)
  PROVE  drafts \subseteq drafts'
BY DEF Record, Lock, ReadLog, RefuseDamaged, ReadSeal, RefuseRotate, WriteArchive,
       WriteArchiveFails, Open, Write, WriteFails

LEMMA LogGoesOn ==
  ASSUME ExportInv, UNCHANGED exportVars, drafts \subseteq drafts'
  PROVE  ExportInv'
<1>1. \A r : Known(r, drafts) => Known(r, drafts')
  BY Zenon DEF Known
<1>2. UNCHANGED <<stage, window, records, manifest, turn>>
  BY DEF exportVars
<1>3. InBundle'
  BY <1>1, <1>2 DEF ExportInv, InBundle
<1>4. ASSUME NEW x \in Exporters
      PROVE  Selected(x)'
  BY <1>1, <1>2 DEF ExportInv, Selected
<1>5. ExportTables' /\ (turn' # Nobody => Undisturbed(turn)')
  BY <1>2 DEF ExportInv, ExportTables, Undisturbed
<1>. QED
  BY <1>3, <1>4, <1>5 DEF ExportInv

\* A step that selects no window: the windows, and what is known of them, stay.
LEMMA SelectedStays ==
  ASSUME ExportInv, NEW x \in Exporters, NEW p, stage' = [stage EXCEPT ![x] = p],
         stage[x] \in {"open", "records", "manifest", "head", "done"} \/ p = "failed",
         UNCHANGED <<window, drafts>>
  PROVE  /\ stage'[x] = p /\ \A y \in Exporters : y # x => stage'[y] = stage[y]
         /\ stage' = [y \in Exporters |-> stage'[y]]
         /\ window' = [y \in Exporters |-> window'[y]]
         /\ \A y \in Exporters : Selected(y)'
<1>1. /\ stage'[x] = p /\ \A y \in Exporters : y # x => stage'[y] = stage[y]
      /\ stage' = [y \in Exporters |-> stage'[y]]
      /\ window' = [y \in Exporters |-> window'[y]]
  BY DEF ExportInv, ExportTables
<1>2. ASSUME NEW y \in Exporters
      PROVE  Selected(y)'
  <2>1. Selected(y)
    BY DEF ExportInv
  <2>. QED
    BY <1>1, <2>1 DEF Selected
<1>. QED
  BY <1>1, <1>2

\* A window of a log that verifies is linked, and its lines are known.
LEMMA WindowLinked ==
  ASSUME FileInv, Parses(file), Verifies(file),
         NEW lo \in DOMAIN file, NEW hi \in lo..Len(file)
  PROVE  LET t == SubSeq(file, lo, hi) IN
           IsLog(t) /\ t # <<>> /\ Linked(t) /\ \A r \in Lines(t) : Known(r, drafts)
<1>. DEFINE t == SubSeq(file, lo, hi)
<1>1. IsLog(file) /\ Len(file) \in Nat /\ DOMAIN file = 1..Len(file)
  BY LogFacts DEF FileInv, OnDisk
<1>2. /\ lo \in 1..Len(file) /\ hi \in 1..Len(file) /\ lo <= hi
      /\ lo \in 1..(Len(file) + 1) /\ hi \in 0..Len(file)
  BY <1>1
<1>3. IsLog(t) /\ Lines(t) \subseteq Lines(file)
  BY <1>1, <1>2, SubSeqLog, Zenon
<1>4. file \in Seq(Lines(file))
  BY <1>1 DEF IsLog
<1>5. DOMAIN t = 1..(hi - lo + 1) /\ Len(t) = hi - lo + 1
  BY <1>2, <1>4
<1>6. \A i \in 1..(hi - lo + 1) : t[i] = file[lo + i - 1]
  BY <1>2, <1>4
<1>. HIDE DEF t
<1>7. t # <<>>
  BY <1>2, <1>5
<1>8. \A r \in Lines(t) : Known(r, drafts)
  BY <1>3 DEF FileInv, OnDisk, Parses, Lines, Sound
<1>9. ASSUME NEW i \in DOMAIN t
      PROVE  /\ t[i].hash = ChainHash(t[i].seq, t[i].prev, t[i].event)
             /\ i > 1 => t[i].prev = t[i - 1].hash
  <2>. DEFINE j == lo + i - 1
  <2>1. j \in 1..Len(file) /\ t[i] = file[j] /\ i \in 1..(hi - lo + 1)
    BY <1>1, <1>2, <1>5, <1>6
  <2>2. i > 1 => i - 1 \in 1..(hi - lo + 1) /\ t[i - 1] = file[j - 1] /\ j \in 2..Len(file)
    <3>. SUFFICES ASSUME i > 1
                  PROVE  /\ i - 1 \in 1..(hi - lo + 1) /\ t[i - 1] = file[j - 1]
                         /\ j \in 2..Len(file)
      OBVIOUS
    <3>1. i - 1 \in 1..(hi - lo + 1) /\ j \in 2..Len(file)
      BY <1>1, <1>2, <2>1
    <3>2. t[i - 1] = file[lo + (i - 1) - 1]
      BY <1>6, <3>1
    <3>3. lo + (i - 1) - 1 = j - 1
      BY <1>1, <1>2, <2>1
    <3>. QED
      BY <3>1, <3>2, <3>3
  <2>. HIDE DEF j
  <2>3. /\ file[j].hash = ChainHash(file[j].seq, file[j].prev, file[j].event)
        /\ file[j].prev = LogHead(SubSeq(file, 1, j - 1))
    BY <1>1, <2>1 DEF Verifies
  <2>4. i > 1 => file[j].prev = file[j - 1].hash
    BY <1>1, <2>2, <2>3, HeadOfPrefix
  <2>. QED
    BY <2>1, <2>2, <2>3, <2>4
<1>10. Linked(t)
  BY <1>9 DEF Linked
<1>. QED
  BY <1>3, <1>7, <1>8, <1>10 DEF t

LEMMA ReadWindowStep ==
  ASSUME FileInv, ExportInv, NEW x \in Exporters, ReadWindow(x), UNCHANGED fileVars
  PROVE  ExportInv'
<1>1. /\ stage[x] = "idle" /\ stage' = [stage EXCEPT ![x] = "open"]
      /\ Parses(file) /\ Verifies(file) /\ drafts' = drafts
      /\ records' = records /\ manifest' = manifest /\ turn' = turn
  BY DEF ReadWindow, bundle, fileVars
<1>2. PICK lo \in DOMAIN file : \E hi \in lo..Len(file) :
        window' = [window EXCEPT ![x] = SubSeq(file, lo, hi)]
  BY DEF ReadWindow
<1>3. PICK hi \in lo..Len(file) : window' = [window EXCEPT ![x] = SubSeq(file, lo, hi)]
  BY <1>2
<1>. DEFINE t == SubSeq(file, lo, hi)
<1>4. IsLog(t) /\ t # <<>> /\ Linked(t) /\ \A r \in Lines(t) : Known(r, drafts)
  BY <1>1, WindowLinked, Zenon
<1>5. window' = [window EXCEPT ![x] = t]
  BY <1>3
<1>. HIDE DEF t
<1>6. /\ stage'[x] = "open" /\ window'[x] = t
      /\ \A y \in Exporters : y # x => stage'[y] = stage[y] /\ window'[y] = window[y]
      /\ ExportTables'
  BY <1>1, <1>5 DEF ExportInv, ExportTables
<1>7. ASSUME NEW y \in Exporters
      PROVE  Selected(y)'
  <2>1. CASE y = x
    BY <1>1, <1>4, <1>6, <2>1 DEF Selected
  <2>2. CASE y # x
    BY <1>1, <1>6, <2>2 DEF Selected, ExportInv
  <2>. QED
    BY <2>1, <2>2
<1>8. turn' # Nobody => Undisturbed(turn)'
  BY <1>1, <1>6 DEF ExportInv, ExportTables, Undisturbed
<1>9. InBundle'
  BY <1>1 DEF ExportInv, InBundle
<1>. QED
  BY <1>6, <1>7, <1>8, <1>9 DEF ExportInv

\* What another exporter does takes the turn from the one that had it.
LEMMA TurnTaken ==
  ASSUME ExportInv, NEW x \in Exporters, turn' = Turn(x)
  PROVE  /\ turn' \in Exporters \cup {Nobody}
         /\ turn' # Nobody => turn' = x /\ turn = x /\ Undisturbed(x)
BY DEF ExportInv, ExportTables, Turn

LEMMA OpenRecordsStep ==
  ASSUME ExportInv, NEW x \in Exporters, OpenRecords(x), UNCHANGED fileVars
  PROVE  ExportInv'
<1>1. /\ stage[x] = "open" /\ stage' = [stage EXCEPT ![x] = "records"]
      /\ records' = <<>> /\ turn' = x
      /\ UNCHANGED <<window, manifest, drafts>>
  BY DEF OpenRecords, fileVars
<1>2. /\ stage'[x] = "records" /\ \A y \in Exporters : Selected(y)'
      /\ stage' = [y \in Exporters |-> stage'[y]]
      /\ window' = [y \in Exporters |-> window'[y]]
  BY <1>1, SelectedStays
<1>3. InBundle'
  BY <1>1, EmptyLog, Zenon DEF InBundle
<1>4. Undisturbed(x)'
  BY <1>1, <1>2 DEF Undisturbed
<1>. QED
  BY <1>1, <1>2, <1>3, <1>4 DEF ExportInv, ExportTables

\* Whatever an exporter leaves in records.jsonl are sound lines and torn ones.
LEMMA LeavesInBundle ==
  ASSUME ExportInv, NEW text, IsLog(text),
         \A r \in Lines(text) : r = Torn \/ Known(r, drafts),
         records' \in Overlaid(records, text), UNCHANGED drafts
  PROVE  InBundle'
<1>1. InBundle
  BY DEF ExportInv
<1>2. IsLog(records') /\ Lines(records') \subseteq Lines(records) \cup Lines(text) \cup {Torn}
  BY <1>1, OverlaidLines DEF InBundle
<1>. QED
  BY <1>1, <1>2 DEF InBundle

LEMMA WriteRecordsStep ==
  ASSUME ExportInv, NEW x \in Exporters, WriteRecords(x), UNCHANGED fileVars
  PROVE  ExportInv'
<1>1. /\ stage[x] = "records" /\ stage' = [stage EXCEPT ![x] = "manifest"]
      /\ records' \in Overlaid(records, window[x]) /\ turn' = Turn(x)
      /\ UNCHANGED <<window, manifest, drafts>>
  BY DEF WriteRecords, fileVars
<1>2. /\ stage'[x] = "manifest" /\ \A y \in Exporters : Selected(y)'
      /\ stage' = [y \in Exporters |-> stage'[y]]
      /\ window' = [y \in Exporters |-> window'[y]]
  BY <1>1, SelectedStays
<1>3. InBundle'
  <2>1. Selected(x)
    BY DEF ExportInv
  <2>. QED
    BY <1>1, <2>1, LeavesInBundle DEF Selected
<1>4. turn' # Nobody => turn' = x /\ Undisturbed(x)'
  <2>1. turn' # Nobody => turn' = x /\ records = <<>>
    BY <1>1, TurnTaken DEF Undisturbed
  <2>2. turn' # Nobody => records' = window[x]
    BY <1>1, <2>1 DEF Overlaid
  <2>. QED
    BY <1>1, <1>2, <2>1, <2>2 DEF Undisturbed
<1>5. turn' \in Exporters \cup {Nobody}
  BY <1>1, TurnTaken
<1>. QED
  BY <1>2, <1>3, <1>4, <1>5 DEF ExportInv, ExportTables

LEMMA ManifestStep ==
  ASSUME ExportInv, NEW x \in Exporters, OpenManifest(x) \/ WriteManifest(x),
         UNCHANGED fileVars
  PROVE  ExportInv'
<1>1. /\ \/ /\ stage[x] = "manifest" /\ stage' = [stage EXCEPT ![x] = "head"]
            /\ manifest' = TornManifest
         \/ /\ stage[x] = "head" /\ stage' = [stage EXCEPT ![x] = "done"]
            /\ manifest' = LogHead(window[x]) \/ manifest # TornManifest
      /\ turn' = Turn(x)
      /\ UNCHANGED <<window, records, drafts>>
  BY DEF OpenManifest, WriteManifest, fileVars
<1>2. PICK p \in {"head", "done"} : stage' = [stage EXCEPT ![x] = p]
  BY <1>1
<1>3. /\ stage'[x] = p /\ \A y \in Exporters : Selected(y)'
      /\ stage' = [y \in Exporters |-> stage'[y]]
      /\ window' = [y \in Exporters |-> window'[y]]
  BY <1>1, <1>2, SelectedStays
<1>4. InBundle'
  BY <1>1 DEF ExportInv, InBundle
<1>5. turn' # Nobody => turn' = x /\ Undisturbed(x)'
  <2>1. turn' # Nobody => turn' = x /\ Undisturbed(x)
    BY <1>1, TurnTaken
  <2>2. \/ stage[x] = "manifest" /\ stage'[x] = "head" /\ manifest' = TornManifest
        \/ /\ stage[x] = "head" /\ stage'[x] = "done"
           /\ manifest' = LogHead(window[x]) \/ manifest # TornManifest
    BY <1>1 DEF ExportInv, ExportTables
  <2>. QED
    BY <1>1, <2>1, <2>2 DEF Undisturbed
<1>6. turn' \in Exporters \cup {Nobody}
  BY <1>1, TurnTaken
<1>. QED
  BY <1>3, <1>4, <1>5, <1>6 DEF ExportInv, ExportTables

LEMMA FailsStep ==
  ASSUME ExportInv, NEW x \in Exporters, RefuseExport(x) \/ ExportFails(x),
         UNCHANGED fileVars
  PROVE  ExportInv'
<1>1. /\ stage' = [stage EXCEPT ![x] = "failed"]
      /\ UNCHANGED <<window, manifest, drafts>>
      /\ \/ records' = records /\ turn' = turn
         \/ /\ stage[x] = "records" /\ turn' \in {turn, Turn(x)}
            /\ records' = records \/ turn' = Turn(x)
            /\ \E text \in CutShort(window[x]) : records' \in Overlaid(records, text)
  BY DEF RefuseExport, ExportFails, bundle, fileVars
<1>2. /\ stage'[x] = "failed" /\ \A y \in Exporters : y # x => stage'[y] = stage[y]
      /\ stage' = [y \in Exporters |-> stage'[y]]
      /\ window' = [y \in Exporters |-> window'[y]]
      /\ \A y \in Exporters : Selected(y)'
  BY <1>1, SelectedStays
<1>3. InBundle'
  <2>1. CASE records' = records
    BY <1>1, <2>1 DEF ExportInv, InBundle
  <2>2. ASSUME stage[x] = "records", NEW text \in CutShort(window[x]),
               records' \in Overlaid(records, text)
        PROVE  InBundle'
    <3>1. Selected(x)
      BY DEF ExportInv
    <3>2. IsLog(text) /\ Lines(text) \subseteq Lines(window[x]) \cup {Torn}
      BY <2>2, <3>1, CutLines DEF Selected
    <3>3. \A r \in Lines(text) : r = Torn \/ Known(r, drafts)
      BY <2>2, <3>1, <3>2 DEF Selected
    <3>. QED
      BY <1>1, <2>2, <3>2, <3>3, LeavesInBundle
  <2>. QED
    BY <1>1, <2>1, <2>2
<1>4. Undisturbed(x)'
  BY <1>2 DEF Undisturbed
<1>5. turn' \in Exporters \cup {Nobody}
  BY <1>1 DEF ExportInv, ExportTables, Turn
<1>6. ASSUME turn' # Nobody, turn' # x
      PROVE  Undisturbed(turn)'
  <2>1. turn' = turn /\ records' = records /\ turn \in Exporters /\ Undisturbed(turn)
    BY <1>1, <1>6 DEF Turn, ExportInv, ExportTables
  <2>. QED
    BY <1>1, <1>2, <1>6, <2>1 DEF Undisturbed
<1>7. turn' = x => Undisturbed(turn)'
  BY <1>2 DEF Undisturbed
<1>. QED
  BY <1>2, <1>3, <1>5, <1>6, <1>7 DEF ExportInv, ExportTables

LEMMA ExportsStep == FileInv /\ ExportInv /\ [Next]_vars => ExportInv'
<1>. SUFFICES ASSUME FileInv, ExportInv, [Next]_vars PROVE ExportInv'
  OBVIOUS
<1>1. ASSUME NEW w \in Writers, Record(w), UNCHANGED <<cast, exportVars>>
      PROVE  ExportInv'
  BY <1>1, DraftsGrow, LogGoesOn
<1>2. ASSUME NEW x \in Exporters, ExportStep(x), UNCHANGED <<cast, fileVars>>
      PROVE  ExportInv'
  BY <1>2, ReadWindowStep, OpenRecordsStep, WriteRecordsStep, ManifestStep, FailsStep
     DEF ExportStep
<1>3. CASE UNCHANGED vars
  <2>1. UNCHANGED exportVars /\ drafts \subseteq drafts'
    BY <1>3 DEF vars, fileVars
  <2>. QED
    BY <2>1, LogGoesOn
<1>. QED
  BY <1>1, <1>2, <1>3 DEF Next

\* A known line follows, in its draft, the line whose hash it carries.
LEMMA KnownFollows ==
  ASSUME NEW D, NEW r, Known(r, D), NEW p, Hashed(p), r.prev = p.hash
  PROVE  \E d \in D : \E j \in DOMAIN d : j > 1 /\ d[j] = r /\ d[j - 1] = p
<1>1. PICK d \in D : /\ IsLog(d) /\ \A x \in Lines(d) : Hashed(x)
                     /\ Len(d) = r.seq + 1 /\ d[Len(d)] = r
                     /\ r.prev = LogHead(SubSeq(d, 1, Len(d) - 1))
  BY DEF Known
<1>2. Len(d) \in Nat /\ DOMAIN d = 1..Len(d)
  BY <1>1, LogFacts
<1>3. p.hash # <<>>
  <2>1. p.hash = <<p.seq, p.prev, p.event>>
    BY DEF Hashed, ChainHash
  <2>2. \A a, b, c : <<a, b, c>> # <<>>
    OBVIOUS
  <2>. QED
    BY <2>1, <2>2, Zenon
<1>4. ASSUME Len(d) < 2
      PROVE  FALSE
  <2>1. d \in Seq(Lines(d)) /\ Len(d) - 1 < 1
    BY <1>1, <1>2, <1>4 DEF IsLog
  <2>2. SubSeq(d, 1, Len(d) - 1) = <<>>
    BY <1>2, <2>1
  <2>3. LogHead(SubSeq(d, 1, Len(d) - 1)) = <<>>
    BY <2>2 DEF LogHead, Genesis
  <2>. QED
    BY <1>1, <1>3, <2>3
<1>5. Len(d) \in 2..Len(d)
  BY <1>2, <1>4
<1>6. d[Len(d) - 1].hash = p.hash
  BY <1>1, <1>5, HeadOfPrefix
<1>7. Hashed(d[Len(d) - 1])
  BY <1>1, <1>2, <1>5, LogFacts
<1>8. d[Len(d) - 1] = p
  BY <1>6, <1>7, HashTells
<1>. QED
  BY <1>1, <1>2, <1>5, <1>8

LEMMA BundleHolds == ExportInv => BundleStands
<1>1. ASSUME ExportInv, Accepts(records, manifest), NEW i \in DOMAIN records
      PROVE  \E d \in drafts : \E j \in DOMAIN d :
               d[j] = records[i] /\ (i > 1 => j > 1 /\ d[j - 1] = records[i - 1])
  <2>1. /\ IsLog(records) /\ Len(records) \in Nat /\ DOMAIN records = 1..Len(records)
    BY <1>1, LogFacts DEF ExportInv, InBundle
  <2>2. \A k \in DOMAIN records : Known(records[k], drafts)
    BY <1>1 DEF ExportInv, InBundle, Accepts, Parses, Lines
  <2>3. CASE i > 1
    <3>1. i - 1 \in DOMAIN records /\ records[i].prev = records[i - 1].hash
      BY <1>1, <2>1, <2>3 DEF Accepts
    <3>2. Hashed(records[i - 1]) /\ Known(records[i], drafts)
      BY <1>1, <2>2, <3>1 DEF Known
    <3>3. PICK d \in drafts : \E j \in DOMAIN d :
            j > 1 /\ d[j] = records[i] /\ d[j - 1] = records[i - 1]
      BY <3>1, <3>2, KnownFollows
    <3>. QED
      BY <3>3
  <2>4. CASE ~(i > 1)
    <3>1. PICK d \in drafts : IsLog(d) /\ Len(d) = records[i].seq + 1 /\ d[Len(d)] = records[i]
                              /\ \A x \in Lines(d) : Hashed(x)
      BY <1>1, <2>2 DEF Known
    <3>2. records[i].seq \in Nat
      BY <1>1, <2>2 DEF Known
    <3>3. Len(d) \in DOMAIN d
      BY <3>1, <3>2, LogFacts
    <3>. QED
      BY <2>4, <3>1, <3>3
  <2>. QED
    BY <2>3, <2>4
<1>2. ASSUME ExportInv, turn # Nobody, stage[turn] = "done"
      PROVE  Accepts(records, manifest) /\ records = window[turn]
  <2>1. /\ turn \in Exporters /\ records = window[turn]
        /\ manifest = LogHead(window[turn]) /\ Selected(turn)
    BY <1>2 DEF ExportInv, ExportTables, Undisturbed
  <2>2. /\ IsLog(records) /\ records # <<>> /\ Linked(records)
        /\ \A r \in Lines(records) : Known(r, drafts)
    BY <1>2, <2>1 DEF Selected
  <2>3. ~Hashed(Torn)
    <3>1. Torn.hash = <<>>
      BY DEF Torn, Genesis
    <3>2. \A a, b, c : <<a, b, c>> # <<>>
      OBVIOUS
    <3>3. Hashed(Torn) => Torn.hash = <<Torn.seq, Torn.prev, Torn.event>>
      BY DEF Hashed, ChainHash
    <3>. QED
      BY <3>1, <3>2, <3>3, Zenon
  <2>4. Parses(records)
    BY <2>2, <2>3 DEF Parses, Lines, Known
  <2>. QED
    BY <2>1, <2>2, <2>4 DEF Accepts, Linked
<1>. QED
  BY <1>1, <1>2 DEF BundleStands

\* A bundle that its verifier accepts holds no seam, and an export that finishes
\* undisturbed leaves the window it selected, accepted (audit.rs:533-583, 919-935).
THEOREM BundlesStand == Spec => []BundleStands
BY InitExport, FileAlways, ExportsStep, BundleHolds, PTL DEF Spec
=============================================================================
