-------------------------- MODULE AuditExport_proofs --------------------------
(***************************************************************************)
(* Proofs about the audit log, for any number of records and whatever       *)
(* writes fail.  What was acknowledged stays on file with any number of     *)
(* sinks; that the log goes on as one chain, that it verifies when an       *)
(* append returns, that edits and replays are seen, and what an exporter    *)
(* beside it makes of it, hold for a single sink.                          *)
(***************************************************************************)
EXTENDS AuditExport, SequenceTheorems, WellFoundedInduction, TLAPS

-----------------------------------------------------------------------------
(* Records and heads.                                                      *)

LEMMA Distinguished ==
  /\ \A e \in Entry : e # Cut /\ e # None
  /\ \A hd \in ChainHead : hd # Cut /\ hd # None
  /\ Cut # None
<1>1. DOMAIN Cut = {"cut"} /\ DOMAIN None = {"none"}
  BY DEF Cut, None
<1>2. \A e \in Entry : "seq" \in DOMAIN e
  BY DEF Entry
<1>3. \A hd \in ChainHead : "seq" \in DOMAIN hd
  BY DEF ChainHead
<1> QED BY <1>1, <1>2, <1>3

LEMMA HeadType ==
  /\ \A e \in Entry : HeadOf(e) \in ChainHead /\ HeadOf(e).seq \in Nat
  /\ StartHead \in ChainHead
BY EmptySeq DEF HeadOf, Entry, ChainHead, StartHead, Genesis, Hash

LEMMA EntryAfterType ==
  ASSUME NEW hd \in ChainHead, hd.seq >= -1, NEW rec \in Record
  PROVE  EntryAfter(hd, rec) \in Entry
<1>1. hd.seq + 1 \in Nat
  BY DEF ChainHead
<1>2. EntryHash(hd.hash, rec) \in Hash
  BY AppendProperties DEF EntryHash, ChainHead, Hash
<1> QED BY <1>1, <1>2 DEF EntryAfter, ChainHead, Entry

-----------------------------------------------------------------------------
(* Files of lines of fragments.                                            *)

(* No line is without a fragment, and only a last line is open.            *)
WellFormed(f) ==
  /\ \A i \in Lines(f) : f.lines[i] # <<>>
  /\ f.open => f.lines # <<>>

Fragments(f) == UNION {{f.lines[i][j] : j \in 1 .. Len(f.lines[i])} : i \in Lines(f)}

Whole(f) == \A i \in Lines(f) : Readable(f.lines[i])

(* The last fragment of the last line. *)
LastOf(f) == f.lines[Len(f.lines)][Len(f.lines[Len(f.lines)])]

(* The lines of f and one more. *)
Longer(f, x) == Append(f.lines, <<x>>)

(* f is g, or has grown from it. *)
Grown(f, g) ==
  \/ f = g
  \/ Len(g.lines) < Len(f.lines)
  \/ /\ Len(g.lines) = Len(f.lines) /\ f.lines # <<>>
     /\ Len(g.lines[Len(g.lines)]) < Len(f.lines[Len(f.lines)])

LEMMA EmptyFileType ==
  ASSUME NEW S
  PROVE  EmptyFile \in FileOf(S) /\ WellFormed(EmptyFile) /\ Fragments(EmptyFile) = {}
BY EmptySeq DEF EmptyFile, FileOf, WellFormed, Fragments, Lines

LEMMA FileFacts ==
  ASSUME NEW S, NEW f \in FileOf(S)
  PROVE  /\ f.lines \in Seq(Seq(S \cup {Cut})) /\ f.open \in BOOLEAN
         /\ Len(f.lines) \in Nat /\ DOMAIN f.lines = Lines(f)
         /\ \A i \in Lines(f) : f.lines[i] \in Seq(S \cup {Cut}) /\ Len(f.lines[i]) \in Nat
BY DEF FileOf, Lines

LEMMA ReadableLine ==
  ASSUME NEW S, NEW line \in Seq(S \cup {Cut}), Readable(line)
  PROVE  line[1] \in S /\ line = <<line[1]>>
BY DEF Readable

LEMMA InFragments ==
  ASSUME NEW f, NEW e
  PROVE  e \in Fragments(f) <=> \E i \in Lines(f) : \E j \in 1 .. Len(f.lines[i]) : e = f.lines[i][j]
BY DEF Fragments

(* What one write does to a file: the fragment is the last, and those there *)
(* stay; and if all lines still read, it is a new line of its own.          *)
LEMMA PutEffect ==
  ASSUME NEW S, NEW f \in FileOf(S), WellFormed(f), NEW x \in S \cup {Cut}, NEW t \in BOOLEAN
  PROVE  /\ Put(f, x, t) \in FileOf(S) /\ WellFormed(Put(f, x, t))
         /\ Fragments(Put(f, x, t)) = Fragments(f) \cup {x}
         /\ Put(f, x, t).lines # <<>> /\ LastOf(Put(f, x, t)) = x
         /\ Grown(Put(f, x, t), f) /\ Put(f, x, t) # f
         /\ Whole(Put(f, x, t)) =>
              Whole(f) /\ x # Cut /\ Put(f, x, t).lines = Longer(f, x)
<1> DEFINE g == Put(f, x, t)
           n == Len(f.lines)
<1>0. /\ f.lines \in Seq(Seq(S \cup {Cut})) /\ f.open \in BOOLEAN
      /\ n \in Nat /\ DOMAIN f.lines = Lines(f)
      /\ \A i \in Lines(f) : f.lines[i] \in Seq(S \cup {Cut}) /\ Len(f.lines[i]) \in Nat
  BY FileFacts
<1>1. CASE f.open
  <2>1. n \in Lines(f) /\ n > 0
    BY <1>0, <1>1 DEF WellFormed, Lines
  <2> DEFINE long == Append(f.lines[n], x)
  <2>2. /\ long \in Seq(S \cup {Cut}) /\ Len(long) = Len(f.lines[n]) + 1 /\ long[Len(long)] = x
        /\ \A j \in 1 .. Len(f.lines[n]) : long[j] = f.lines[n][j]
    BY <1>0, <2>1
  <2>3. Len(f.lines[n]) > 0
    BY <1>0, <2>1 DEF WellFormed
  <2>4. g.lines = [f.lines EXCEPT ![n] = long] /\ g.open = ~t
    BY <1>1 DEF Put
  <2> HIDE DEF long, g
  <2>5. /\ g.lines \in Seq(Seq(S \cup {Cut})) /\ Len(g.lines) = n
        /\ g.lines[n] = long /\ \A i \in Lines(f) \ {n} : g.lines[i] = f.lines[i]
    BY <1>0, <2>1, <2>2, <2>4
  <2>6. Lines(g) = Lines(f)
    BY <2>5 DEF Lines
  <2>7. g = [lines |-> g.lines, open |-> g.open]
    BY DEF g, Put
  <2>8. g \in FileOf(S)
    BY <2>4, <2>5, <2>7 DEF FileOf
  <2>9. WellFormed(g)
    <3>1. \A i \in Lines(f) : g.lines[i] # <<>>
      <4>1. long # <<>>
        BY <1>0, <2>1, <2>2, <2>3
      <4> QED BY <2>5, <4>1 DEF WellFormed
    <3> QED BY <1>0, <2>1, <2>5, <2>6, <3>1 DEF WellFormed
  <2>10. Fragments(g) = Fragments(f) \cup {x}
    <3>1. ASSUME NEW i \in Lines(g), NEW j \in 1 .. Len(g.lines[i])
          PROVE  g.lines[i][j] \in Fragments(f) \cup {x}
      <4>1. CASE i = n
        <5>1. g.lines[i] = long /\ (j \in 1 .. Len(f.lines[n]) \/ j = Len(long))
          BY <1>0, <2>1, <2>2, <2>5, <3>1, <4>1
        <5>2. long[j] = x \/ (j \in 1 .. Len(f.lines[n]) /\ long[j] = f.lines[n][j])
          BY <2>2, <5>1
        <5> QED BY <2>1, <5>1, <5>2, InFragments
      <4>2. CASE i # n
        <5>1. i \in Lines(f) /\ g.lines[i] = f.lines[i]
          BY <2>5, <2>6, <4>2
        <5> QED BY <3>1, <5>1, InFragments
      <4> QED BY <4>1, <4>2
    <3>2. ASSUME NEW i \in Lines(f), NEW j \in 1 .. Len(f.lines[i])
          PROVE  f.lines[i][j] \in Fragments(g)
      <4>1. CASE i = n
        <5>1. j \in 1 .. Len(g.lines[n]) /\ g.lines[n][j] = f.lines[n][j]
          BY <1>0, <2>1, <2>2, <2>5, <3>2, <4>1
        <5> QED BY <2>1, <2>6, <4>1, <5>1 DEF Fragments
      <4>2. CASE i # n
        BY <2>5, <2>6, <3>2, <4>2 DEF Fragments
      <4> QED BY <4>1, <4>2
    <3>3. x \in Fragments(g)
      <4>1. Len(long) \in 1 .. Len(g.lines[n]) /\ g.lines[n][Len(long)] = x
        BY <1>0, <2>1, <2>2, <2>3, <2>5
      <4> QED BY <2>1, <2>6, <4>1, InFragments
    <3> QED BY <3>1, <3>2, <3>3, InFragments
  <2>11. g.lines # <<>> /\ LastOf(g) = x
    BY <1>0, <2>1, <2>2, <2>5 DEF LastOf
  <2>12. Grown(g, f) /\ g # f
    BY <1>0, <2>1, <2>2, <2>5 DEF Grown
  <2>13. ~Whole(g)
    <3>1. ~Readable(g.lines[n])
      BY <1>0, <2>1, <2>2, <2>3, <2>5 DEF Readable
    <3> QED BY <2>1, <2>6, <3>1 DEF Whole
  <2> QED BY <2>8, <2>9, <2>10, <2>11, <2>12, <2>13 DEF g
<1>2. CASE ~f.open
  <2>1. g.lines = Append(f.lines, <<x>>) /\ g.open = ~t
    BY <1>2 DEF Put
  <2>2. <<x>> \in Seq(S \cup {Cut}) /\ Len(<<x>>) = 1
    OBVIOUS
  <2>7. g = [lines |-> g.lines, open |-> g.open]
    BY DEF Put
  <2> HIDE DEF g
  <2>5. /\ g.lines \in Seq(Seq(S \cup {Cut})) /\ Len(g.lines) = n + 1
        /\ g.lines[n + 1] = <<x>> /\ \A i \in Lines(f) : g.lines[i] = f.lines[i]
    BY <1>0, <2>1, <2>2 DEF Lines
  <2>6. Lines(g) = Lines(f) \cup {n + 1}
    BY <1>0, <2>5 DEF Lines
  <2>8. g \in FileOf(S)
    BY <2>1, <2>5, <2>7 DEF FileOf
  <2>9. WellFormed(g)
    <3>1. g.lines # <<>> /\ g.lines[n + 1] # <<>>
      BY <1>0, <2>5
    <3> QED BY <2>5, <2>6, <3>1 DEF WellFormed
  <2>10. Fragments(g) = Fragments(f) \cup {x}
    <3>1. ASSUME NEW i \in Lines(g), NEW j \in 1 .. Len(g.lines[i])
          PROVE  g.lines[i][j] \in Fragments(f) \cup {x}
      BY <2>5, <2>6, <3>1 DEF Fragments
    <3>2. ASSUME NEW i \in Lines(f), NEW j \in 1 .. Len(f.lines[i])
          PROVE  f.lines[i][j] \in Fragments(g)
      BY <2>5, <2>6, <3>2 DEF Fragments
    <3>3. x \in Fragments(g)
      <4>1. 1 \in 1 .. Len(g.lines[n + 1]) /\ g.lines[n + 1][1] = x
        BY <2>5
      <4> QED BY <2>6, <4>1, InFragments
    <3> QED BY <3>1, <3>2, <3>3, InFragments
  <2>11. g.lines # <<>> /\ LastOf(g) = x
    BY <1>0, <2>5 DEF LastOf
  <2>12. Grown(g, f) /\ g # f
    BY <1>0, <2>5 DEF Grown
  <2>13. Whole(g) => Whole(f) /\ x # Cut
    BY <2>5, <2>6 DEF Whole, Readable
  <2> QED BY <2>1, <2>8, <2>9, <2>10, <2>11, <2>12, <2>13 DEF g, Longer
<1> QED BY <1>0, <1>1, <1>2

LEMMA PutWhole ==
  ASSUME NEW S, NEW f \in FileOf(S), WellFormed(f), NEW x \in S \cup {Cut},
         NEW g, \E t \in BOOLEAN : g = Put(f, x, t)
  PROVE  g # f /\ (Whole(g) => Whole(f) /\ x # Cut /\ g.lines = Longer(f, x))
BY PutEffect

LEMMA PutLast ==
  ASSUME NEW S, NEW f \in FileOf(S), WellFormed(f), NEW x \in S \cup {Cut},
         NEW g, \E t \in BOOLEAN : g = Put(f, x, t)
  PROVE  g.lines # <<>> /\ LastOf(g) = x /\ Fragments(g) = Fragments(f) \cup {x}
BY PutEffect

LEMMA InterruptedEffect ==
  ASSUME NEW S, NEW f \in FileOf(S), NEW x, NEW g \in Interrupted(f, x)
  PROVE  g = f \/ \E y \in {x, Cut} : \E t \in BOOLEAN : g = Put(f, y, t)
BY DEF Interrupted

(* A file that grew between two looks has grown since the first.            *)
LEMMA GrownAgain ==
  ASSUME NEW S, NEW e \in FileOf(S), NEW f \in FileOf(S), NEW g \in FileOf(S),
         Grown(g, f), Grown(f, e)
  PROVE  Grown(g, e) /\ (f # e => g # e)
<1>1. /\ Len(e.lines) \in Nat /\ Len(f.lines) \in Nat /\ Len(g.lines) \in Nat
      /\ \A i \in Lines(e) : Len(e.lines[i]) \in Nat
      /\ \A i \in Lines(f) : Len(f.lines[i]) \in Nat
      /\ \A i \in Lines(g) : Len(g.lines[i]) \in Nat
  BY FileFacts
<1>2. /\ e.lines # <<>> => Len(e.lines) \in Lines(e)
      /\ f.lines # <<>> => Len(f.lines) \in Lines(f)
      /\ g.lines # <<>> => Len(g.lines) \in Lines(g)
  BY FileFacts DEF Lines
<1>3. f.lines # <<>> /\ Len(e.lines) = Len(f.lines) => e.lines # <<>>
  BY FileFacts
<1> QED BY <1>1, <1>2, <1>3 DEF Grown

-----------------------------------------------------------------------------
(* Any number of sinks: types, and what stays on file.                      *)

AuditInv ==
  /\ TypeOK
  /\ WellFormed(log) /\ WellFormed(anchor)
  /\ \A s \in Sink : cached[s] # None => cached[s].seq >= -1
  /\ acked \subseteq 1 .. asked
  /\ \A s \in Sink : entry[s] # None => entry[s].rec <= asked

LEMMA AuditInit == Init => AuditInv
<1> SUFFICES ASSUME Init PROVE AuditInv
  OBVIOUS
<1>1. EmptyFile \in FileOf(Entry) /\ EmptyFile \in FileOf(ChainHead) /\ WellFormed(EmptyFile)
  BY EmptyFileType
<1> QED BY <1>1, RecordsAssumption DEF Init, AuditInv, TypeOK

(* What an append reads as the head of the log. *)
LEMMA CurrentHead ==
  ASSUME AuditInv, LastParses
  PROVE  HeadAt(log, Len(log.lines)) \in ChainHead /\ HeadAt(log, Len(log.lines)).seq >= -1
<1>1. log \in FileOf(Entry)
  BY DEF AuditInv, TypeOK
<1>2. CASE Len(log.lines) = 0
  BY <1>2, HeadType DEF HeadAt, StartHead
<1>3. CASE Len(log.lines) # 0
  <2>1. Len(log.lines) \in Lines(log) /\ Len(log.lines) > 0
    BY <1>1, <1>3, FileFacts DEF Lines
  <2>2. log.lines[Len(log.lines)][1] \in Entry
    BY <1>1, <2>1, FileFacts, ReadableLine DEF LastParses
  <2> QED BY <1>3, <2>2, HeadType DEF HeadAt
<1> QED BY <1>2, <1>3

(* The log and the anchor log only ever grow by fragments.                  *)
LogWrite(s) ==
  /\ pc[s] = "ready" /\ entry[s] \in Entry
  /\ \E y \in {entry[s], Cut} : \E t \in BOOLEAN : log' = Put(log, y, t)

AnchorWrite(s) ==
  /\ pc[s] = "signed" /\ entry[s] \in Entry
  /\ \E y \in {HeadOf(entry[s]), Cut} : \E t \in BOOLEAN : anchor' = Put(anchor, y, t)

LEMMA FilesGrow ==
  ASSUME AuditInv, [Next]_vars
  PROVE  /\ log' = log \/ \E s \in Sink : LogWrite(s)
         /\ anchor' = anchor \/ \E s \in Sink : AnchorWrite(s)
<1>1. \A s \in Sink : pc[s] # "idle" => entry[s] \in Entry
  BY DEF AuditInv, TypeOK
<1>2. log \in FileOf(Entry) /\ anchor \in FileOf(ChainHead)
  BY DEF AuditInv, TypeOK
<1>3. ASSUME NEW s \in Sink, AppendEntry(s)
      PROVE  LogWrite(s) /\ anchor' = anchor
  BY <1>1, <1>3 DEF AppendEntry, Appended, LogWrite
<1>4. ASSUME NEW s \in Sink, WriteAnchor(s)
      PROVE  AnchorWrite(s) /\ log' = log
  BY <1>1, <1>4 DEF WriteAnchor, Appended, AnchorWrite
<1>5. ASSUME NEW s \in Sink, Abort(s)
      PROVE  (log' = log \/ LogWrite(s)) /\ (anchor' = anchor \/ AnchorWrite(s))
  <2>1. log' = log \/ (pc[s] = "ready" /\ log' \in Interrupted(log, entry[s]))
    BY <1>5 DEF Abort
  <2>2. anchor' = anchor \/ (pc[s] = "signed" /\ anchor' \in Interrupted(anchor, HeadOf(entry[s])))
    BY <1>5 DEF Abort
  <2>3. log' = log \/ LogWrite(s)
    BY <1>1, <1>2, <2>1, InterruptedEffect DEF LogWrite
  <2>4. anchor' = anchor \/ AnchorWrite(s)
    BY <1>1, <1>2, <2>2, InterruptedEffect DEF AnchorWrite
  <2> QED BY <2>3, <2>4
<1>6. \/ UNCHANGED <<log, anchor>>
      \/ \E s \in Sink : AppendEntry(s) \/ WriteAnchor(s) \/ Abort(s)
  BY DEF Next, vars, files, Begin, WriteHead, WriteSignature, Restart
<1> QED BY <1>3, <1>4, <1>5, <1>6

LEMMA FilesStay ==
  ASSUME AuditInv, [Next]_vars
  PROVE  /\ log' \in FileOf(Entry) /\ WellFormed(log') /\ Grown(log', log)
         /\ Fragments(log) \subseteq Fragments(log')
         /\ anchor' \in FileOf(ChainHead) /\ WellFormed(anchor')
<1>1. /\ log \in FileOf(Entry) /\ WellFormed(log)
      /\ anchor \in FileOf(ChainHead) /\ WellFormed(anchor)
  BY DEF AuditInv, TypeOK
<1>2. ASSUME NEW s \in Sink, LogWrite(s)
      PROVE  /\ log' \in FileOf(Entry) /\ WellFormed(log') /\ Grown(log', log)
             /\ Fragments(log) \subseteq Fragments(log')
  <2>1. PICK y \in {entry[s], Cut} : \E t \in BOOLEAN : log' = Put(log, y, t)
    BY <1>2 DEF LogWrite
  <2>2. y \in Entry \cup {Cut}
    BY <1>2 DEF LogWrite
  <2> QED BY <1>1, <2>1, <2>2, PutEffect
<1>3. ASSUME NEW s \in Sink, AnchorWrite(s)
      PROVE  anchor' \in FileOf(ChainHead) /\ WellFormed(anchor')
  <2>1. PICK y \in {HeadOf(entry[s]), Cut} : \E t \in BOOLEAN : anchor' = Put(anchor, y, t)
    BY <1>3 DEF AnchorWrite
  <2>2. y \in ChainHead \cup {Cut}
    BY <1>3, HeadType DEF AnchorWrite
  <2> QED BY <1>1, <2>1, <2>2, PutEffect
<1>4. Grown(log, log)
  BY DEF Grown
<1> QED BY <1>1, <1>2, <1>3, <1>4, FilesGrow

LEMMA AuditNext == AuditInv /\ [Next]_vars => AuditInv'
<1> SUFFICES ASSUME AuditInv, [Next]_vars PROVE AuditInv'
  OBVIOUS
<1>1. /\ log' \in FileOf(Entry) /\ WellFormed(log')
      /\ anchor' \in FileOf(ChainHead) /\ WellFormed(anchor')
  BY FilesStay
<1>2. /\ cached \in [Sink -> ChainHead \cup {None}] /\ entry \in [Sink -> Entry \cup {None}]
      /\ pc \in [Sink -> {"idle", "ready", "appended", "headed", "signed"}]
      /\ head \in ChainHead \cup {None} /\ sig \in ChainHead \cup {None}
      /\ asked \in 0 .. MaxRecords /\ acked \subseteq 1 .. asked
      /\ \A s \in Sink : pc[s] = "idle" <=> entry[s] = None
      /\ \A s \in Sink : cached[s] # None => cached[s].seq >= -1
      /\ \A s \in Sink : entry[s] # None => entry[s].rec <= asked
  BY DEF AuditInv, TypeOK
<1> DEFINE Rest ==
      /\ head' \in ChainHead \cup {None} /\ sig' \in ChainHead \cup {None}
      /\ cached' \in [Sink -> ChainHead \cup {None}] /\ entry' \in [Sink -> Entry \cup {None}]
      /\ pc' \in [Sink -> {"idle", "ready", "appended", "headed", "signed"}]
      /\ \A s \in Sink : pc'[s] = "idle" <=> entry'[s] = None
      /\ asked' \in 0 .. MaxRecords /\ acked' \subseteq 1 .. asked'
      /\ \A s \in Sink : cached'[s] # None => cached'[s].seq >= -1
      /\ \A s \in Sink : entry'[s] # None => entry'[s].rec <= asked'
<1>3. ASSUME NEW s \in Sink, Begin(s) PROVE Rest
  <2>1. cached'[s] \in ChainHead /\ cached'[s].seq >= -1
    BY <1>2, <1>3, CurrentHead DEF Begin
  <2>2. asked' \in Record /\ asked' = asked + 1 /\ asked' \in 0 .. MaxRecords
    BY <1>2, <1>3, RecordsAssumption DEF Begin, Record
  <2>3. EntryAfter(cached'[s], asked') \in Entry
    BY <2>1, <2>2, EntryAfterType
  <2>4. EntryAfter(cached'[s], asked').rec = asked'
    BY DEF EntryAfter
  <2>5. cached' \in [Sink -> ChainHead \cup {None}] /\ \A p \in Sink \ {s} : cached'[p] = cached[p]
    BY <1>2, <1>3, <2>1 DEF Begin
  <2>6. /\ entry' = [entry EXCEPT ![s] = EntryAfter(cached'[s], asked')]
        /\ pc' = [pc EXCEPT ![s] = "ready"] /\ UNCHANGED <<head, sig, acked>>
    BY <1>3 DEF Begin, files
  <2>7. EntryAfter(cached'[s], asked') # None
    BY <2>3, Distinguished
  <2> HIDE DEF Rest
  <2>8. entry' \in [Sink -> Entry \cup {None}] /\ pc' \in [Sink -> {"idle", "ready", "appended", "headed", "signed"}]
    BY <1>2, <2>3, <2>6
  <2>9. \A p \in Sink : /\ pc'[p] = "idle" <=> entry'[p] = None
                        /\ entry'[p] # None => entry'[p].rec <= asked'
    <3> TAKE p \in Sink
    <3>1. CASE p = s
      BY <1>2, <2>2, <2>4, <2>6, <2>7, <3>1
    <3>2. CASE p # s
      <4>1. entry'[p] = entry[p] /\ pc'[p] = pc[p]
        BY <1>2, <2>6, <3>2
      <4>2. entry[p] # None => entry[p].rec \in Nat
        BY <1>2 DEF Entry, Record
      <4> QED BY <1>2, <2>2, <4>1, <4>2
    <3> QED BY <3>1, <3>2
  <2> QED BY <1>2, <2>1, <2>2, <2>5, <2>6, <2>8, <2>9 DEF Rest
<1>4. ASSUME NEW s \in Sink, Return(s), pc[s] # "idle", UNCHANGED asked,
             head' \in ChainHead \cup {None}, sig' \in ChainHead \cup {None}
      PROVE  Rest
  <2>1. HeadOf(entry[s]) \in ChainHead /\ HeadOf(entry[s]).seq \in Nat /\ entry[s] \in Entry
    BY <1>2, <1>4, HeadType
  <2>2. entry[s].rec \in 1 .. asked
    BY <1>2, <2>1, Distinguished DEF Entry, Record
  <2>3. \A p \in Sink \ {s} : cached'[p] = cached[p] /\ entry'[p] = entry[p] /\ pc'[p] = pc[p]
    BY <1>2, <1>4 DEF Return
  <2>4. cached'[s] = HeadOf(entry[s]) /\ entry'[s] = None /\ pc'[s] = "idle"
    BY <1>2, <1>4 DEF Return
  <2>5. \A p \in Sink : cached'[p] # None => cached'[p].seq >= -1
    BY <1>2, <2>1, <2>3, <2>4
  <2>6. \A p \in Sink : entry'[p] # None => entry'[p].rec <= asked'
    BY <1>2, <1>4, <2>3, <2>4
  <2>7. \A p \in Sink : pc'[p] = "idle" <=> entry'[p] = None
    BY <1>2, <2>3, <2>4
  <2>8. acked' \subseteq 1 .. asked' /\ asked' \in 0 .. MaxRecords
    BY <1>2, <1>4, <2>2 DEF Return
  <2>9. /\ cached' \in [Sink -> ChainHead \cup {None}] /\ entry' \in [Sink -> Entry \cup {None}]
        /\ pc' \in [Sink -> {"idle", "ready", "appended", "headed", "signed"}]
    BY <1>2, <1>4, <2>1 DEF Return
  <2> QED BY <1>4, <2>5, <2>6, <2>7, <2>8, <2>9
<1>5. ASSUME NEW s \in Sink, NEW next \in {"appended", "headed", "signed"}, Proceed(s, next), pc[s] # "idle", UNCHANGED asked,
             head' \in ChainHead \cup {None}, sig' \in ChainHead \cup {None}
      PROVE  Rest
  BY <1>2, <1>5 DEF Proceed
<1>6. ASSUME NEW s \in Sink, pc[s] # "idle"
      PROVE  HeadOf(entry[s]) \in ChainHead
  BY <1>2, <1>6, HeadType
<1>7. ASSUME NEW s \in Sink, AppendEntry(s) PROVE Rest
  BY <1>2, <1>7 DEF AppendEntry
<1>8. ASSUME NEW s \in Sink, WriteHead(s) PROVE Rest
  <2>1. pc[s] # "idle" /\ UNCHANGED <<asked, sig>> /\ head' = HeadOf(entry[s])
    BY <1>8 DEF WriteHead
  <2>2. Proceed(s, "headed") \/ Return(s)
    BY <1>8 DEF WriteHead
  <2> HIDE DEF Rest
  <2> QED BY <1>2, <1>4, <1>5, <1>6, <2>1, <2>2
<1>9. ASSUME NEW s \in Sink, WriteSignature(s) PROVE Rest
  <2>1. pc[s] # "idle" /\ UNCHANGED <<asked, head>> /\ sig' = HeadOf(entry[s])
    BY <1>9 DEF WriteSignature
  <2>2. Proceed(s, "signed") \/ Return(s)
    BY <1>9 DEF WriteSignature
  <2> HIDE DEF Rest
  <2> QED BY <1>2, <1>4, <1>5, <1>6, <2>1, <2>2
<1>10. ASSUME NEW s \in Sink, WriteAnchor(s) PROVE Rest
  <2>1. pc[s] # "idle" /\ UNCHANGED <<asked, head, sig>> /\ Return(s)
    BY <1>10 DEF WriteAnchor
  <2> HIDE DEF Rest
  <2> QED BY <1>2, <1>4, <2>1
<1>11. ASSUME NEW s \in Sink, Abort(s) PROVE Rest
  BY <1>2, <1>11 DEF Abort
<1>12. ASSUME NEW s \in Sink, Restart(s) PROVE Rest
  BY <1>2, <1>12 DEF Restart, files
<1>13. ASSUME UNCHANGED vars PROVE Rest
  BY <1>2, <1>13 DEF vars, files
<1>14. Rest
  <2> HIDE DEF Rest
  <2> QED BY <1>3, <1>7, <1>8, <1>9, <1>10, <1>11, <1>12, <1>13 DEF Next
<1>15. acked' \subseteq Record
  BY <1>14, RecordsAssumption DEF Record
<1>16. TypeOK'
  BY <1>1, <1>14, <1>15 DEF TypeOK
<1> QED BY <1>1, <1>14, <1>16 DEF AuditInv

(* Whatever is appended, aborted and restarted by however many sinks, the   *)
(* state of audit/chain.py is one of those the model describes.             *)
THEOREM AuditTypeCorrect == Spec => []TypeOK
<1>1. AuditInv => TypeOK
  BY DEF AuditInv
<1> QED BY <1>1, AuditInit, AuditNext, PTL DEF Spec

-----------------------------------------------------------------------------
(* What is vouched for is on file.                                          *)

Kept(hd) == \E e \in Fragments(log) : e # Cut /\ HeadOf(e) = hd

KeptInv ==
  /\ \A s \in Sink : pc[s] \in {"appended", "headed", "signed"} => entry[s] \in Fragments(log)
  /\ \A r \in acked : \E e \in Fragments(log) : e # Cut /\ e.rec = r
  /\ \A hd \in {head, sig} : hd # None => Kept(hd)
  /\ \A a \in Fragments(anchor) : a # Cut => Kept(a)

LEMMA KeptInit == Init => KeptInv
<1> SUFFICES ASSUME Init PROVE KeptInv
  OBVIOUS
<1>1. Fragments(anchor) = {}
  BY EmptyFileType DEF Init
<1> QED BY <1>1 DEF Init, KeptInv

LEMMA KeptNext == AuditInv /\ KeptInv /\ [Next]_vars => KeptInv'
<1> SUFFICES ASSUME AuditInv, KeptInv, [Next]_vars PROVE KeptInv'
  OBVIOUS
<1>1. Fragments(log) \subseteq Fragments(log')
  BY FilesStay
<1>2. \A hd : Kept(hd) => Kept(hd)'
  BY <1>1 DEF Kept
<1>3. \A s \in Sink : pc[s] # "idle" => entry[s] \in Entry /\ entry[s] # Cut
  BY Distinguished DEF AuditInv, TypeOK
<1>4. \A s \in Sink : pc[s] \in {"appended", "headed", "signed"} => Kept(HeadOf(entry[s]))
  BY <1>3 DEF KeptInv, Kept
<1>5. pc \in [Sink -> {"idle", "ready", "appended", "headed", "signed"}] /\ entry \in [Sink -> Entry \cup {None}]
  BY DEF AuditInv, TypeOK
<1>6. \A s \in Sink : pc'[s] \in {"appended", "headed", "signed"} => entry'[s] \in Fragments(log')
  <2>1. ASSUME NEW s \in Sink, pc'[s] \in {"appended", "headed", "signed"},
               pc[s] \in {"appended", "headed", "signed"}
        PROVE  entry'[s] \in Fragments(log')
    <3>1. entry'[s] = entry[s]
      BY <1>5, <2>1 DEF Next, vars, Begin, AppendEntry, WriteHead, WriteSignature, WriteAnchor,
                        Abort, Restart, Return, Proceed
    <3> QED BY <1>1, <2>1, <3>1 DEF KeptInv
  <2>2. ASSUME NEW s \in Sink, pc'[s] \in {"appended", "headed", "signed"},
               pc[s] \notin {"appended", "headed", "signed"}
        PROVE  entry'[s] \in Fragments(log')
    <3>1. AppendEntry(s)
      BY <1>5, <2>2 DEF Next, vars, Begin, AppendEntry, WriteHead, WriteSignature, WriteAnchor,
                        Abort, Restart, Return, Proceed
    <3>2. /\ \E t \in BOOLEAN : log' = Put(log, entry[s], t)
          /\ entry' = entry /\ entry[s] \in Entry
      BY <1>3, <3>1 DEF AppendEntry, Appended
    <3>3. log \in FileOf(Entry) /\ WellFormed(log) /\ entry[s] \in Entry \cup {Cut}
      BY <3>2 DEF AuditInv, TypeOK
    <3>4. Fragments(log') = Fragments(log) \cup {entry[s]}
      BY <3>2, <3>3, PutEffect
    <3> QED BY <3>2, <3>4
  <2> QED BY <2>1, <2>2
<1>7. \A r \in acked' : \E e \in Fragments(log') : e # Cut /\ e.rec = r
  <2>1. acked' = acked \/ \E s \in Sink : pc[s] \in {"appended", "headed", "signed"} /\ acked' = acked \cup {entry[s].rec}
    BY DEF Next, vars, Begin, AppendEntry, WriteHead, WriteSignature, WriteAnchor, Abort,
           Restart, Return, Proceed
  <2>2. \A s \in Sink : pc[s] \in {"appended", "headed", "signed"} =>
          \E e \in Fragments(log') : e # Cut /\ e.rec = entry[s].rec
    BY <1>1, <1>3 DEF KeptInv
  <2> QED BY <1>1, <2>1, <2>2 DEF KeptInv
<1>8. /\ head' = head \/ \E s \in Sink : pc[s] \in {"appended", "headed", "signed"} /\ head' = HeadOf(entry[s])
      /\ sig' = sig \/ \E s \in Sink : pc[s] \in {"appended", "headed", "signed"} /\ sig' = HeadOf(entry[s])
  BY DEF Next, vars, files, Begin, AppendEntry, WriteHead, WriteSignature, WriteAnchor, Abort, Restart
<1>9. \A hd \in {head', sig'} : hd # None => Kept(hd)'
  BY <1>2, <1>4, <1>8 DEF KeptInv
<1>10. \A a \in Fragments(anchor') : a # Cut => Kept(a)'
  <2>1. ASSUME NEW s \in Sink, AnchorWrite(s)
        PROVE  \A a \in Fragments(anchor') : a = Cut \/ a = HeadOf(entry[s]) \/ a \in Fragments(anchor)
    <3>1. PICK y \in {HeadOf(entry[s]), Cut} : \E t \in BOOLEAN : anchor' = Put(anchor, y, t)
      BY <2>1 DEF AnchorWrite
    <3>2. y \in ChainHead \cup {Cut}
      BY <2>1, HeadType DEF AnchorWrite
    <3>3. anchor \in FileOf(ChainHead) /\ WellFormed(anchor)
      BY DEF AuditInv, TypeOK
    <3>4. Fragments(anchor') = Fragments(anchor) \cup {y}
      BY <3>1, <3>2, <3>3, PutEffect
    <3> QED BY <3>4
  <2>2. ASSUME NEW s \in Sink, AnchorWrite(s), NEW a \in Fragments(anchor'), a # Cut
        PROVE  Kept(a)'
    BY <1>2, <1>4, <2>1, <2>2 DEF AnchorWrite, KeptInv
  <2>3. anchor' = anchor \/ \E s \in Sink : AnchorWrite(s)
    BY FilesGrow
  <2> QED BY <1>2, <2>2, <2>3 DEF KeptInv
<1> QED BY <1>6, <1>7, <1>9, <1>10 DEF KeptInv

(* A decision whose append returned is in the log, and no head, signature   *)
(* or anchor names an entry that is not, whatever writes failed and however *)
(* many sinks share the path (durability.py:78, chain.py:213).              *)
THEOREM NothingAcknowledgedLost == Spec => []Durable
<1>1. KeptInv => Durable
  <2> SUFFICES ASSUME KeptInv PROVE Durable
    OBVIOUS
  <2>1. \A r \in acked : \E i \in Lines(log) : \E j \in 1 .. Len(log.lines[i]) :
          log.lines[i][j] # Cut /\ log.lines[i][j].rec = r
    BY InFragments DEF KeptInv
  <2>2. \A hd : Kept(hd) => Written(hd)
    BY DEF Kept, Written, Fragments
  <2>3. \A i \in Lines(anchor) : \A j \in 1 .. Len(anchor.lines[i]) :
          anchor.lines[i][j] # Cut => Written(anchor.lines[i][j])
    BY <2>2, InFragments DEF KeptInv
  <2>4. \A hd \in {head, sig} \ {None} : Written(hd)
    BY <2>2 DEF KeptInv
  <2> QED BY <2>1, <2>3, <2>4 DEF Durable
<1> QED BY <1>1, AuditInit, AuditNext, KeptInit, KeptNext, PTL DEF Spec

-----------------------------------------------------------------------------
(* Chains.  Their hashes are the sequences of their records, so that the    *)
(* head of a chain determines every line up to it.                         *)

LEMMA ChainFacts ==
  ASSUME NEW f \in FileOf(Entry), LinesOK(f)
  PROVE  /\ \A n \in 0 .. Len(f.lines) : HeadAt(f, n) \in ChainHead /\ HeadAt(f, n).seq = n - 1
         /\ \A i \in Lines(f) : f.lines[i][1] \in Entry /\ f.lines[i] = <<f.lines[i][1]>>
<1>1. \A i \in Lines(f) : f.lines[i][1] \in Entry /\ f.lines[i] = <<f.lines[i][1]>>
  <2> TAKE i \in Lines(f)
  <2>1. Readable(f.lines[i]) /\ f.lines[i] \in Seq(Entry \cup {Cut})
    BY FileFacts DEF LinesOK, LineOK
  <2> QED BY <2>1, ReadableLine
<1>2. ASSUME NEW n \in 0 .. Len(f.lines)
      PROVE  HeadAt(f, n) \in ChainHead /\ HeadAt(f, n).seq = n - 1
  <2>1. CASE n = 0
    BY <2>1, HeadType DEF HeadAt, StartHead
  <2>2. CASE n # 0
    <3>1. n \in Lines(f) /\ f.lines[n][1].seq = n - 1
      BY <2>2, FileFacts DEF Lines, LinesOK, LineOK
    <3> QED BY <1>1, <2>2, <3>1, HeadType DEF HeadAt, HeadOf
  <2> QED BY <2>1, <2>2
<1> QED BY <1>1, <1>2

LEMMA ChainGrows ==
  ASSUME NEW f \in FileOf(Entry), LinesOK(f), NEW g \in FileOf(Entry), NEW e \in Entry,
         e = EntryAfter(HeadAt(f, Len(f.lines)), e.rec),
         g.lines = Longer(f, e)
  PROVE  /\ LinesOK(g) /\ Len(g.lines) = Len(f.lines) + 1
         /\ g.lines[Len(g.lines)] = <<e>>
         /\ \A n \in 0 .. Len(f.lines) : HeadAt(g, n) = HeadAt(f, n)
         /\ \A i \in Lines(f) : g.lines[i] = f.lines[i]
         /\ Lines(g) = Lines(f) \cup {Len(g.lines)}
<1> DEFINE n == Len(f.lines)
<1>1. n \in Nat /\ Lines(f) = 1 .. n
  BY FileFacts DEF Lines
<1>2. /\ Len(g.lines) = n + 1 /\ g.lines[n + 1] = <<e>>
      /\ \A i \in 1 .. n : g.lines[i] = f.lines[i]
  BY <1>1, FileFacts DEF Longer
<1>3. Lines(g) = 1 .. n + 1
  BY <1>2 DEF Lines
<1>4. ASSUME NEW i \in 0 .. n
      PROVE  HeadAt(g, i) = HeadAt(f, i)
  BY <1>1, <1>2 DEF HeadAt
<1>5. ASSUME NEW i \in 1 .. n
      PROVE  LineOK(g, i)
  <2>1. LineOK(f, i) /\ i - 1 \in 0 .. n
    BY <1>1 DEF LinesOK
  <2> QED BY <1>2, <1>4, <2>1 DEF LineOK
<1>6. LineOK(g, n + 1)
  <2>1. HeadAt(f, n).seq = n - 1
    BY <1>1, ChainFacts
  <2>2. /\ e.seq = HeadAt(f, n).seq + 1 /\ e.prev = HeadAt(f, n).hash
        /\ e.hash = EntryHash(HeadAt(f, n).hash, e.rec)
    BY DEF EntryAfter
  <2>3. g.lines[n + 1][1] = e /\ Len(g.lines[n + 1]) = 1
    BY <1>2
  <2>4. HeadAt(g, (n + 1) - 1) = HeadAt(f, n) /\ e # Cut
    BY <1>1, <1>4, Distinguished
  <2> QED BY <1>1, <2>1, <2>2, <2>3, <2>4 DEF LineOK, Readable
<1>7. LinesOK(g)
  BY <1>1, <1>3, <1>5, <1>6 DEF LinesOK
<1> QED BY <1>1, <1>2, <1>3, <1>4, <1>7

LEMMA HashUnique ==
  ASSUME NEW p \in Hash, NEW q \in Hash, NEW r \in Record, NEW t \in Record,
         EntryHash(p, r) = EntryHash(q, t)
  PROVE  p = q /\ r = t
<1> DEFINE u == Append(p, r)
           v == Append(q, t)
<1>0. p \in Seq(Record) /\ q \in Seq(Record)
  BY DEF Hash
<1>1. Len(u) = Len(p) + 1 /\ u[Len(p) + 1] = r /\ \A i \in 1 .. Len(p) : u[i] = p[i]
  BY <1>0
<1>2. Len(v) = Len(q) + 1 /\ v[Len(q) + 1] = t /\ \A i \in 1 .. Len(q) : v[i] = q[i]
  BY <1>0
<1>3. u = v
  BY DEF EntryHash
<1> HIDE DEF u, v
<1>4. Len(p) = Len(q) /\ r = t
  BY <1>0, <1>1, <1>2, <1>3, LenProperties
<1>5. \A i \in 1 .. Len(p) : p[i] = q[i]
  BY <1>1, <1>2, <1>3, <1>4
<1> QED BY <1>0, <1>4, <1>5, SeqEqual

LEMMA EntryUnique ==
  ASSUME NEW a \in Entry, NEW b \in Entry, a.seq = b.seq, a.hash = b.hash,
         a.hash = EntryHash(a.prev, a.rec), b.hash = EntryHash(b.prev, b.rec)
  PROVE  a = b
<1>1. a.prev \in Hash /\ b.prev \in Hash /\ a.rec \in Record /\ b.rec \in Record
  BY DEF Entry
<1>2. EntryHash(a.prev, a.rec) = EntryHash(b.prev, b.rec)
  OBVIOUS
<1>3. a.prev = b.prev /\ a.rec = b.rec
  BY ONLY <1>1, <1>2, HashUnique
<1> QED BY <1>3 DEF Entry

LEMMA SamePrefix ==
  ASSUME NEW f \in FileOf(Entry), LinesOK(f), NEW g \in FileOf(Entry), LinesOK(g),
         NEW k \in Nat, k <= Len(f.lines), k <= Len(g.lines),
         HeadAt(f, k).hash = HeadAt(g, k).hash
  PROVE  \A i \in 1 .. k : f.lines[i] = g.lines[i]
<1> SUFFICES ASSUME NEW i0 \in 1 .. k, f.lines[i0] # g.lines[i0]
             PROVE  FALSE
  OBVIOUS
<1> DEFINE Gap == {n \in Nat : k - n \in 1 .. k /\ f.lines[k - n] # g.lines[k - n]}
<1>1. Gap \subseteq Nat /\ k - i0 \in Gap
  OBVIOUS
<1>2. PICK n \in Gap : \A m \in Gap : ~(<<m, n>> \in OpToRel(<, Nat))
  BY <1>1, NatLessThanWellFounded, WFMin, Zenon
<1> DEFINE i == k - n
<1>3. i \in 1 .. k /\ f.lines[i] # g.lines[i] /\ n \in Nat
  BY <1>2
<1>4. /\ i \in Lines(f) /\ i \in Lines(g)
      /\ f.lines[i] = <<f.lines[i][1]>> /\ g.lines[i] = <<g.lines[i][1]>>
      /\ f.lines[i][1] \in Entry /\ g.lines[i][1] \in Entry
      /\ f.lines[i][1].seq = i - 1 /\ g.lines[i][1].seq = i - 1
  BY <1>3, FileFacts, ChainFacts DEF Lines, LinesOK, LineOK
<1>5. HeadAt(f, i).hash = HeadAt(g, i).hash
  <2>1. CASE i = k
    BY <2>1
  <2>2. CASE i # k
    <3>1. n - 1 \in Nat /\ ~(n - 1 \in Gap)
      <4>1. n - 1 \in Nat /\ n - 1 < n
        BY <1>3, <2>2
      <4>2. <<n - 1, n>> \in OpToRel(<, Nat)
        BY <1>3, <4>1 DEF OpToRel
      <4> QED BY <1>2, <4>1, <4>2
    <3>2. i + 1 \in 1 .. k /\ k - (n - 1) = i + 1
      BY <1>3, <2>2
    <3>3. f.lines[i + 1] = g.lines[i + 1]
      BY <3>1, <3>2
    <3>4. LineOK(f, i + 1) /\ LineOK(g, i + 1) /\ (i + 1) - 1 = i
      BY <1>3, <3>2, FileFacts DEF LinesOK, Lines
    <3> QED BY <3>3, <3>4 DEF LineOK
  <2> QED BY <2>1, <2>2
<1>6. f.lines[i][1].hash = g.lines[i][1].hash
  BY <1>3, <1>5 DEF HeadAt, HeadOf
<1>7. /\ f.lines[i][1].hash = EntryHash(f.lines[i][1].prev, f.lines[i][1].rec)
      /\ g.lines[i][1].hash = EntryHash(g.lines[i][1].prev, g.lines[i][1].rec)
  BY <1>4 DEF LinesOK, LineOK
<1>8. f.lines[i][1] = g.lines[i][1]
  BY <1>4, <1>6, <1>7, EntryUnique
<1> QED BY <1>3, <1>4, <1>8

-----------------------------------------------------------------------------
(* One sink: the log is one chain.                                          *)

OneSink == \A s, t \in Sink : s = t

(* As long as no line is damaged, the sink knows the head of the log.       *)
Linked ==
  /\ LinesOK(log)
  /\ \A s \in Sink :
       /\ pc[s] = "idle" /\ cached[s] # None => cached[s] = HeadAt(log, Len(log.lines))
       /\ pc[s] = "ready" => entry[s] = EntryAfter(HeadAt(log, Len(log.lines)), entry[s].rec)
       /\ pc[s] \in {"appended", "headed", "signed"} =>
            Len(log.lines) > 0 /\ entry[s] = log.lines[Len(log.lines)][1]

ChainInv == Undamaged => Linked

(* A line that still reads was appended whole. *)
LEMMA WholeStep ==
  ASSUME AuditInv, [Next]_vars, Undamaged'
  PROVE  /\ Undamaged
         /\ \/ log' = log
            \/ \E s \in Sink : /\ LogWrite(s) /\ log' # log
                               /\ log'.lines = Longer(log, entry[s])
<1>1. Whole(log')
  BY DEF Undamaged, Whole
<1>2. log \in FileOf(Entry) /\ WellFormed(log)
  BY DEF AuditInv, TypeOK
<1>3. ASSUME NEW s \in Sink, LogWrite(s)
      PROVE  Whole(log) /\ log'.lines = Longer(log, entry[s]) /\ log' # log
  <2>1. PICK y \in {entry[s], Cut} : \E t \in BOOLEAN : log' = Put(log, y, t)
    BY <1>3 DEF LogWrite
  <2>2. y \in Entry \cup {Cut}
    BY <1>3 DEF LogWrite
  <2>3. Whole(log) /\ y # Cut /\ log'.lines = Longer(log, y) /\ log' # log
    BY <1>1, <1>2, <2>1, <2>2, PutWhole
  <2> QED BY <2>3
<1>4. log' = log => Whole(log)
  BY <1>1
<1> QED BY <1>3, <1>4, FilesGrow DEF Undamaged, Whole

LEMMA ChainNext ==
  ASSUME OneSink, AuditInv, ChainInv, [Next]_vars
  PROVE  ChainInv'
<1> SUFFICES ASSUME Undamaged' PROVE Linked'
  BY DEF ChainInv
<1>1. Undamaged /\ Linked
  BY WholeStep DEF ChainInv
<1>2. /\ log \in FileOf(Entry) /\ log' \in FileOf(Entry)
      /\ cached \in [Sink -> ChainHead \cup {None}] /\ entry \in [Sink -> Entry \cup {None}]
      /\ pc \in [Sink -> {"idle", "ready", "appended", "headed", "signed"}]
      /\ WellFormed(log)
  BY FilesStay DEF AuditInv, TypeOK
<1> DEFINE hd == HeadAt(log, Len(log.lines))
           Knows(s) ==
             /\ pc'[s] = "idle" /\ cached'[s] # None => cached'[s] = HeadAt(log', Len(log'.lines))
             /\ pc'[s] = "ready" => entry'[s] = EntryAfter(HeadAt(log', Len(log'.lines)), entry'[s].rec)
             /\ pc'[s] \in {"appended", "headed", "signed"} =>
                  Len(log'.lines) > 0 /\ entry'[s] = log'.lines[Len(log'.lines)][1]
<1>3. ASSUME log' = log
      PROVE  LinesOK(log') /\ \A s \in Sink : Knows(s)
  <2> SUFFICES ASSUME NEW s \in Sink PROVE Knows(s)
    BY <1>1, <1>3 DEF Linked
  <2>1. ASSUME Begin(s) PROVE Knows(s)
    <3>1. cached'[s] = hd /\ pc'[s] = "ready" /\ entry'[s] = EntryAfter(hd, asked')
      BY <1>1, <1>2, <2>1 DEF Begin, Linked
    <3>2. EntryAfter(hd, asked').rec = asked'
      BY DEF EntryAfter
    <3> QED BY <1>3, <3>1, <3>2
  <2>2. ASSUME AppendEntry(s) PROVE Knows(s)
    <3>1. Put(log, entry[s], TRUE) # log
      <4>1. entry[s] \in Entry \cup {Cut}
        BY <1>2, <2>2 DEF AppendEntry, AuditInv, TypeOK
      <4> QED BY <1>2, <4>1, PutEffect
    <3> QED BY <1>3, <2>2, <3>1 DEF AppendEntry, Appended
  <2>3. ASSUME WriteHead(s) \/ WriteSignature(s) \/ WriteAnchor(s) PROVE Knows(s)
    <3>1. pc[s] \in {"appended", "headed", "signed"}
      BY <2>3 DEF WriteHead, WriteSignature, WriteAnchor
    <3>2. Return(s) \/ (pc'[s] \in {"headed", "signed"} /\ entry'[s] = entry[s])
      BY <1>2, <2>3 DEF WriteHead, WriteSignature, WriteAnchor, Proceed
    <3>3. Len(log.lines) > 0 /\ entry[s] = log.lines[Len(log.lines)][1]
      BY <1>1, <3>1 DEF Linked
    <3>4. HeadOf(entry[s]) = hd
      BY <3>3 DEF HeadAt
    <3>5. Return(s) => pc'[s] = "idle" /\ cached'[s] = hd
      BY <1>2, <3>4 DEF Return
    <3> QED BY <1>3, <3>2, <3>3, <3>5
  <2>4. ASSUME Abort(s) \/ Restart(s) PROVE Knows(s)
    BY <1>2, <2>4 DEF Abort, Restart
  <2>5. ASSUME UNCHANGED vars PROVE Knows(s)
    BY <1>1, <1>3, <2>5 DEF vars, files, Linked
  <2> HIDE DEF Knows
  <2> QED BY <2>1, <2>2, <2>3, <2>4, <2>5 DEF Next, OneSink
<1>4. ASSUME NEW s \in Sink, LogWrite(s), log' # log, log'.lines = Longer(log, entry[s])
      PROVE  LinesOK(log') /\ \A t \in Sink : Knows(t)
  <2>1. entry[s] \in Entry /\ pc[s] = "ready" /\ entry[s] = EntryAfter(hd, entry[s].rec)
    BY <1>1, <1>4 DEF LogWrite, Linked
  <2>2. LinesOK(log)
    BY <1>1 DEF Linked
  <2>3. /\ LinesOK(log') /\ Len(log'.lines) = Len(log.lines) + 1
        /\ log'.lines[Len(log'.lines)] = <<entry[s]>>
    BY <1>2, <1>4, <2>1, <2>2, ChainGrows
  <2>4. AppendEntry(s) \/ Abort(s)
    BY <1>4 DEF Next, vars, files, OneSink, Begin, WriteHead, WriteSignature, WriteAnchor, Restart
  <2>5. Len(log'.lines) > 0 /\ log'.lines[Len(log'.lines)][1] = entry[s]
    BY <1>2, <2>3, FileFacts
  <2>6. (pc'[s] = "appended" /\ entry'[s] = entry[s]) \/ (pc'[s] = "idle" /\ cached'[s] = None)
    BY <1>2, <2>4 DEF AppendEntry, Abort
  <2> QED BY <2>3, <2>5, <2>6 DEF OneSink
<1>5. LinesOK(log') /\ \A s \in Sink : Knows(s)
  <2> HIDE DEF Knows
  <2> QED BY <1>3, <1>4, WholeStep
<1> QED BY <1>5 DEF Linked

LEMMA ChainInit == Init => ChainInv
BY DEF Init, ChainInv, Linked, LinesOK, Lines, EmptyFile

(* One sink that appends, fails half way, recovers and appends again never  *)
(* forks or repeats the chain: every line that was not cut continues the    *)
(* one before it (chain.py:190).                                           *)
THEOREM AppendsContinueChain ==
  ASSUME OneSink
  PROVE  Spec => []ChainContinues
<1>1. AuditInv /\ ChainInv /\ [Next]_vars => ChainInv'
  BY ChainNext
<1>2. ChainInv => ChainContinues
  BY DEF ChainInv, ChainContinues, Linked
<1> QED BY <1>1, <1>2, AuditInit, AuditNext, ChainInit, PTL DEF Spec

-----------------------------------------------------------------------------
(* What the sidecars say when an append has come so far.                   *)

VouchInv ==
  \A s \in Sink :
    /\ pc[s] \in {"headed", "signed"} => head = HeadOf(entry[s])
    /\ pc[s] = "headed" => HasKey
    /\ pc[s] = "signed" => HasAnchor /\ sig = HeadOf(entry[s])
    /\ pc[s] = "idle" /\ cached[s] # None =>
         /\ head = cached[s]
         /\ HasKey => sig = cached[s]
         /\ HasAnchor => anchor.lines # <<>> /\ LastOf(anchor) = cached[s]

LEMMA VouchNext ==
  ASSUME OneSink, AuditInv, VouchInv, [Next]_vars
  PROVE  VouchInv'
<1>1. /\ cached \in [Sink -> ChainHead \cup {None}] /\ entry \in [Sink -> Entry \cup {None}]
      /\ pc \in [Sink -> {"idle", "ready", "appended", "headed", "signed"}]
      /\ anchor \in FileOf(ChainHead) /\ WellFormed(anchor)
      /\ \A s \in Sink : pc[s] # "idle" => entry[s] \in Entry
  BY DEF AuditInv, TypeOK
<1> DEFINE Vouched(s) ==
             /\ pc'[s] \in {"headed", "signed"} => head' = HeadOf(entry'[s])
             /\ pc'[s] = "headed" => HasKey
             /\ pc'[s] = "signed" => HasAnchor /\ sig' = HeadOf(entry'[s])
             /\ pc'[s] = "idle" /\ cached'[s] # None =>
                  /\ head' = cached'[s]
                  /\ HasKey => sig' = cached'[s]
                  /\ HasAnchor => anchor'.lines # <<>> /\ LastOf(anchor') = cached'[s]
<1> SUFFICES ASSUME NEW s \in Sink PROVE Vouched(s)
  BY DEF VouchInv
<1>2. ASSUME Begin(s) PROVE Vouched(s)
  BY <1>1, <1>2 DEF Begin
<1>3. ASSUME AppendEntry(s) PROVE Vouched(s)
  BY <1>1, <1>3 DEF AppendEntry
<1>4. ASSUME WriteHead(s) PROVE Vouched(s)
  <2>1. CASE HasKey
    BY <1>1, <1>4, <2>1 DEF WriteHead, Proceed
  <2>2. CASE ~HasKey
    BY <1>1, <1>4, <2>2, AnchorAssumption DEF WriteHead, Return
  <2> QED BY <2>1, <2>2
<1>5. ASSUME WriteSignature(s) PROVE Vouched(s)
  <2>1. CASE HasAnchor
    BY <1>1, <1>5, <2>1 DEF WriteSignature, Proceed, VouchInv
  <2>2. CASE ~HasAnchor
    BY <1>1, <1>5, <2>2 DEF WriteSignature, Return, VouchInv
  <2> QED BY <2>1, <2>2
<1>6. ASSUME WriteAnchor(s) PROVE Vouched(s)
  <2>1. /\ pc'[s] = "idle" /\ cached'[s] = HeadOf(entry[s]) /\ head' = head /\ sig' = sig
        /\ head = HeadOf(entry[s]) /\ sig = HeadOf(entry[s])
    BY <1>1, <1>6 DEF WriteAnchor, Return, VouchInv
  <2>2. HeadOf(entry[s]) \in ChainHead \cup {Cut}
    BY <1>1, <1>6, HeadType DEF WriteAnchor
  <2>3. \E t \in BOOLEAN : anchor' = Put(anchor, HeadOf(entry[s]), t)
    BY <1>6 DEF WriteAnchor, Appended
  <2>4. anchor'.lines # <<>> /\ LastOf(anchor') = HeadOf(entry[s])
    BY <1>1, <2>2, <2>3, PutLast
  <2> QED BY <2>1, <2>4
<1>7. ASSUME Abort(s) \/ Restart(s) PROVE Vouched(s)
  BY <1>1, <1>7 DEF Abort, Restart
<1>8. ASSUME UNCHANGED vars PROVE Vouched(s)
  BY <1>8 DEF vars, files, VouchInv
<1> HIDE DEF Vouched
<1> QED BY <1>2, <1>3, <1>4, <1>5, <1>6, <1>7, <1>8 DEF Next, OneSink

LEMMA VouchInit == Init => VouchInv
BY DEF Init, VouchInv

LEMMA VerifiesAtRest ==
  ASSUME AuditInv, ChainInv, VouchInv
  PROVE  ReturnVerifies
<1> SUFFICES ASSUME NEW s \in Sink, pc[s] = "idle",
                    cached[s] # None, Undamaged, \A i \in Lines(anchor) : Readable(anchor.lines[i])
             PROVE  Verifies(log, head, sig, anchor)
  BY DEF ReturnVerifies
<1>1. head = cached[s] /\ LinesOK(log) /\ cached[s] = HeadAt(log, Len(log.lines))
  BY DEF ChainInv, Linked, VouchInv
<1>2. ChainOK(log, head) /\ SignatureOK(head, sig)
  BY <1>1 DEF ChainOK, HeadAgrees, SignatureOK, VouchInv
<1>3. AnchorOK(anchor, head)
  <2> SUFFICES ASSUME HasAnchor PROVE AnchorOK(anchor, head)
    BY DEF AnchorOK
  <2>1. anchor.lines # <<>> /\ LastOf(anchor) = head /\ anchor \in FileOf(ChainHead)
    BY <1>1 DEF VouchInv, AuditInv, TypeOK
  <2>2. Len(anchor.lines) \in Lines(anchor) /\ Len(anchor.lines) > 0
    BY <2>1, FileFacts DEF Lines
  <2>3. Readable(anchor.lines[Len(anchor.lines)])
    BY <2>2
  <2> QED BY <2>1, <2>2, <2>3 DEF AnchorOK, Readable, LastOf
<1> QED BY <1>2, <1>3 DEF Verifies

(* When an append has returned, whatever earlier ones left half done, the   *)
(* log verifies together with its head, signature and anchor.              *)
THEOREM ReturnedLogVerifies ==
  ASSUME OneSink
  PROVE  Spec => []ReturnVerifies
<1>1. AuditInv /\ ChainInv /\ [Next]_vars => ChainInv'
  BY ChainNext
<1>2. AuditInv /\ VouchInv /\ [Next]_vars => VouchInv'
  BY VouchNext
<1>3. AuditInv /\ ChainInv /\ VouchInv => ReturnVerifies
  BY VerifiesAtRest
<1> QED BY <1>1, <1>2, <1>3, AuditInit, AuditNext, ChainInit, VouchInit, PTL DEF Spec

-----------------------------------------------------------------------------
(* What an edited or a replayed log shows.                                  *)

LEMMA KeptHead ==
  ASSUME AuditInv, LinesOK(log), NEW hd, Kept(hd)
  PROVE  \E k \in Lines(log) : hd = HeadAt(log, k) /\ hd.seq = k - 1
<1>1. log \in FileOf(Entry)
  BY DEF AuditInv, TypeOK
<1>2. PICK e \in Fragments(log) : HeadOf(e) = hd
  BY DEF Kept
<1>3. PICK i \in Lines(log) : \E j \in 1 .. Len(log.lines[i]) : e = log.lines[i][j]
  BY <1>2, InFragments
<1>4. Len(log.lines[i]) = 1 /\ log.lines[i][1].seq = i - 1
  BY DEF LinesOK, LineOK, Readable
<1>5. e = log.lines[i][1]
  BY <1>3, <1>4
<1>6. i # 0
  BY DEF Lines
<1> QED BY <1>2, <1>4, <1>5, <1>6 DEF HeadAt, HeadOf

LEMMA EditsAreFiles ==
  ASSUME NEW f \in Edits, log \in FileOf(Entry), LinesOK(log)
  PROVE  f \in FileOf(Entry)
<1> DEFINE L == Seq(Entry \cup {Cut})
           n == Len(log.lines)
<1>1. /\ log.lines \in Seq(L) /\ log.open \in BOOLEAN /\ n \in Nat /\ DOMAIN log.lines = 1 .. n
      /\ \A i \in 1 .. n : log.lines[i] \in L
      /\ log = [lines |-> log.lines, open |-> log.open]
  BY FileFacts DEF FileOf, Lines
<1>2. ASSUME NEW i \in Lines(log), f = Dropped(i)
      PROVE  f \in FileOf(Entry)
  <2> DEFINE rest == [j \in 1 .. n - 1 |-> log.lines[IF j < i THEN j ELSE j + 1]]
  <2>1. \A j \in 1 .. n - 1 : log.lines[IF j < i THEN j ELSE j + 1] \in L
    BY <1>1, <1>2 DEF Lines
  <2>2. n > 0
    BY <1>1, <1>2 DEF Lines
  <2>3. n - 1 \in Nat /\ \A j \in 1 .. n - 1 : rest[j] \in L
    BY <1>1, <2>1, <2>2
  <2>4. rest \in Seq(L)
    <3> HIDE DEF L
    <3>1. \A j \in 1 .. n - 1 : log.lines[IF j < i THEN j ELSE j + 1] \in L
      BY <2>1
    <3> QED BY <2>3, <3>1, IsASeq
  <2>5. f = [lines |-> rest, open |-> log.open]
    BY <1>1, <1>2 DEF Dropped
  <2> QED BY <1>1, <2>4, <2>5 DEF FileOf
<1>3. ASSUME NEW m \in 0 .. n, f = Truncated(m)
      PROVE  f \in FileOf(Entry)
  <2>1. SubSeq(log.lines, 1, m) \in Seq(L)
    BY <1>1
  <2>2. f = [lines |-> SubSeq(log.lines, 1, m), open |-> log.open]
    BY <1>1, <1>3 DEF Truncated
  <2> QED BY <1>1, <2>1, <2>2 DEF FileOf
<1>4. ASSUME NEW i \in Lines(log), NEW j \in Lines(log), f = Swapped(i, j)
      PROVE  f \in FileOf(Entry)
  <2> DEFINE swap == [log.lines EXCEPT ![i] = log.lines[j], ![j] = log.lines[i]]
  <2>1. swap \in Seq(L)
    BY <1>1 DEF Lines
  <2>2. f = [lines |-> swap, open |-> log.open]
    BY <1>1, <1>4 DEF Swapped
  <2> QED BY <1>1, <2>1, <2>2 DEF FileOf
<1>5. ASSUME NEW i \in Lines(log), NEW r \in Record, f = Rewritten(i, r)
      PROVE  f \in FileOf(Entry)
  <2>1. log.lines[i] \in L /\ log.lines[i][1] \in Entry /\ Len(log.lines[i]) = 1
    BY <1>1, ChainFacts DEF Lines, LinesOK, LineOK, Readable
  <2> DEFINE forged == [log.lines[i][1] EXCEPT !.rec = r]
             line == [log.lines[i] EXCEPT ![1] = forged]
             edit == [log.lines EXCEPT ![i] = line]
  <2>2. forged \in Entry
    BY <2>1 DEF Entry
  <2>3. line \in L
    <3> HIDE DEF forged
    <3> QED BY <2>1, <2>2
  <2>4. edit \in Seq(L)
    <3> HIDE DEF line
    <3> QED BY <1>1, <2>3 DEF Lines
  <2>5. f = [lines |-> edit, open |-> log.open]
    BY <1>1, <1>5 DEF Rewritten
  <2> QED BY <1>1, <2>4, <2>5 DEF FileOf
<1> QED BY <1>2, <1>3, <1>4, <1>5 DEF Edits

(* However the log is edited, an edit that verifies against the head agrees *)
(* with the log on every entry the head covers (chain.py:11-16).            *)
THEOREM EditsAreSeen ==
  ASSUME OneSink
  PROVE  Spec => []TamperEvident
<1>1. AuditInv /\ ChainInv /\ [Next]_vars => ChainInv'
  BY ChainNext
<1>2. AuditInv /\ KeptInv /\ ChainInv => TamperEvident
  <2> SUFFICES ASSUME AuditInv, KeptInv, ChainInv, Undamaged, head # None,
                      NEW f \in Edits, ChainOK(f, head)
               PROVE  \A i \in 1 .. head.seq + 1 : i <= Len(f.lines) /\ f.lines[i] = log.lines[i]
    BY DEF TamperEvident
  <2>1. log \in FileOf(Entry) /\ LinesOK(log)
    BY DEF AuditInv, TypeOK, ChainInv, Linked
  <2>2. f \in FileOf(Entry) /\ LinesOK(f)
    BY <2>1, EditsAreFiles DEF ChainOK
  <2>3. PICK k \in Lines(log) : head = HeadAt(log, k) /\ head.seq = k - 1
    BY <2>1, KeptHead DEF KeptInv
  <2>4. PICK m \in 0 .. Len(f.lines) : head = HeadAt(f, m)
    <3>1. Len(f.lines) \in Nat
      BY <2>2, FileFacts
    <3> QED BY <3>1 DEF ChainOK, HeadAgrees
  <2>5. head.seq = m - 1
    BY <2>2, <2>4, ChainFacts
  <2>6. m = k /\ k \in Nat /\ k <= Len(f.lines) /\ k <= Len(log.lines) /\ head.seq + 1 = k
    BY <2>1, <2>2, <2>3, <2>4, <2>5, FileFacts DEF Lines
  <2>7. HeadAt(f, k).hash = HeadAt(log, k).hash
    BY <2>3, <2>4, <2>6
  <2>8. \A i \in 1 .. k : f.lines[i] = log.lines[i]
    BY <2>1, <2>2, <2>6, <2>7, SamePrefix
  <2> QED BY <2>2, <2>6, <2>8, FileFacts
<1> QED BY <1>1, <1>2, AuditInit, AuditNext, ChainInit, KeptInit, KeptNext, PTL DEF Spec

(* The anchor's last head, if it was written whole, is its latest. *)
AnchorInv ==
  Undamaged /\ anchor.lines # <<>> /\ LastOf(anchor) # Cut =>
    \A a \in Fragments(anchor) : a # Cut => a.seq <= LastOf(anchor).seq

LEMMA AnchorNext ==
  ASSUME OneSink, AuditInv, KeptInv, ChainInv, AnchorInv, [Next]_vars
  PROVE  AnchorInv'
<1> SUFFICES ASSUME Undamaged', anchor'.lines # <<>>, LastOf(anchor') # Cut
             PROVE  \A a \in Fragments(anchor') : a # Cut => a.seq <= LastOf(anchor').seq
  BY DEF AnchorInv
<1>1. Undamaged /\ log \in FileOf(Entry)
  BY WholeStep DEF AuditInv, TypeOK
<1>2. CASE anchor' = anchor
  BY <1>1, <1>2 DEF AnchorInv
<1>3. ASSUME NEW s \in Sink, AnchorWrite(s)
      PROVE  \A a \in Fragments(anchor') : a # Cut => a.seq <= LastOf(anchor').seq
  <2>1. PICK y \in {HeadOf(entry[s]), Cut} : \E t \in BOOLEAN : anchor' = Put(anchor, y, t)
    BY <1>3 DEF AnchorWrite
  <2>2. y \in ChainHead \cup {Cut} /\ anchor \in FileOf(ChainHead) /\ WellFormed(anchor)
    BY <1>3, HeadType DEF AnchorWrite, AuditInv, TypeOK
  <2>3. LastOf(anchor') = y /\ Fragments(anchor') = Fragments(anchor) \cup {y}
    BY <2>1, <2>2, PutLast
  <2>4. LinesOK(log) /\ entry[s] = log.lines[Len(log.lines)][1] /\ Len(log.lines) \in Lines(log)
    BY <1>1, <1>3, FileFacts DEF AnchorWrite, ChainInv, Linked, Lines
  <2>5. y = HeadOf(entry[s]) /\ y.seq = Len(log.lines) - 1
    BY <2>1, <2>3, <2>4 DEF HeadOf, LinesOK, LineOK
  <2>6. ASSUME NEW a \in Fragments(anchor), a # Cut
        PROVE  a.seq <= Len(log.lines) - 1
    <3>1. PICK k \in Lines(log) : a.seq = k - 1
      BY <2>4, <2>6, KeptHead DEF KeptInv
    <3> QED BY <1>1, <3>1, FileFacts DEF Lines
  <2>7. y.seq <= y.seq
    BY <1>1, <2>5, FileFacts
  <2> QED BY <2>3, <2>5, <2>6, <2>7
<1> QED BY <1>2, <1>3, FilesGrow

(* A log, head and signature put back together to an earlier entry do not   *)
(* pass for the latest state once the anchor was told of a later one        *)
(* (chain.py, verify_anchor).                                              *)
THEOREM ReplaysAreSeen ==
  ASSUME OneSink
  PROVE  Spec => []ReplayEvident
<1>1. AuditInv /\ ChainInv /\ [Next]_vars => ChainInv'
  BY ChainNext
<1>2. AuditInv /\ KeptInv /\ ChainInv /\ AnchorInv /\ [Next]_vars => AnchorInv'
  BY AnchorNext
<1>3. Init => AnchorInv
  BY DEF Init, AnchorInv, EmptyFile
<1>4. AuditInv /\ ChainInv /\ AnchorInv => ReplayEvident
  <2> SUFFICES ASSUME AuditInv, ChainInv, AnchorInv, HasAnchor, Undamaged, NEW n \in Lines(log),
                      Verifies(Truncated(n), HeadAt(log, n), HeadAt(log, n), anchor),
                      NEW i \in Lines(anchor), NEW j \in 1 .. Len(anchor.lines[i]),
                      anchor.lines[i][j] # Cut
               PROVE  anchor.lines[i][j].seq < n
    BY DEF ReplayEvident
  <2>1. log \in FileOf(Entry) /\ LinesOK(log) /\ anchor \in FileOf(ChainHead)
    BY DEF AuditInv, TypeOK, ChainInv, Linked
  <2>2. HeadAt(log, n) \in ChainHead /\ HeadAt(log, n).seq = n - 1 /\ n \in Int
    BY <2>1, ChainFacts, FileFacts DEF Lines
  <2>3. /\ anchor.lines # <<>> /\ LastOf(anchor) = HeadAt(log, n)
    <3>1. /\ Len(anchor.lines) > 0 /\ Readable(anchor.lines[Len(anchor.lines)])
          /\ anchor.lines[Len(anchor.lines)][1] = HeadAt(log, n)
      BY DEF Verifies, AnchorOK
    <3> QED BY <2>1, <3>1, FileFacts DEF Readable, LastOf
  <2>4. anchor.lines[i][j] \in Fragments(anchor)
    BY InFragments
  <2>5. anchor.lines[i][j].seq <= n - 1
    BY <2>2, <2>3, <2>4, Distinguished DEF AnchorInv
  <2>6. anchor.lines[i][j].seq \in Int
    <3>1. anchor.lines[i] \in Seq(ChainHead \cup {Cut})
      BY <2>1, FileFacts
    <3>2. anchor.lines[i][j] \in ChainHead
      BY <3>1
    <3> QED BY <3>2 DEF ChainHead
  <2> QED BY <2>2, <2>5, <2>6
<1> QED BY <1>1, <1>2, <1>3, <1>4, AuditInit, AuditNext, ChainInit, KeptInit, KeptNext, PTL DEF Spec

-----------------------------------------------------------------------------
(* The exporter only reads: beside the sink it changes nothing, so that all *)
(* the above holds with it too.                                            *)

ReaderStep ==
  \/ VerifyLines \/ VerifyHead \/ ReadClaimed \/ VerifySignature \/ VerifyAnchor
  \/ ExportEntries \/ ExportAgain

LEMMA ExportSteps ==
  ASSUME [ExportNext]_exportVars
  PROVE  \/ [Next]_vars /\ reader' = reader
         \/ ReaderStep /\ UNCHANGED vars
BY DEF ExportNext, exportVars, ReaderStep, VerifyLines, VerifyHead, ReadClaimed, VerifySignature,
       VerifyAnchor, ExportEntries, ExportAgain, To

LEMMA ExporterSteps == [ExportNext]_exportVars => [Next]_vars
BY ExportSteps

(* Verifying and exporting a log is no write to it: with an exporter beside *)
(* it the audit chain behaves as one without (sinks.py, verify_chain).      *)
THEOREM ExporterOnlyReads == ExportSpec => Spec
<1>1. ExportInit => Init
  BY DEF ExportInit
<1> QED BY <1>1, ExporterSteps, PTL DEF ExportSpec, Spec

-----------------------------------------------------------------------------
(* What the sink does while an export is under way.                        *)

(* A record that is still being written was not acknowledged.              *)
FreshInv == \A s \in Sink : pc[s] # "idle" => entry[s].rec \notin acked

(* The head covers every record that was acknowledged. *)
AckedInv ==
  Undamaged =>
    \A i \in Lines(log) : log.lines[i][1].rec \in acked => head # None /\ head.seq >= i - 1

SinkInv == AuditInv /\ KeptInv /\ ChainInv /\ VouchInv /\ FreshInv /\ AckedInv

LEMMA FreshNext ==
  ASSUME OneSink, AuditInv, FreshInv, [Next]_vars
  PROVE  FreshInv'
<1> SUFFICES ASSUME NEW s \in Sink, pc'[s] # "idle" PROVE entry'[s].rec \notin acked'
  BY DEF FreshInv
<1>1. /\ pc \in [Sink -> {"idle", "ready", "appended", "headed", "signed"}]
      /\ entry \in [Sink -> Entry \cup {None}] /\ acked \subseteq 1 .. asked /\ asked \in Nat
  BY RecordsAssumption DEF AuditInv, TypeOK
<1>2. ASSUME Begin(s) PROVE entry'[s].rec \notin acked'
  <2>1. entry'[s].rec = asked + 1 /\ acked' = acked
    BY <1>1, <1>2 DEF Begin, EntryAfter
  <2> QED BY <1>1, <2>1
<1>3. ASSUME ~Begin(s) PROVE pc[s] # "idle" /\ entry'[s] = entry[s] /\ acked' = acked
  BY <1>1, <1>3 DEF Next, OneSink, vars, AppendEntry, WriteHead, WriteSignature, WriteAnchor,
                    Abort, Restart, Return, Proceed
<1> QED BY <1>2, <1>3 DEF FreshInv

LEMMA AckedNext ==
  ASSUME OneSink, AuditInv, ChainInv, VouchInv, FreshInv, AckedInv, [Next]_vars
  PROVE  AckedInv'
<1> SUFFICES ASSUME Undamaged', NEW i \in Lines(log'), log'.lines[i][1].rec \in acked'
             PROVE  head' # None /\ head'.seq >= i - 1
  BY DEF AckedInv
<1>1. /\ Undamaged /\ LinesOK(log) /\ log \in FileOf(Entry) /\ log' \in FileOf(Entry)
      /\ pc \in [Sink -> {"idle", "ready", "appended", "headed", "signed"}]
      /\ \A s \in Sink : pc[s] # "idle" => entry[s] \in Entry
  BY WholeStep, FilesStay DEF ChainInv, Linked, AuditInv, TypeOK
<1>2. i \in Int /\ i <= Len(log'.lines) /\ Len(log.lines) \in Nat
  BY <1>1, FileFacts DEF Lines
<1>3. \/ head' = head /\ acked' = acked
      \/ \E s \in Sink : WriteHead(s) \/ WriteSignature(s) \/ WriteAnchor(s)
  BY DEF Next, vars, files, Begin, AppendEntry, Abort, Restart
<1>4. ASSUME NEW s \in Sink, WriteHead(s) \/ WriteSignature(s) \/ WriteAnchor(s)
      PROVE  head' # None /\ head'.seq >= i - 1
  <2>1. pc[s] \in {"appended", "headed", "signed"} /\ log' = log
    BY <1>4 DEF WriteHead, WriteSignature, WriteAnchor
  <2>2. head' = HeadOf(entry[s])
    BY <1>4, <2>1 DEF WriteHead, WriteSignature, WriteAnchor, VouchInv
  <2>3. entry[s] \in Entry /\ Len(log.lines) > 0 /\ entry[s] = log.lines[Len(log.lines)][1]
    BY <1>1, <2>1 DEF ChainInv, Linked
  <2>4. Len(log.lines) \in Lines(log)
    BY <1>2, <2>3 DEF Lines
  <2>5. entry[s].seq = Len(log.lines) - 1
    BY <1>1, <2>3, <2>4 DEF LinesOK, LineOK
  <2>6. head' # None /\ head'.seq = Len(log.lines) - 1
    BY <2>2, <2>3, <2>5, HeadType, Distinguished DEF HeadOf
  <2> QED BY <1>2, <2>1, <2>6
<1>5. ASSUME head' = head, acked' = acked, log' = log
      PROVE  head' # None /\ head'.seq >= i - 1
  BY <1>1, <1>5 DEF AckedInv
<1>6. ASSUME head' = head, acked' = acked, NEW s \in Sink, LogWrite(s),
             log'.lines = Longer(log, entry[s])
      PROVE  head' # None /\ head'.seq >= i - 1
  <2>1. entry[s] \in Entry /\ entry[s] = EntryAfter(HeadAt(log, Len(log.lines)), entry[s].rec)
    BY <1>1, <1>6 DEF LogWrite, ChainInv, Linked
  <2>2. /\ log'.lines[Len(log'.lines)] = <<entry[s]>>
        /\ \A k \in Lines(log) : log'.lines[k] = log.lines[k]
        /\ Lines(log') = Lines(log) \cup {Len(log'.lines)}
    BY <1>1, <1>6, <2>1, ChainGrows
  <2>3. entry[s].rec \notin acked
    BY <1>6 DEF FreshInv, LogWrite
  <2>4. i # Len(log'.lines)
    BY <1>6, <2>2, <2>3
  <2>5. i \in Lines(log) /\ log.lines[i][1].rec \in acked
    BY <1>6, <2>2, <2>4
  <2> QED BY <1>1, <1>6, <2>5 DEF AckedInv
<1> QED BY <1>3, <1>4, <1>5, <1>6, WholeStep

LEMMA SinkInvInit == Init => SinkInv
<1> SUFFICES ASSUME Init PROVE SinkInv
  OBVIOUS
<1>1. AuditInv /\ KeptInv /\ ChainInv /\ VouchInv
  BY AuditInit, KeptInit, ChainInit, VouchInit
<1>2. FreshInv /\ AckedInv
  BY DEF Init, FreshInv, AckedInv
<1> QED BY <1>1, <1>2 DEF SinkInv

LEMMA SinkInvNext ==
  ASSUME OneSink, SinkInv, [Next]_vars
  PROVE  SinkInv'
BY AuditNext, KeptNext, ChainNext, VouchNext, FreshNext, AckedNext DEF SinkInv

-----------------------------------------------------------------------------
(* The export keeps up with the log it has read.                            *)

Stages ==
  {"log", "head", "claimed", "signature", "anchor", "again", "exported"} \cup Refusals

Sighting == [asked : Nat, acked : SUBSET Record, settled : BOOLEAN]

ReaderType ==
  /\ reader \in [at : Stages, seen : FileOf(Entry), claimed : ChainHead \cup {None},
                 began : Sighting, events : Seq(Seq(Entry \cup {Cut}))]
  /\ reader.began.acked \subseteq acked
  /\ reader.at # "log" => reader.began.asked <= asked

(* What was verified is how the log begins. *)
Begins(f, g) == Len(g.lines) <= Len(f.lines) /\ \A i \in Lines(g) : f.lines[i] = g.lines[i]

FollowInv ==
  reader.at \notin {"log", "no_log", "bad_line"} =>
    /\ LinesOK(reader.seen)
    /\ Grown(log, reader.seen)
    /\ Undamaged => Begins(log, reader.seen)

LEMMA ReaderInit == ExportInit => ReaderType /\ FollowInv
<1> SUFFICES ASSUME ExportInit PROVE ReaderType /\ FollowInv
  OBVIOUS
<1>1. EmptyFile \in FileOf(Entry) /\ <<>> \in Seq(Seq(Entry \cup {Cut}))
  BY EmptyFileType, EmptySeq
<1>2. reader = Fresh /\ acked = {}
  BY DEF ExportInit, Init
<1>3. ReaderType
  BY <1>1, <1>2 DEF ReaderType, Fresh, Stages, Sighting
<1> QED BY <1>2, <1>3 DEF FollowInv, Fresh

LEMMA ReaderStarts ==
  ASSUME VerifyLines
  PROVE  /\ reader.at = "log" /\ UNCHANGED vars
         /\ reader'.at \in {"no_log", "head", "bad_line"}
         /\ reader'.at = "head" <=> log # EmptyFile /\ LinesOK(log)
         /\ reader'.began.settled => Settled
         /\ reader' = [at |-> reader'.at, seen |-> log, claimed |-> None,
                       began |-> [asked |-> asked, acked |-> acked, settled |-> Settled],
                       events |-> <<>>]
<1> DEFINE stage == IF log = EmptyFile THEN "no_log" ELSE IF LinesOK(log) THEN "head" ELSE "bad_line"
           sight == [asked |-> asked, acked |-> acked, settled |-> Settled]
<1> HIDE DEF stage, sight
<1>1. reader' = [Fresh EXCEPT !.at = stage, !.seen = log, !.began = sight]
  BY DEF VerifyLines, stage, sight
<1>2. reader' = [at |-> stage, seen |-> log, claimed |-> None, began |-> sight, events |-> <<>>]
  BY <1>1 DEF Fresh
<1>3. reader'.at = stage /\ reader'.began = sight
  BY <1>2
<1>4. reader'.began.settled => Settled
  BY <1>3 DEF sight
<1> QED BY <1>2, <1>3, <1>4 DEF VerifyLines, stage, sight

LEMMA ReaderTypeNext ==
  ASSUME AuditInv, ReaderType, [ExportNext]_exportVars
  PROVE  ReaderType'
<1>1. /\ log \in FileOf(Entry) /\ head \in ChainHead \cup {None} /\ asked \in Nat /\ acked \subseteq Record
      /\ EmptyFile \in FileOf(Entry) /\ <<>> \in Seq(Seq(Entry \cup {Cut}))
      /\ log.lines \in Seq(Seq(Entry \cup {Cut}))
  BY EmptyFileType, EmptySeq, FileFacts, RecordsAssumption DEF AuditInv, TypeOK
<1>2. ASSUME [Next]_vars, reader' = reader
      PROVE  ReaderType'
  <2>1. asked <= asked' /\ asked' \in Nat /\ acked \subseteq acked'
    BY <1>1, <1>2 DEF Next, vars, Begin, AppendEntry, WriteHead, WriteSignature, WriteAnchor,
                      Abort, Restart, Return, Proceed
  <2> QED BY <1>1, <1>2, <2>1 DEF ReaderType, Sighting
<1>3. ASSUME UNCHANGED vars, VerifyLines
      PROVE  ReaderType'
  <2>1. [asked |-> asked, acked |-> acked, settled |-> Settled] \in Sighting
    BY <1>1 DEF Sighting, Settled
  <2> DEFINE sight == [asked |-> asked, acked |-> acked, settled |-> Settled]
  <2>2. /\ reader' = [at |-> reader'.at, seen |-> log, claimed |-> None, began |-> sight, events |-> <<>>]
        /\ reader'.at \in Stages
    BY <1>3, ReaderStarts DEF Stages, Refusals
  <2>3. sight.acked = acked /\ sight.asked = asked /\ reader'.began = sight
    BY <2>2
  <2> HIDE DEF sight
  <2>4. acked' = acked /\ asked' = asked /\ None \in ChainHead \cup {None} /\ asked <= asked
    BY <1>1, <1>3 DEF vars
  <2>5. sight \in Sighting
    BY <2>1 DEF sight
  <2>6. reader' \in [at : Stages, seen : FileOf(Entry), claimed : ChainHead \cup {None},
                     began : Sighting, events : Seq(Seq(Entry \cup {Cut}))]
    <3> DEFINE E == Seq(Seq(Entry \cup {Cut}))
               F == FileOf(Entry)
               H == ChainHead \cup {None}
    <3>1. PICK st \in Stages :
            reader' = [at |-> st, seen |-> log, claimed |-> None, began |-> sight, events |-> <<>>]
      BY <2>2
    <3>2. <<>> \in E /\ log \in F /\ None \in H
      BY <1>1
    <3> HIDE DEF E, F, H
    <3>3. reader' \in [at : Stages, seen : F, claimed : H, began : Sighting, events : E]
      BY <2>5, <3>1, <3>2
    <3> QED BY <3>3 DEF E, F, H
  <2>7. reader'.began.acked = acked /\ reader'.began.asked = asked
    BY <2>3
  <2> QED BY <1>1, <2>4, <2>6, <2>7 DEF ReaderType
<1>4. ASSUME UNCHANGED vars, VerifyHead
      PROVE  ReaderType'
  BY <1>4 DEF ReaderType, VerifyHead, To, Stages, Refusals, vars
<1>5. ASSUME UNCHANGED vars, ReadClaimed
      PROVE  ReaderType'
  BY <1>1, <1>5 DEF ReaderType, ReadClaimed, Stages, Refusals, vars
<1>6. ASSUME UNCHANGED vars, VerifySignature \/ VerifyAnchor
      PROVE  ReaderType'
  BY <1>6 DEF ReaderType, VerifySignature, VerifyAnchor, To, Stages, Refusals, vars
<1>7. ASSUME UNCHANGED vars, ExportEntries
      PROVE  ReaderType'
  BY <1>1, <1>7 DEF ReaderType, ExportEntries, Stages, Refusals, vars
<1>8. ASSUME UNCHANGED vars, ExportAgain
      PROVE  ReaderType'
  BY <1>1, <1>8 DEF ReaderType, ExportAgain, Fresh, Stages, Sighting, vars
<1> QED BY <1>2, <1>3, <1>4, <1>5, <1>6, <1>7, <1>8, ExportSteps DEF ReaderStep

(* Between the two readings of the log an export keeps what it read first. *)
LEMMA ReaderMoves ==
  ASSUME ReaderType, ReaderStep, ~VerifyLines, ~ExportAgain
  PROVE  /\ reader'.seen = reader.seen /\ reader'.began = reader.began
         /\ reader.at \in {"head", "claimed", "signature", "anchor", "again"}
         /\ ~ExportEntries => reader'.at # "exported" /\ reader'.events = reader.events
<1>1. DOMAIN reader = {"at", "seen", "claimed", "began", "events"}
  BY DEF ReaderType
<1>2. VerifyHead \/ ReadClaimed \/ VerifySignature \/ VerifyAnchor \/ ExportEntries
  BY DEF ReaderStep
<1>3. CASE VerifyHead
  BY <1>1, <1>3 DEF VerifyHead, To
<1>4. CASE ReadClaimed
  BY <1>1, <1>4 DEF ReadClaimed
<1>5. CASE VerifySignature
  BY <1>1, <1>5 DEF VerifySignature, To
<1>6. CASE VerifyAnchor
  BY <1>1, <1>6 DEF VerifyAnchor, To
<1>7. CASE ExportEntries
  BY <1>1, <1>7 DEF ExportEntries
<1> QED BY <1>2, <1>3, <1>4, <1>5, <1>6, <1>7

LEMMA FollowNext ==
  ASSUME SinkInv, ReaderType, FollowInv, [ExportNext]_exportVars
  PROVE  FollowInv'
<1> SUFFICES ASSUME reader'.at \notin {"log", "no_log", "bad_line"}
             PROVE  /\ LinesOK(reader'.seen)
                    /\ Grown(log', reader'.seen)
                    /\ Undamaged' => Begins(log', reader'.seen)
  BY DEF FollowInv
<1>1. AuditInv /\ log \in FileOf(Entry) /\ reader.seen \in FileOf(Entry)
  BY DEF SinkInv, AuditInv, TypeOK, ReaderType
<1>2. CASE [Next]_vars /\ reader' = reader
  <2>1. Grown(log', log) /\ log' \in FileOf(Entry)
    BY <1>1, <1>2, FilesStay
  <2>2. LinesOK(reader'.seen) /\ Grown(log, reader.seen)
    BY <1>2 DEF FollowInv
  <2>3. Grown(log', reader'.seen)
    BY <1>1, <1>2, <2>1, <2>2, GrownAgain
  <2>4. ASSUME Undamaged'
        PROVE  Begins(log', reader'.seen)
    <3>1. Undamaged /\ Begins(log, reader.seen)
      BY <1>1, <1>2, <2>4, WholeStep DEF FollowInv
    <3>2. CASE log' = log
      BY <1>2, <3>1, <3>2
    <3>3. ASSUME NEW s \in Sink, LogWrite(s), log'.lines = Longer(log, entry[s])
          PROVE  Begins(log', reader'.seen)
      <4>1. /\ Len(log'.lines) = Len(log.lines) + 1
            /\ \A i \in Lines(log) : log'.lines[i] = log.lines[i]
        <5>1. LinesOK(log) /\ entry[s] \in Entry
              /\ entry[s] = EntryAfter(HeadAt(log, Len(log.lines)), entry[s].rec)
          BY <3>1, <3>3 DEF SinkInv, ChainInv, Linked, LogWrite
        <5> QED BY <1>1, <2>1, <3>3, <5>1, ChainGrows
      <4>2. \A i \in Lines(reader.seen) : i \in Lines(log)
        BY <1>1, <3>1, FileFacts DEF Begins, Lines
      <4>3. Len(reader.seen.lines) \in Nat /\ Len(log.lines) \in Nat
        BY <1>1, FileFacts
      <4> QED BY <1>2, <3>1, <4>1, <4>2, <4>3 DEF Begins
    <3> QED BY <1>1, <1>2, <2>4, <3>2, <3>3, WholeStep
  <2> QED BY <2>2, <2>3, <2>4, <1>2
<1>3. ASSUME UNCHANGED vars, VerifyLines
      PROVE  LinesOK(reader'.seen) /\ reader'.seen = log
  BY <1>3 DEF VerifyLines, Fresh
<1>4. Grown(log, log) /\ Begins(log, log)
  BY <1>1, FileFacts DEF Grown, Begins
<1>5. ASSUME UNCHANGED vars, ReaderStep, ~VerifyLines
      PROVE  reader'.seen = reader.seen /\ reader.at \notin {"log", "no_log", "bad_line"}
  <2>1. ~ExportAgain
    BY DEF ExportAgain, Fresh
  <2> QED BY <1>5, <2>1, ReaderMoves
<1>6. UNCHANGED vars => log' = log /\ (Undamaged' <=> Undamaged)
  BY DEF vars, files, Undamaged
<1> QED BY <1>2, <1>3, <1>4, <1>5, <1>6, ExportSteps DEF FollowInv

-----------------------------------------------------------------------------
(* What an export may say.                                                  *)

LEMMA SoundNext ==
  ASSUME SinkInv, ReaderType, FollowInv, ExportSound, [ExportNext]_exportVars
  PROVE  ExportSound'
<1> SUFFICES ASSUME reader'.at = "exported"
             PROVE  /\ SubSeq(reader'.events, 1, Len(reader'.seen.lines)) = reader'.seen.lines
                    /\ LinesOK([lines |-> reader'.events, open |-> FALSE])
                    /\ \A r \in reader'.began.acked :
                         \E i \in DOMAIN reader'.events : reader'.events[i][1].rec = r
  BY DEF ExportSound
<1>1. CASE reader' = reader
  BY <1>1 DEF ExportSound
<1>2. ASSUME reader' # reader
      PROVE  /\ ExportEntries /\ UNCHANGED vars /\ Undamaged /\ reader.at = "again"
             /\ reader' = [reader EXCEPT !.at = "exported", !.events = log.lines]
  <2>1. ReaderStep /\ UNCHANGED vars
    BY <1>2, ExportSteps
  <2>2. ~VerifyLines /\ ~ExportAgain
    BY ReaderStarts DEF ExportAgain, Fresh
  <2>3. ExportEntries
    BY <2>1, <2>2, ReaderMoves
  <2>4. "at" \in DOMAIN reader
    BY DEF ReaderType
  <2>5. reader' # [reader EXCEPT !.at = "torn"]
    BY <2>4
  <2> QED BY <2>1, <2>3, <2>5 DEF ExportEntries, Undamaged
<1>3. CASE reader' # reader
  <2>1. /\ reader'.events = log.lines /\ reader'.seen = reader.seen /\ reader'.began = reader.began
    BY <1>2, <1>3 DEF ReaderType
  <2>2. /\ log \in FileOf(Entry) /\ reader.seen \in FileOf(Entry)
        /\ LinesOK(log) /\ Begins(log, reader.seen)
    BY <1>2, <1>3 DEF SinkInv, AuditInv, TypeOK, ReaderType, ChainInv, Linked, FollowInv
  <2>3. SubSeq(log.lines, 1, Len(reader.seen.lines)) = reader.seen.lines
    <3> DEFINE L == Seq(Entry \cup {Cut})
               n == Len(reader.seen.lines)
    <3>1. log.lines \in Seq(L) /\ reader.seen.lines \in Seq(L) /\ n \in 0 .. Len(log.lines)
      BY <2>2, FileFacts DEF Begins
    <3>2. \A i \in 1 .. n : log.lines[i] = reader.seen.lines[i]
      BY <2>2 DEF Begins, Lines
    <3> HIDE DEF L
    <3>3. /\ SubSeq(log.lines, 1, n) \in Seq(L) /\ Len(SubSeq(log.lines, 1, n)) = n
          /\ \A i \in 1 .. n : SubSeq(log.lines, 1, n)[i] = log.lines[i]
      BY <3>1
    <3> QED BY <3>1, <3>2, <3>3, SeqEqual
  <2>4. LinesOK([lines |-> log.lines, open |-> FALSE])
    BY <2>2 DEF LinesOK, LineOK, HeadAt, Lines
  <2>5. ASSUME NEW r \in reader.began.acked
        PROVE  \E i \in DOMAIN log.lines : log.lines[i][1].rec = r
    <3>1. PICK e \in Fragments(log) : e # Cut /\ e.rec = r
      BY <2>5 DEF SinkInv, KeptInv, ReaderType
    <3>2. PICK i \in Lines(log) : \E j \in 1 .. Len(log.lines[i]) : e = log.lines[i][j]
      BY <3>1, InFragments
    <3>3. Len(log.lines[i]) = 1
      BY <2>2 DEF LinesOK, LineOK, Readable
    <3>4. e = log.lines[i][1] /\ i \in DOMAIN log.lines
      <4>1. DOMAIN log.lines = Lines(log)
        BY <2>2, FileFacts
      <4> QED BY <3>2, <3>3, <4>1
    <3> QED BY <3>1, <3>4
  <2> QED BY <2>1, <2>3, <2>4, <2>5
<1> QED BY <1>1, <1>3

(* What is exported begins with what was verified, is one chain past it,    *)
(* and has every decision acknowledged before the export began, however the *)
(* sink went on meanwhile (sinks.py:10).                                   *)
THEOREM ExportsAreSound ==
  ASSUME OneSink
  PROVE  ExportSpec => []ExportSound
<1>1. ExportInit => Init /\ ExportSound
  BY DEF ExportInit, Fresh, ExportSound
<1>2. SinkInv /\ [ExportNext]_exportVars => SinkInv'
  BY SinkInvNext, ExporterSteps
<1>3. SinkInv /\ ReaderType /\ FollowInv /\ [ExportNext]_exportVars => ReaderType' /\ FollowInv'
  BY ReaderTypeNext, FollowNext DEF SinkInv
<1>4. SinkInv /\ ReaderType /\ FollowInv /\ ExportSound /\ [ExportNext]_exportVars => ExportSound'
  BY SoundNext
<1> QED BY <1>1, <1>2, <1>3, <1>4, SinkInvInit, ReaderInit, PTL DEF ExportSpec

-----------------------------------------------------------------------------
(* Why an export may be refused.                                            *)

HeadCause ==
  reader.at = "bad_head" =>
    \/ log # reader.seen
    \/ LET n == Len(reader.seen.lines) IN n > 1 /\ Unreturned(n) /\ Unreturned(n - 1)

(* While nothing is recorded, a log at rest stays as it was when the export *)
(* began, and every check of it succeeds.                                   *)
AtRest ==
  reader.at # "log" /\ reader.began.settled /\ asked = reader.began.asked =>
    /\ \A s \in Sink : pc[s] = "idle"
    /\ head # None /\ Verifies(log, head, sig, anchor) /\ log # EmptyFile
    /\ log = reader.seen
    /\ reader.at \in {"signature", "anchor"} => reader.claimed = head
    /\ reader.at \notin Refusals

LEMMA HeadCauseNext ==
  ASSUME SinkInv, ReaderType, FollowInv, HeadCause, [ExportNext]_exportVars
  PROVE  HeadCause'
<1> DEFINE Cause == LET n == Len(reader.seen.lines) IN n > 1 /\ Unreturned(n) /\ Unreturned(n - 1)
<1> SUFFICES ASSUME reader'.at = "bad_head" PROVE log' # reader'.seen \/ Cause'
  BY DEF HeadCause
<1>1. AuditInv /\ log \in FileOf(Entry) /\ reader.seen \in FileOf(Entry)
  BY DEF SinkInv, AuditInv, TypeOK, ReaderType
<1>2. CASE [Next]_vars /\ reader' = reader
  <2>1. log # reader.seen \/ Cause
    BY <1>2 DEF HeadCause
  <2>2. Grown(log', log) /\ log' \in FileOf(Entry) /\ Grown(log, reader.seen)
    BY <1>1, <1>2, FilesStay DEF FollowInv
  <2>3. log # reader.seen => log' # reader.seen
    BY <1>1, <2>2, GrownAgain
  <2> QED BY <1>2, <2>1, <2>3 DEF Unreturned
<1>3. ASSUME ReaderStep, UNCHANGED vars
      PROVE  log' # reader'.seen \/ Cause'
  <2>1. ~VerifyLines /\ ~ExportAgain
    BY ReaderStarts DEF ExportAgain, Fresh
  <2>2. reader'.seen = reader.seen /\ reader'.began = reader.began /\ log' = log
    BY <1>3, <2>1, ReaderMoves DEF vars, files
  <2>3. VerifyHead \/ ReadClaimed \/ VerifySignature \/ VerifyAnchor \/ ExportEntries
    BY <1>3, <2>1 DEF ReaderStep
  <2>4. "at" \in DOMAIN reader
    BY DEF ReaderType
  <2>5. VerifyHead /\ ~HeadAgrees(reader.seen, head)
    <3>1. ~ReadClaimed
      BY <2>4 DEF ReadClaimed
    <3>2. ~VerifySignature /\ ~VerifyAnchor
      BY <2>4 DEF VerifySignature, VerifyAnchor, To
    <3>3. ~ExportEntries
      BY <2>4 DEF ExportEntries
    <3>4. VerifyHead
      BY <2>3, <3>1, <3>2, <3>3
    <3> QED BY <2>4, <3>4 DEF VerifyHead, To
  <2>6. ASSUME log = reader.seen
        PROVE  Cause
    <3> DEFINE n == Len(log.lines)
    <3>1. reader.at \notin {"log", "no_log", "bad_line"}
      BY <2>5 DEF VerifyHead
    <3>2. LinesOK(log) /\ head # None /\ n \in Nat
      BY <1>1, <2>5, <2>6, <3>1, FileFacts DEF FollowInv, HeadAgrees
    <3>3. Undamaged
      BY <3>2 DEF Undamaged, LinesOK, LineOK
    <3>4. PICK k \in Lines(log) : head = HeadAt(log, k) /\ head.seq = k - 1
      BY <1>1, <3>2, KeptHead DEF SinkInv, KeptInv
    <3>5. k \in 1 .. n /\ k # n /\ k # n - 1
      BY <2>5, <2>6, <3>2, <3>4 DEF HeadAgrees, Lines
    <3>6. \A i \in Lines(log) : i > k => log.lines[i][1].rec \notin acked
      BY <3>2, <3>3, <3>4, <3>5 DEF SinkInv, AckedInv, Lines
    <3>7. n \in Lines(log) /\ n - 1 \in Lines(log) /\ n > 1 /\ n > k /\ n - 1 > k
      BY <3>2, <3>5 DEF Lines
    <3> QED BY <2>6, <3>6, <3>7 DEF Unreturned, ReaderType
  <2> QED BY <2>2, <2>6 DEF Unreturned
<1> QED BY <1>2, <1>3, ExportSteps

LEMMA AtRestNext ==
  ASSUME OneSink, SinkInv, ReaderType, AtRest, [ExportNext]_exportVars
  PROVE  AtRest'
<1> DEFINE Passes ==
      /\ \A s \in Sink : pc'[s] = "idle"
      /\ head' # None /\ Verifies(log', head', sig', anchor') /\ log' # EmptyFile
      /\ log' = reader'.seen
      /\ reader'.at \in {"signature", "anchor"} => reader'.claimed = head'
      /\ reader'.at \notin Refusals
<1> SUFFICES ASSUME reader'.at # "log", reader'.began.settled, asked' = reader'.began.asked
             PROVE  Passes
  BY DEF AtRest
<1>1. AuditInv
  BY DEF SinkInv
<1>2. CASE [Next]_vars /\ reader' = reader
  <2>1. asked \in Nat /\ reader.began.asked \in Nat /\ reader.began.asked <= asked
    BY <1>1, <1>2, RecordsAssumption DEF AuditInv, TypeOK, ReaderType, Sighting
  <2>2. asked <= asked' /\ asked' \in Nat
    BY <1>2, <2>1 DEF Next, vars, Begin, AppendEntry, WriteHead, WriteSignature, WriteAnchor,
                      Abort, Restart
  <2>3. asked' = asked /\ asked = reader.began.asked
    BY <1>2, <2>1, <2>2
  <2>4. /\ \A s \in Sink : pc[s] = "idle"
        /\ head # None /\ Verifies(log, head, sig, anchor) /\ log # EmptyFile /\ log = reader.seen
        /\ reader.at \in {"signature", "anchor"} => reader.claimed = head
        /\ reader.at \notin Refusals
    BY <1>2, <2>3 DEF AtRest
  <2>5. UNCHANGED <<files, pc>>
    BY <1>2, <2>1, <2>3, <2>4 DEF Next, vars, Begin, AppendEntry, WriteHead, WriteSignature,
                                  WriteAnchor, Abort, Restart
  <2> QED BY <1>2, <2>4, <2>5 DEF files
<1>3. ASSUME ReaderStep, UNCHANGED vars
      PROVE  Passes
  <2>1. UNCHANGED <<log, head, sig, anchor, pc, asked>>
    BY <1>3 DEF vars, files
  <2>2. CASE VerifyLines
    <3>1. /\ reader'.seen = log /\ Settled
          /\ reader'.at \in {"no_log", "head", "bad_line"}
          /\ reader'.at = "head" <=> log # EmptyFile /\ LinesOK(log)
      BY <2>2, ReaderStarts
    <3>2. /\ Undamaged /\ \A i \in Lines(anchor) : Readable(anchor.lines[i])
          /\ \A s \in Sink : pc[s] = "idle"
      BY <3>1 DEF Settled, Undamaged
    <3>3. PICK s \in Sink : cached[s] # None
      BY <3>1 DEF Settled
    <3>4. LinesOK(log) /\ head # None
      BY <3>2, <3>3 DEF SinkInv, ChainInv, Linked, VouchInv
    <3>5. Verifies(log, head, sig, anchor)
      BY <3>2, <3>3, VerifiesAtRest DEF SinkInv, ReturnVerifies
    <3>6. log # EmptyFile
      <4>1. PICK k \in Lines(log) : head = HeadAt(log, k)
        BY <1>1, <3>4, KeptHead DEF SinkInv, KeptInv
      <4> QED BY <4>1 DEF EmptyFile, Lines
    <3> QED BY <2>1, <3>1, <3>2, <3>4, <3>5, <3>6 DEF Refusals
  <2>3. CASE ExportAgain
    BY <2>3 DEF ExportAgain, Fresh
  <2>4. ASSUME ~VerifyLines, ~ExportAgain
        PROVE  Passes
    <3>1. /\ reader'.seen = reader.seen /\ reader'.began = reader.began
          /\ reader.at \in {"head", "claimed", "signature", "anchor", "again"}
      BY <1>3, <2>4, ReaderMoves
    <3>2. /\ \A s \in Sink : pc[s] = "idle"
          /\ head # None /\ Verifies(log, head, sig, anchor) /\ log # EmptyFile /\ log = reader.seen
          /\ reader.at \in {"signature", "anchor"} => reader.claimed = head
      BY <2>1, <3>1 DEF AtRest
    <3>3. "at" \in DOMAIN reader /\ "claimed" \in DOMAIN reader
      BY DEF ReaderType
    <3>4. reader'.at \notin Refusals /\ (reader'.at \in {"signature", "anchor"} => reader'.claimed = head)
      <4>1. CASE VerifyHead
        <5>1. HeadAgrees(reader.seen, head)
          BY <3>2 DEF Verifies, ChainOK
        <5>2. reader'.at \in {"claimed", "again"}
          BY <3>3, <4>1, <5>1 DEF VerifyHead, To
        <5> QED BY <5>2 DEF Refusals
      <4>2. CASE ReadClaimed
        <5>1. reader'.at = "signature" /\ reader'.claimed = head
          BY <3>2, <3>3, <4>2 DEF ReadClaimed
        <5> QED BY <5>1 DEF Refusals
      <4>3. CASE VerifySignature
        <5>1. SignatureOK(reader.claimed, sig)
          BY <3>2, <4>3 DEF Verifies, VerifySignature
        <5>2. reader'.at \in {"anchor", "again"} /\ reader'.claimed = head
          BY <3>2, <3>3, <4>3, <5>1 DEF VerifySignature, To
        <5> QED BY <5>2 DEF Refusals
      <4>4. CASE VerifyAnchor
        <5>1. AnchorOK(anchor, reader.claimed)
          BY <3>2, <4>4 DEF Verifies, VerifyAnchor
        <5>2. reader'.at = "again"
          BY <3>3, <4>4, <5>1 DEF VerifyAnchor, To
        <5> QED BY <5>2 DEF Refusals
      <4>5. CASE ExportEntries
        <5>1. \A i \in Lines(log) : Readable(log.lines[i])
          BY <3>2 DEF Verifies, ChainOK, LinesOK, LineOK
        <5>2. reader'.at = "exported"
          BY <3>3, <4>5, <5>1 DEF ExportEntries
        <5> QED BY <5>2 DEF Refusals
      <4> QED BY <1>3, <2>4, <4>1, <4>2, <4>3, <4>4, <4>5 DEF ReaderStep
    <3> QED BY <2>1, <3>1, <3>2, <3>4
  <2> QED BY <2>2, <2>3, <2>4
<1> HIDE DEF Passes
<1> QED BY <1>2, <1>3, ExportSteps

(* A verifier that takes no lock refuses a log only for a cause: the log    *)
(* changed under it, or two appends stopped before the head; a log at rest  *)
(* that nothing is added to is exported (sinks.py, verify_chain).           *)
THEOREM RefusalsHaveACause ==
  ASSUME OneSink
  PROVE  ExportSpec => []RefusedForCause
<1>1. ExportInit => Init /\ HeadCause /\ AtRest
  BY DEF ExportInit, Fresh, HeadCause, AtRest
<1>2. SinkInv /\ [ExportNext]_exportVars => SinkInv'
  BY SinkInvNext, ExporterSteps
<1>3. SinkInv /\ ReaderType /\ FollowInv /\ [ExportNext]_exportVars => ReaderType' /\ FollowInv'
  BY ReaderTypeNext, FollowNext DEF SinkInv
<1>4. SinkInv /\ ReaderType /\ FollowInv /\ HeadCause /\ AtRest /\ [ExportNext]_exportVars
        => HeadCause' /\ AtRest'
  BY HeadCauseNext, AtRestNext
<1>5. SinkInv /\ ReaderType /\ HeadCause /\ AtRest => RefusedForCause
  <2> SUFFICES ASSUME SinkInv, ReaderType, HeadCause, AtRest PROVE RefusedForCause
    OBVIOUS
  <2>1. ASSUME reader.at \in Refusals, reader.began.settled
        PROVE  asked > reader.began.asked
    <3>1. reader.at # "log"
      BY <2>1 DEF Refusals
    <3>2. asked \in Nat /\ reader.began.asked \in Nat /\ reader.began.asked <= asked
      BY <3>1, RecordsAssumption DEF SinkInv, AuditInv, TypeOK, ReaderType, Sighting
    <3> QED BY <2>1, <3>1, <3>2 DEF AtRest
  <2> QED BY <2>1 DEF RefusedForCause, HeadCause
<1> QED BY <1>1, <1>2, <1>3, <1>4, <1>5, SinkInvInit, ReaderInit, PTL DEF ExportSpec
=============================================================================
