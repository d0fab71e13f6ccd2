------------------------------ MODULE AuditChain ------------------------------
(***************************************************************************)
(* The hash-chained audit log of audit/chain.py: the JSONL file, its .head *)
(* and .head.sig sidecars, the external anchor log, the sinks that append  *)
(* to them and the verifier.  A sink is one AuditChainSink object: its     *)
(* lock admits one append at a time, and each file operation of an append  *)
(* is a step of its own.                                                   *)
(*                                                                         *)
(* A hash is the sequence of records it covers, a signature the head it    *)
(* signs: both are collision-free and verifiable, and nothing else of them *)
(* is used.                                                                *)
(***************************************************************************)
EXTENDS Integers, Sequences

CONSTANTS
  Sink,        \* AuditChainSink objects on one path
  HasKey,      \* head_signing_key is given
  HasAnchor,   \* anchor_path is given
  MaxRecords   \* bound on the decisions recorded

ASSUME AnchorAssumption == HasKey \in BOOLEAN /\ HasAnchor \in BOOLEAN /\ (HasAnchor => HasKey)
ASSUME RecordsAssumption == MaxRecords \in Nat

Record == 1 .. MaxRecords

Hash == Seq(Record)

Genesis == <<>>

EntryHash(prev, rec) == Append(prev, rec)

Entry == [seq : Nat, prev : Hash, rec : Record, hash : Hash]

ChainHead == [seq : Int, hash : Hash]

StartHead == [seq |-> -1, hash |-> Genesis]

HeadOf(e) == [seq |-> e.seq, hash |-> e.hash]

(* A file or a cache that holds nothing; a line cut before its JSON ends.  *)
None == [none |-> TRUE]

Cut == [cut |-> TRUE]

-----------------------------------------------------------------------------
(* A line is the sequence of fragments between two newlines: one, unless a *)
(* write that lost its newline was followed by another.  open says that    *)
(* the last line has no newline yet.                                       *)

EmptyFile == [lines |-> <<>>, open |-> FALSE]

FileOf(S) == [lines : Seq(Seq(S \cup {Cut})), open : BOOLEAN]

Put(f, x, terminated) ==
  LET n == Len(f.lines)
  IN  [lines |-> IF f.open THEN [f.lines EXCEPT ![n] = Append(@, x)]
                 ELSE Append(f.lines, <<x>>),
       open |-> ~terminated]

(* durable_append_line *)
Appended(f, x) == Put(f, x, TRUE)

(* What an append that raised, or that a crash cut short, may leave behind. *)
Interrupted(f, x) == {f, Put(f, Cut, FALSE), Put(f, x, FALSE), Put(f, x, TRUE)}

Readable(line) == Len(line) = 1 /\ line[1] # Cut

Lines(f) == 1 .. Len(f.lines)

-----------------------------------------------------------------------------
(* verify_chain, on the contents of the four files. *)

(* The head that verification of the first n lines arrives at. *)
HeadAt(f, n) == IF n = 0 THEN StartHead ELSE HeadOf(f.lines[n][1])

LineOK(f, i) ==
  LET e == f.lines[i][1]
  IN  /\ Readable(f.lines[i])
      /\ e.seq = i - 1
      /\ e.prev = HeadAt(f, i - 1).hash
      /\ e.hash = EntryHash(e.prev, e.rec)

LinesOK(f) == \A i \in Lines(f) : LineOK(f, i)

(* Mutant: the head sidecar is trusted to lag by any number of entries, and *)
(* to lead.                                                                *)
HeadTrusted(f, hd) == TRUE

(* Mutant: a head that lags is a truncated tail. *)
HeadExact(f, hd) == hd = None \/ hd = HeadAt(f, Len(f.lines))

(* The head may lag by one entry, the recoverable crash window. *)
HeadAgrees(f, hd) ==
  LET n == Len(f.lines)
  IN  hd = None \/ hd = HeadAt(f, n) \/ (n > 0 /\ hd = HeadAt(f, n - 1))

ChainOK(f, hd) == LinesOK(f) /\ HeadAgrees(f, hd)

SignatureOK(hd, sg) == HasKey => hd # None /\ sg = hd

(* Mutant: any anchored head will do, not only the latest. *)
AnchoredEver(an, hd) ==
  HasAnchor => \E i \in Lines(an) : Readable(an.lines[i]) /\ an.lines[i][1] = hd

AnchorOK(an, hd) ==
  LET n == Len(an.lines)
  IN  HasAnchor => n > 0 /\ Readable(an.lines[n]) /\ an.lines[n][1] = hd

Verifies(f, hd, sg, an) == ChainOK(f, hd) /\ SignatureOK(hd, sg) /\ AnchorOK(an, hd)

-----------------------------------------------------------------------------
VARIABLES
  log,      \* the JSONL file
  head,     \* the .head sidecar
  sig,      \* the .head.sig sidecar
  anchor,   \* the anchor log
  cached,   \* _cached_head of each sink
  pc,       \* how far each sink's append is
  entry,    \* the entry it writes
  asked,    \* number of records handed to a sink
  acked     \* history: records whose append returned

files == <<log, head, sig, anchor>>

vars == <<files, cached, pc, entry, asked, acked>>

TypeOK ==
  /\ log \in FileOf(Entry)
  /\ head \in ChainHead \cup {None}
  /\ sig \in ChainHead \cup {None}
  /\ anchor \in FileOf(ChainHead)
  /\ cached \in [Sink -> ChainHead \cup {None}]
  /\ pc \in [Sink -> {"idle", "ready", "appended", "headed", "signed"}]
  /\ entry \in [Sink -> Entry \cup {None}]
  /\ \A s \in Sink : pc[s] = "idle" <=> entry[s] = None
  /\ asked \in 0 .. MaxRecords
  /\ acked \in SUBSET Record

Init ==
  /\ log = EmptyFile /\ head = None /\ sig = None /\ anchor = EmptyFile
  /\ cached = [s \in Sink |-> None]
  /\ pc = [s \in Sink |-> "idle"]
  /\ entry = [s \in Sink |-> None]
  /\ asked = 0
  /\ acked = {}

EntryAfter(hd, rec) ==
  [seq |-> hd.seq + 1, prev |-> hd.hash, rec |-> rec, hash |-> EntryHash(hd.hash, rec)]

(* _last can parse the last line; if not, the call raises and nothing has  *)
(* changed.                                                                *)
LastParses == Len(log.lines) > 0 => Readable(log.lines[Len(log.lines)])

(* The call takes the lock, finds the current head and builds its entry.   *)
Begin(s) ==
  /\ pc[s] = "idle"
  /\ asked < MaxRecords
  /\ asked' = asked + 1
  /\ \/ cached[s] # None /\ UNCHANGED cached
     \/ /\ cached[s] = None /\ LastParses
        /\ cached' = [cached EXCEPT ![s] = HeadAt(log, Len(log.lines))]
  /\ entry' = [entry EXCEPT ![s] = EntryAfter(cached'[s], asked')]
  /\ pc' = [pc EXCEPT ![s] = "ready"]
  /\ UNCHANGED <<files, acked>>

AppendEntry(s) ==
  /\ pc[s] = "ready"
  /\ log' = Appended(log, entry[s])
  /\ pc' = [pc EXCEPT ![s] = "appended"]
  /\ UNCHANGED <<head, sig, anchor, cached, entry, asked, acked>>

(* The call returns: the decision it records may take effect.              *)
Return(s) ==
  /\ cached' = [cached EXCEPT ![s] = HeadOf(entry[s])]
  /\ acked' = acked \cup {entry[s].rec}
  /\ entry' = [entry EXCEPT ![s] = None]
  /\ pc' = [pc EXCEPT ![s] = "idle"]

Proceed(s, next) ==
  /\ pc' = [pc EXCEPT ![s] = next]
  /\ UNCHANGED <<cached, entry, acked>>

(* Mutant: the head is replaced before the entry is on disk.                *)
WriteHeadFirst(s) ==
  /\ pc[s] \in {"ready", "appended"}
  /\ head' = HeadOf(entry[s])
  /\ IF pc[s] = "ready" THEN UNCHANGED <<pc, cached, entry, acked>>
     ELSE IF HasKey THEN Proceed(s, "headed") ELSE Return(s)
  /\ UNCHANGED <<log, sig, anchor, asked>>

WriteHead(s) ==
  /\ pc[s] = "appended"
  /\ head' = HeadOf(entry[s])
  /\ IF HasKey THEN Proceed(s, "headed") ELSE Return(s)
  /\ UNCHANGED <<log, sig, anchor, asked>>

(* Mutant: the signature is taken of the head the append started from.      *)
WriteOldSignature(s) ==
  /\ pc[s] = "headed"
  /\ sig' = cached[s]
  /\ IF HasAnchor THEN Proceed(s, "signed") ELSE Return(s)
  /\ UNCHANGED <<log, head, anchor, asked>>

WriteSignature(s) ==
  /\ pc[s] = "headed"
  /\ sig' = HeadOf(entry[s])
  /\ IF HasAnchor THEN Proceed(s, "signed") ELSE Return(s)
  /\ UNCHANGED <<log, head, anchor, asked>>

WriteAnchor(s) ==
  /\ pc[s] = "signed"
  /\ anchor' = Appended(anchor, HeadOf(entry[s]))
  /\ Return(s)
  /\ UNCHANGED <<log, head, sig, asked>>

(* Mutant: the cached head survives a write that failed.                    *)
AbortKeepingCache(s) ==
  /\ pc[s] # "idle"
  /\ IF pc[s] = "ready" THEN log' \in Interrupted(log, entry[s]) ELSE UNCHANGED log
  /\ IF pc[s] = "signed" THEN anchor' \in Interrupted(anchor, HeadOf(entry[s]))
     ELSE UNCHANGED anchor
  /\ entry' = [entry EXCEPT ![s] = None]
  /\ pc' = [pc EXCEPT ![s] = "idle"]
  /\ UNCHANGED <<head, sig, cached, asked, acked>>

(* A write raises, or the process dies and a new sink takes its place: an   *)
(* append to a file may be cut, a replaced file is the old or the new one.  *)
Abort(s) ==
  /\ pc[s] # "idle"
  /\ IF pc[s] = "ready" THEN log' \in Interrupted(log, entry[s]) ELSE UNCHANGED log
  /\ IF pc[s] = "signed" THEN anchor' \in Interrupted(anchor, HeadOf(entry[s]))
     ELSE UNCHANGED anchor
  /\ cached' = [cached EXCEPT ![s] = None]
  /\ entry' = [entry EXCEPT ![s] = None]
  /\ pc' = [pc EXCEPT ![s] = "idle"]
  /\ UNCHANGED <<head, sig, asked, acked>>

(* The process stops between two appends. *)
Restart(s) ==
  /\ pc[s] = "idle"
  /\ cached[s] # None
  /\ cached' = [cached EXCEPT ![s] = None]
  /\ UNCHANGED <<files, pc, entry, asked, acked>>

Next ==
  \E s \in Sink :
    \/ Begin(s) \/ AppendEntry(s) \/ WriteHead(s) \/ WriteSignature(s) \/ WriteAnchor(s)
    \/ Abort(s) \/ Restart(s)

Spec == Init /\ [][Next]_vars

-----------------------------------------------------------------------------
(* durability.py:78, "each entry must be on disk before the decision it     *)
(* records is allowed to take effect", and chain.py:213, "a crash can never *)
(* leave a head that points past a record the chain has lost": what was     *)
(* acknowledged, and what any head, signature or anchor vouches for, is in  *)
(* the log file.                                                           *)
Written(hd) == \E e \in UNION {{log.lines[i][j] : j \in 1 .. Len(log.lines[i])} : i \in Lines(log)} :
                 e # Cut /\ HeadOf(e) = hd

Durable ==
  /\ \A r \in acked : \E i \in Lines(log) : \E j \in 1 .. Len(log.lines[i]) :
       log.lines[i][j] # Cut /\ log.lines[i][j].rec = r
  /\ \A hd \in {head, sig} \ {None} : Written(hd)
  /\ \A i \in Lines(anchor) : \A j \in 1 .. Len(anchor.lines[i]) :
       anchor.lines[i][j] # Cut => Written(anchor.lines[i][j])

Undamaged == \A i \in Lines(log) : Readable(log.lines[i])

(* "Append one audit record while preserving chain continuity" (chain.py:  *)
(* 190): whatever writes failed before, the lines that were not cut chain.  *)
ChainContinues == Undamaged => LinesOK(log)

(* Once an append has returned, the log verifies, signature and anchor      *)
(* included, however many earlier appends failed half way.                  *)
ReturnVerifies ==
  \A s \in Sink :
    pc[s] = "idle" /\ cached[s] # None /\ Undamaged
      /\ (\A i \in Lines(anchor) : Readable(anchor.lines[i]))
      => Verifies(log, head, sig, anchor)

(* Edits of the log that leave the other files alone. *)
Dropped(i) ==
  [log EXCEPT !.lines = [j \in 1 .. Len(@) - 1 |-> @[IF j < i THEN j ELSE j + 1]]]

Truncated(n) == [log EXCEPT !.lines = SubSeq(@, 1, n)]

Swapped(i, j) == [log EXCEPT !.lines = [@ EXCEPT ![i] = log.lines[j], ![j] = log.lines[i]]]

Rewritten(i, r) == [log EXCEPT !.lines[i][1].rec = r]

Edits ==
  {Dropped(i) : i \in Lines(log)} \cup {Truncated(n) : n \in 0 .. Len(log.lines)}
    \cup {Swapped(i, j) : i, j \in Lines(log)}
    \cup {Rewritten(i, r) : i \in Lines(log), r \in Record}

(* chain.py:11-16: "any mutation, reordering, or deletion breaks the chain" *)
(* and "truncation of the tail ... is caught": an edited log that still     *)
(* verifies agrees with the original on every entry up to the head.         *)
TamperEvident ==
  Undamaged /\ head # None =>
    \A f \in Edits : ChainOK(f, head) =>
      \A i \in 1 .. head.seq + 1 : i <= Len(f.lines) /\ f.lines[i] = log.lines[i]

(* "detecting replay of an older signed prefix" (chain.py): log, head and   *)
(* signature put back together to an earlier entry do not verify against    *)
(* the anchor, whose latest head is at or before that entry only if it was  *)
(* never told of a later one.                                              *)
ReplayEvident ==
  HasAnchor /\ Undamaged =>
    \A n \in Lines(log) :
      LET hd == HeadAt(log, n)
      IN  Verifies(Truncated(n), hd, hd, anchor) =>
            \A i \in Lines(anchor) : \A j \in 1 .. Len(anchor.lines[i]) :
              anchor.lines[i][j] # Cut => anchor.lines[i][j].seq < n
=============================================================================
