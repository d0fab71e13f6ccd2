------------------------------ MODULE AuditExport -----------------------------
(***************************************************************************)
(* The exporter of audit/sinks.py beside a live sink: verify_chain reads   *)
(* the log, the head, the head again with its signature, and the anchor    *)
(* log, one file after another and without the sink's lock; then the log   *)
(* is read a second time and its entries become the events of the export.  *)
(***************************************************************************)
EXTENDS AuditChain

VARIABLE
  reader   \* the export under way, and how the last one ended

exportVars == <<vars, reader>>

(* at: the file read next, or how the export ended; seen: the log that was  *)
(* verified; claimed: the head whose signature is checked; began: what was  *)
(* asked for and acknowledged when the log was read, and whether the log    *)
(* was at rest; events: the lines exported.                                *)
Fresh == [at |-> "log", seen |-> EmptyFile, claimed |-> None,
          began |-> [asked |-> 0, acked |-> {}, settled |-> FALSE], events |-> <<>>]

ExportInit == Init /\ reader = Fresh

Refusals == {"no_log", "bad_line", "bad_head", "bad_signature", "bad_anchor", "torn"}

(* A log that no append has left half way: the last one returned. *)
Settled ==
  /\ \A i \in Lines(log) : Readable(log.lines[i])
  /\ \A i \in Lines(anchor) : Readable(anchor.lines[i])
  /\ \A s \in Sink : pc[s] = "idle"
  /\ \E s \in Sink : cached[s] # None

To(at) == reader' = [reader EXCEPT !.at = at] /\ UNCHANGED vars

(* _verify_chain_python, the lines.  A log that does not exist is refused.  *)
VerifyLines ==
  /\ reader.at = "log"
  /\ reader' = [Fresh EXCEPT
       !.at = IF log = EmptyFile THEN "no_log" ELSE IF LinesOK(log) THEN "head" ELSE "bad_line",
       !.seen = log,
       !.began = [asked |-> asked, acked |-> acked, settled |-> Settled]]
  /\ UNCHANGED vars

(* _verify_chain_python, the head sidecar as it is by now. *)
VerifyHead ==
  /\ reader.at = "head"
  /\ To(IF ~HeadAgrees(reader.seen, head) THEN "bad_head"
        ELSE IF HasKey THEN "claimed" ELSE "again")

(* _verify_signed_head reads the head once more, then its signature. *)
ReadClaimed ==
  /\ reader.at = "claimed"
  /\ reader' = [reader EXCEPT !.claimed = head,
                              !.at = IF head = None THEN "bad_signature" ELSE "signature"]
  /\ UNCHANGED vars

VerifySignature ==
  /\ reader.at = "signature"
  /\ To(IF ~SignatureOK(reader.claimed, sig) THEN "bad_signature"
        ELSE IF HasAnchor THEN "anchor" ELSE "again")

VerifyAnchor ==
  /\ reader.at = "anchor"
  /\ To(IF AnchorOK(anchor, reader.claimed) THEN "again" ELSE "bad_anchor")

(* _read_entries: the log again, every line of which must parse. *)
ExportEntries ==
  /\ reader.at = "again"
  /\ IF \A i \in Lines(log) : Readable(log.lines[i])
     THEN reader' = [reader EXCEPT !.at = "exported", !.events = log.lines]
     ELSE reader' = [reader EXCEPT !.at = "torn"]
  /\ UNCHANGED vars

(* The command runs again. *)
ExportAgain ==
  /\ reader.at \in Refusals \cup {"exported"}
  /\ reader' = Fresh
  /\ UNCHANGED vars

ExportNext ==
  \/ Next /\ UNCHANGED reader
  \/ VerifyLines \/ VerifyHead \/ ReadClaimed \/ VerifySignature \/ VerifyAnchor
  \/ ExportEntries \/ ExportAgain

ExportSpec == ExportInit /\ [][ExportNext]_exportVars

-----------------------------------------------------------------------------
(* "Exporters first verify the chain, then map each chain entry" (sinks.py: *)
(* 10).  The log is read again after it was verified, while the sink goes   *)
(* on: what is exported still begins with what was verified, is one         *)
(* unbroken chain past it, and has every decision that had been             *)
(* acknowledged when the export began.                                     *)
ExportSound ==
  reader.at = "exported" =>
    /\ SubSeq(reader.events, 1, Len(reader.seen.lines)) = reader.seen.lines
    /\ LinesOK([lines |-> reader.events, open |-> FALSE])
    /\ \A r \in reader.began.acked : \E i \in DOMAIN reader.events : reader.events[i][1].rec = r

(* The verifier takes no lock, so a sink at work can make it report a tail  *)
(* truncation that never was.  It does so only when the log has changed     *)
(* since it was read, or when the appends of its two last entries both      *)
(* stopped before the head; and a log at rest when the export begins, to    *)
(* which nothing is added, is exported.                                    *)
Unreturned(i) == reader.seen.lines[i][1].rec \notin reader.began.acked

RefusedForCause ==
  /\ reader.at = "bad_head" =>
       \/ log # reader.seen
       \/ LET n == Len(reader.seen.lines) IN n > 1 /\ Unreturned(n) /\ Unreturned(n - 1)
  /\ reader.at \in Refusals /\ reader.began.settled => asked > reader.began.asked
=============================================================================
