------------------------- MODULE StorageVerification -------------------------
(***************************************************************************)
(* storage/verification.py: a read-only pass over the managed root of      *)
(* StorageAdoption, which does not take its lock, so that adopters and the *)
(* reconciliation of an acquisition run on while it reads.                 *)
(*                                                                         *)
(* Every content has prefix directories of its own; a report is a set of   *)
(* findings, <<status, content>>, in which a limit that was reached stands *)
(* as <<"unsafe", None>>.                                                  *)
(***************************************************************************)
EXTENDS StorageAdoption

CONSTANTS
    EntryLimits,        \* the max_entries a verification may be given
    Unverifiable        \* contents over its max_bytes

ASSUME VerificationAssumption ==
    EntryLimits \subseteq Nat \ {0} /\ Unverifiable \subseteq Content

VARIABLES
    dirs,       \* prefix directories that exist, by content
    v           \* the verification, if one was started

all == <<vars, dirs, v>>

(* bad, kept and relinked are history: contents that have not been whole,  *)
(* that have been in the managed root, and whose inode got another name,   *)
(* since the verification began.                                           *)
Quiet == [pc |-> "idle", rows |-> {}, todo |-> {}, reading |-> None, stirred |-> FALSE,
          limit |-> 0, examined |-> 0, findings |-> {}, bad |-> {}, kept |-> {}, relinked |-> {}]

VTypeOK ==
    /\ TypeOK /\ dirs \subseteq Content
    /\ v.pc \in {"idle", "rows", "tree", "walk", "staging", "done"}
    /\ v.rows \cup v.todo \cup v.bad \cup v.kept \cup v.relinked \subseteq Content
    /\ v.findings \subseteq
          ({"valid", "missing", "corrupt", "orphaned", "unsafe", "stale_staging"}
              \X (Content \cup {None}))
    /\ v.reading \in Content \cup {None} /\ v.examined \in 0..v.limit

VInit == Init /\ dirs = {b \in Content : cas[b] # None} /\ v = Quiet

Limit == <<"unsafe", None>>

-----------------------------------------------------------------------------
(* The rows of the catalog, read once *)

BeginVerify ==
    /\ v.pc = "idle"
    /\ \E limit \in EntryLimits :
          v' = [Quiet EXCEPT !.pc = "rows", !.rows = location, !.todo = location,
                          !.limit = limit,
                          !.bad = {b \in Content : cas[b] # "whole"},
                          !.kept = {b \in Content : cas[b] # None}]
    /\ UNCHANGED <<vars, dirs>>

(* Rows and directories are read in the order of their paths. *)
First(contents) == CHOOSE b \in contents : TRUE

(* The entry limit is reported with the location that reaches it, and ends *)
(* the report there.                                                       *)
LocationFinding(b, status) ==
    LET next == [v EXCEPT !.findings = @ \cup {<<status, b>>}, !.todo = @ \ {b},
                          !.reading = None, !.stirred = FALSE, !.examined = @ + 1]
    IN  IF next.examined >= v.limit
        THEN [next EXCEPT !.findings = @ \cup {Limit}, !.todo = {}, !.pc = "done"]
        ELSE next

OpenTarget ==
    /\ v.pc = "rows" /\ v.todo # {} /\ v.reading = None
    /\ LET b == First(v.todo) IN
       v' = IF cas[b] = None THEN LocationFinding(b, "missing")
            ELSE [v EXCEPT !.reading = b]
    /\ UNCHANGED <<vars, dirs>>

(* Mutant: a file with a second name, such as the one that is left in      *)
(* staging, is taken for a foreign one.                                    *)
TargetStatusOneName(b) ==
    IF residue > 0 \/ b \in Unverifiable \/ cas[b] # "whole" THEN "corrupt" ELSE "valid"

TargetStatus(b) ==
    IF b \in Unverifiable \/ v.stirred \/ cas[b] # "whole" THEN "corrupt" ELSE "valid"

ReadTarget ==
    /\ v.reading # None
    /\ v' = LocationFinding(v.reading, TargetStatus(v.reading))
    /\ UNCHANGED <<vars, dirs>>

-----------------------------------------------------------------------------
(* The tree of the managed root, and the staging names *)

(* A directory is listed under what is left of the limit; none left is too *)
(* little even for an empty one.                                           *)
Overflows(count) == v.examined >= v.limit \/ count > v.limit - v.examined

ScanTree ==
    /\ v.pc = "rows" /\ v.todo = {} /\ v.reading = None
    /\ v' = IF dirs = {} THEN [v EXCEPT !.pc = "staging"]
            ELSE IF Overflows(Cardinality(dirs))
            THEN [v EXCEPT !.pc = "staging", !.findings = @ \cup {Limit}]
            ELSE [v EXCEPT !.pc = "walk", !.todo = dirs]
    /\ UNCHANGED <<vars, dirs>>

OrphanFinding(b) ==
    IF b \in v.rows \/ cas[b] = None THEN {} ELSE {<<"orphaned", b>>}

(* Two prefixes and the files below them: each listing needs room for one  *)
(* more entry.                                                             *)
WalkPrefix ==
    /\ v.pc = "walk" /\ v.todo # {}
    /\ LET b == First(v.todo) IN
       v' = IF v.examined + 3 > v.limit
            THEN [v EXCEPT !.pc = "staging", !.todo = {}, !.examined = v.limit,
                           !.findings = @ \cup {Limit}]
            ELSE [v EXCEPT !.todo = @ \ {b}, !.findings = @ \cup OrphanFinding(b),
                           !.examined = @ + (IF cas[b] = None THEN 2 ELSE 3)]
    /\ UNCHANGED <<vars, dirs>>

ScanStaging ==
    /\ v.pc = "staging" \/ (v.pc = "walk" /\ v.todo = {})
    /\ v' = IF Overflows(residue)
            THEN [v EXCEPT !.pc = "done", !.findings = @ \cup {Limit}]
            ELSE [v EXCEPT !.pc = "done", !.examined = @ + residue,
                  !.findings = @ \cup (IF residue = 0 THEN {} ELSE {<<"stale_staging", None>>})]
    /\ UNCHANGED <<vars, dirs>>

VerifyNext ==
    \/ BeginVerify \/ OpenTarget \/ ReadTarget \/ ScanTree \/ WalkPrefix \/ ScanStaging

-----------------------------------------------------------------------------
(* The managed root meanwhile *)

(* The loss of its name or a write changes the times of an open inode. *)
AdoptionStep ==
    /\ AdoptionNext
    /\ dirs' = dirs \cup {me[p].bytes : p \in {q \in Adopter :
                             me[q].pc = "publish" /\ me'[q].pc \notin {"publish", "idle"}}}
    /\ v' = [v EXCEPT !.stirred = @ \/ (v.reading # None /\ cas'[v.reading] # cas[v.reading]),
                      !.bad = @ \cap {b \in Content : cas'[b] # "whole"},
                      !.kept = @ \cap {b \in Content : cas'[b] # None}]

(* stage_existing_cas, run by an acquisition that holds the lock, gives a  *)
(* managed file a second name in staging.                                  *)
Relink ==
    /\ owner = None /\ changes < MaxChanges
    /\ UNCHANGED <<file, cas, catalog, owner, me, harmed, dirs>>
    /\ \E b \in Content :
          /\ cas[b] = "whole"
          /\ residue' = residue + 1 /\ changes' = changes + 1
          /\ v' = [v EXCEPT !.stirred = @ \/ v.reading = b, !.relinked = @ \cup {b}]

VNext == AdoptionStep \/ VerifyNext \/ Relink

Spec == VInit /\ [][VNext]_all

-----------------------------------------------------------------------------
(* Properties *)

(* A finding against a location has a cause: its file was harmed after it  *)
(* had been verified, exceeds the byte limit of the verification or, while *)
(* it was read, got the name a reconciliation gives it.  An adoption that  *)
(* runs meanwhile causes none.                                             *)
FindingsJustified ==
    \A b \in Content :
        /\ <<"missing", b>> \in v.findings => b \in harmed
        /\ <<"corrupt", b>> \in v.findings => b \in harmed \cup Unverifiable \cup v.relinked

(* A report without a missing, corrupt or unsafe finding vouches for every *)
(* location of the catalog: none had a bad file throughout.                *)
OkReportVouches ==
    (v.pc = "done" /\ \A f \in v.findings : f[1] \notin {"missing", "corrupt", "unsafe"})
        => /\ v.rows \cap v.bad = {}
           /\ \A b \in v.rows : <<"valid", b>> \in v.findings

(* A report within its limits misses nothing: what was in the managed root *)
(* throughout is accounted for, by a location or as an orphan, and what is *)
(* called an orphan had no location when the pass began.                   *)
ReportComplete ==
    /\ (v.pc = "done" /\ Limit \notin v.findings) =>
          v.kept \subseteq {f[2] : f \in v.findings}
    /\ \A b \in Content : <<"orphaned", b>> \in v.findings => b \notin v.rows

(* A report says what is wrong, nothing else, and all of it.               *)
ReportIsTrue == FindingsJustified /\ OkReportVouches /\ ReportComplete

=============================================================================
