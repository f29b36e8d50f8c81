--------------------------- MODULE PublicationState ---------------------------
(***************************************************************************)
(* DevPublicationState of the dev server: which entry URLs a response may  *)
(* inject and whether the documents on disk and the entries form one       *)
(* generation.  One operator per method, each on a whole state record;     *)
(* the code calls every method under one write lock.                       *)
(***************************************************************************)
EXTENDS Naturals

CONSTANTS Urls,  \* URLs of entries: the islands entry and the client scripts
          None   \* an empty Option

AssetSlots    == [kind : {"NotExpected", "Pending", "Published"}, urls : SUBSET Urls]
DocumentSlots == {"Pending", "Published", "ReadyOnRequest", "NotExpected"}

PublicationStates ==
  [generation     : Nat,
   islands        : AssetSlots,
   scripts        : AssetSlots,
   documents      : DocumentSlots,
   staged_islands : AssetSlots \cup {None},
   staged_scripts : AssetSlots \cup {None},
   retained       : AssetSlots \cup {None},
   previous       : DocumentSlots \cup {"None"},
   uncertain      : BOOLEAN,
   entry_pending  : BOOLEAN]

PendingSlot == [kind |-> "Pending", urls |-> {}]

slot_from_urls(urls) ==
  [kind |-> IF urls = {} THEN "NotExpected" ELSE "Published", urls |-> urls]

pending ==
  [generation |-> 0, islands |-> PendingSlot, scripts |-> PendingSlot,
   documents |-> "Pending", staged_islands |-> None, staged_scripts |-> None,
   retained |-> None, previous |-> "None", uncertain |-> FALSE, entry_pending |-> FALSE]

is_ready(p) ==
  /\ p.islands.kind # "Pending"
  /\ p.scripts.kind # "Pending"
  /\ p.documents # "Pending"

begin_document_update(p) ==
  IF p.previous = "None"
  THEN [p EXCEPT !.previous = p.documents, !.documents = "Pending"]
  ELSE p

stage_islands(p, urls) == [p EXCEPT !.staged_islands = slot_from_urls(urls)]
stage_scripts(p, urls) == [p EXCEPT !.staged_scripts = slot_from_urls(urls)]

(* Mutant: a commit forgets the declaration of the generation before. *)
FallbackForgotten(p, retain) == IF p.staged_islands = None THEN None ELSE p.islands

(* An older islands declaration that a fallback body may still need. *)
Fallback(p, retain) ==
  CASE p.staged_islands = None /\ retain  -> p.retained
    [] p.staged_islands = None /\ ~retain -> None
    [] OTHER -> IF retain /\ p.retained # None /\ p.retained.kind = "Published"
                THEN p.retained
                ELSE p.islands

commit_document_update(p, docs, retain) ==
  IF p.uncertain THEN p
  ELSE [generation     |-> p.generation + 1,
        islands        |-> IF p.staged_islands = None THEN p.islands ELSE p.staged_islands,
        scripts        |-> IF p.staged_scripts = None THEN p.scripts ELSE p.staged_scripts,
        documents      |-> docs,
        staged_islands |-> None,
        staged_scripts |-> None,
        retained       |-> Fallback(p, retain),
        previous       |-> "None",
        uncertain      |-> FALSE,
        entry_pending  |-> FALSE]

resolve_document_uncertainty(p) == [p EXCEPT !.uncertain = FALSE]

commit_lazy_repair(p) ==
  commit_document_update(resolve_document_uncertainty(p), "ReadyOnRequest", TRUE)

commit_entry_update(p, retain) ==
  commit_document_update(p, IF p.previous = "None" THEN p.documents ELSE p.previous, retain)

abort_document_update_before_write(p) ==
  CASE p.uncertain \/ p.entry_pending   -> [p EXCEPT !.documents = "Pending"]
    [] ~p.uncertain /\ ~p.entry_pending /\ p.previous \in {"None", "Pending"} ->
         [p EXCEPT !.documents = "Pending", !.previous = "None"]
    [] OTHER -> [p EXCEPT !.documents = p.previous, !.previous = "None",
                          !.staged_islands = None, !.staged_scripts = None]

leave_document_update_pending(p) == [p EXCEPT !.documents = "Pending", !.uncertain = TRUE]

leave_entry_update_pending(p) ==
  [p EXCEPT !.previous = IF @ = "None" THEN p.documents ELSE @,
            !.documents = "Pending", !.entry_pending = TRUE]

leave_entry_update_pending_after_document_boundary(p, docs) ==
  [p EXCEPT !.previous = docs, !.documents = "Pending",
            !.uncertain = FALSE, !.entry_pending = TRUE]

(* The islands URLs a response injects into a body. *)
islands_urls_for_response(p, body_has_islands) ==
  LET offered == {s \in {p.staged_islands, p.retained} : s # None}
      choices == <<p.staged_islands, p.islands, p.retained>>
      usable  == {i \in 1..3 : choices[i] # None /\ choices[i].kind = "Published"}
  IN  IF (offered # {} /\ ~body_has_islands) \/ usable = {} THEN {}
      ELSE choices[CHOOSE i \in usable : \A j \in usable : i <= j].urls
=============================================================================
