---------------------------- MODULE Specifications ----------------------------
(***************************************************************************)
(* The specification service (services/openspec): documents with numbered   *)
(* versions kept in files, and the dialogues that become documents. A       *)
(* handler has no await in it, so none is interleaved with another; but one *)
(* write of a document is several files, and the process may stop between   *)
(* them.                                                                    *)
(***************************************************************************)
EXTENDS Naturals, FiniteSets

CONSTANTS
    Ids,           \* slugs of titles, which become the ids of documents
    Dialogues,
    Homes,         \* applications
    MaxTurns,      \* MAX_DIALOGUE_TURNS
    MaxEdits,      \* bound: versions of a document
    MaxFaults      \* bound: crashes

VARIABLES
    doc,           \* by id: the document, which file and index agree on
    version,       \* by id: what .versions holds, the review status by number
    projected,     \* by id: the version of the change files the writer made
    dialogue,      \* the drafts
    running,
    faults

specifications == <<doc, version, projected, dialogue, running, faults>>

None == "none"
Torn == "torn"       \* a file whose write was cut: it does not parse
Reviews == {"pending", "approved", "rejected"}
Docs == [number : 1..MaxEdits, source : {"human", "autonomous-loop"},
         review : Reviews, home : Homes \cup {None}, origin : Dialogues \cup {None},
         turns : 0..(MaxTurns + 1)]
Drafts == [status : {"drafting", "committed", "abandoned"}, title : Ids,
           turns : 0..(MaxTurns + 1), ready : BOOLEAN, spec : Ids \cup {None}]

Init ==
    /\ doc = [i \in Ids |-> [kind |-> None]]
    /\ version = [i \in Ids |-> [n \in 1..MaxEdits |-> None]]
    /\ projected = [i \in Ids |-> 0]
    /\ dialogue = [d \in Dialogues |-> [status |-> None]]
    /\ running = TRUE /\ faults = 0

Exists(i) == DOMAIN doc[i] # {"kind"}

(* _write: the change files, the document's file, its version's file.       *)
Write(i, new) ==
    /\ projected' = [projected EXCEPT ![i] = new.number]
    /\ doc' = [doc EXCEPT ![i] = new]
    /\ version' = [version EXCEPT ![i][new.number] = new.review]
    /\ UNCHANGED <<running, faults>>

(* The same, cut by a crash before, in or after one of its files.           *)
Stop == running /\ faults < MaxFaults /\ running' = FALSE /\ faults' = faults + 1

CutWrite(i, new) ==
    /\ Stop
    /\ projected' = [projected EXCEPT ![i] = new.number]
    /\ \/ UNCHANGED <<doc, version>>
       \/ doc' = [doc EXCEPT ![i] = [kind |-> Torn]] /\ UNCHANGED version
       \/ /\ doc' = [doc EXCEPT ![i] = new]
          /\ \/ UNCHANGED version
             \/ version' = [version EXCEPT ![i][new.number] = Torn]

Put(i, new) == Write(i, new) \/ CutWrite(i, new)

(* create. Who writes as the loop waits for a review.                       *)
Slugged(i) == Exists(i)
New(source, home, origin, turns) ==
    [number |-> 1, source |-> source, home |-> home, origin |-> origin, turns |-> turns,
     review |-> IF source = "human" THEN "approved" ELSE "pending"]

Create(i, source, home) ==
    /\ ~Slugged(i)
    /\ Put(i, New(source, home, None, 0))
    /\ UNCHANGED dialogue

Edited(i) == [doc[i] EXCEPT !.number = @ + 1]
Editable(i) == Exists(i) /\ doc[i].number < MaxEdits

(* patch, append_decision and append_link: a version more.                  *)
Edit(i) ==
    /\ Editable(i)
    /\ Put(i, Edited(i))
    /\ UNCHANGED dialogue

(* The hook writes twice, the link and then the decision; a stop between    *)
(* the two is that of Edit.                                                 *)
JiraHook(i) ==
    /\ Exists(i) /\ doc[i].number + 2 <= MaxEdits
    /\ LET n == doc[i].number
       IN  /\ doc' = [doc EXCEPT ![i].number = n + 2]
           /\ version' = [version EXCEPT ![i][n + 1] = doc[i].review,
                                         ![i][n + 2] = doc[i].review]
           /\ projected' = [projected EXCEPT ![i] = n + 2]
    /\ UNCHANGED <<dialogue, running, faults>>

(* reparent, by an editor of both applications; to the same one it writes   *)
(* nothing.                                                                 *)
Reparent(i, home, edits) ==
    /\ Editable(i) /\ home # doc[i].home
    /\ doc[i].home \in edits \cup {None} /\ home \in edits
    /\ Put(i, [Edited(i) EXCEPT !.home = home])
    /\ UNCHANGED dialogue

Reviewable(i) == doc[i].source = "autonomous-loop" /\ doc[i].review = "pending"

Review(i, verdict) ==
    /\ Editable(i) /\ Reviewable(i)
    /\ Put(i, [Edited(i) EXCEPT !.review = verdict])
    /\ UNCHANGED dialogue

-----------------------------------------------------------------------------
Open(d) == dialogue[d].status \notin {None, "lost"}

(* DraftStore._persist: a draft whose file was cut is skipped when loaded.  *)
Save(d, new) ==
    \/ /\ dialogue' = [dialogue EXCEPT ![d] = new]
       /\ UNCHANGED <<running, faults>>
    \/ /\ Stop
       /\ dialogue' \in {dialogue, [dialogue EXCEPT ![d] = new],
                         [dialogue EXCEPT ![d] = [status |-> "lost"]]}

Start(d, title) ==
    /\ dialogue[d].status = None
    /\ Save(d, [status |-> "drafting", title |-> title, turns |-> 0,
                ready |-> FALSE, spec |-> None])
    /\ UNCHANGED <<doc, version, projected>>

(* An answer may set the title, the intent and the requirements.            *)
(* The bound on turns leaves one too many for the commit to refuse.        *)
Answer(d, title, ready) ==
    /\ Open(d) /\ dialogue[d].status = "drafting" /\ dialogue[d].turns <= MaxTurns
    /\ Save(d, [dialogue[d] EXCEPT !.turns = @ + 1, !.title = title, !.ready = ready])
    /\ UNCHANGED <<doc, version, projected>>

(* can_commit asks nothing of the status.                                   *)
CanCommit(d) == dialogue[d].ready /\ dialogue[d].turns <= MaxTurns

SpecOf(d) == IF dialogue[d].spec # None THEN dialogue[d].spec ELSE dialogue[d].title

Commit(d, home) ==
    LET i == SpecOf(d)
        new == New("human", home, d, dialogue[d].turns)
        committed == [dialogue[d] EXCEPT !.status = "committed", !.spec = i]
    IN  /\ Open(d) /\ CanCommit(d) /\ ~Slugged(i)
        /\ \/ /\ Write(i, new)
              /\ dialogue' = [dialogue EXCEPT ![d] = committed]
           \/ CutWrite(i, new) /\ UNCHANGED dialogue
           \/ /\ Stop
              /\ doc' = [doc EXCEPT ![i] = new]
              /\ version' = [version EXCEPT ![i][1] = new.review]
              /\ projected' = [projected EXCEPT ![i] = 1]
              /\ dialogue' \in {dialogue, [dialogue EXCEPT ![d] = [status |-> "lost"]]}

(* By hand in any status, expire_inactive in that of a dialogue going on.   *)
Abandon(d) ==
    /\ Open(d)
    /\ Save(d, [dialogue[d] EXCEPT !.status = "abandoned"])
    /\ UNCHANGED <<doc, version, projected>>

(* sync_from_filesystem reads every document or raises: with a torn one the *)
(* service does not start.                                                  *)
Restart ==
    /\ ~running /\ \A i \in Ids : doc[i] # [kind |-> Torn]
    /\ running' = TRUE
    /\ UNCHANGED <<doc, version, projected, dialogue, faults>>

Documents ==
    \E i \in Ids :
        \/ \E source \in {"human", "autonomous-loop"}, home \in Homes \cup {None} :
             Create(i, source, home)
        \/ Edit(i)
        \/ JiraHook(i)
        \/ \E home \in Homes, edits \in SUBSET Homes : Reparent(i, home, edits)
        \/ \E verdict \in Reviews \ {"pending"} : Review(i, verdict)

Intents ==
    \E d \in Dialogues :
        \/ \E title \in Ids : Start(d, title) \/ \E ready \in BOOLEAN : Answer(d, title, ready)
        \/ \E home \in Homes \cup {None} : Commit(d, home)
        \/ Abandon(d)

Next ==
    \/ running /\ Documents
    \/ running /\ Intents
    \/ Restart

Spec == Init /\ [][Next]_specifications

-----------------------------------------------------------------------------
TypeOK ==
    /\ \A i \in Ids : doc[i] \in Docs \cup {[kind |-> None], [kind |-> Torn]}
    /\ version \in [Ids -> [1..MaxEdits -> Reviews \cup {None, Torn}]]
    /\ projected \in [Ids -> 0..MaxEdits]
    /\ \A d \in Dialogues : dialogue[d] \in Drafts \cup {[status |-> None], [status |-> "lost"]}
    /\ running \in BOOLEAN /\ faults \in 0..MaxFaults

(* The history of a document is whole: each number up to the current one    *)
(* can be read but for one a crash cut, none beyond it exists, and the      *)
(* version files tell of one review at most, which nothing later undoes and *)
(* which did not overwrite the version it was a review of. The change files are never behind (FilesystemOpenSpecStore._write,       *)
(* review).                                                                 *)
HistoryWhole ==
    \A i \in {j \in Ids : Exists(j)} :
        LET Read == {n \in 1..MaxEdits : version[i][n] \in Reviews}
        IN  /\ Cardinality({n \in 1..doc[i].number : n \notin Read}) <= faults
            /\ \A n \in Read : n <= doc[i].number /\ version[i][n] \in {"pending", doc[i].review}
            /\ \A m, n \in Read : m < n /\ version[i][m] # "pending" => version[i][n] = version[i][m]
            /\ doc[i].source # "human" /\ 1 \in Read => version[i][1] = "pending"
            /\ doc[i].source = "human" => doc[i].review = "approved"
            /\ projected[i] \in doc[i].number..(doc[i].number + faults)

(* A dialogue becomes one document, a second one only after a crash that    *)
(* came between the document and its draft; a committed draft names a       *)
(* document, made of this very dialogue and in no more turns than allowed   *)
(* (intent_commit, can_commit).                                             *)
OneDocumentEach ==
    \A d \in Dialogues :
        LET made == {i \in Ids : Exists(i) /\ doc[i].origin = d}
        IN  /\ Cardinality(made) <= 1 + faults
            /\ \A i \in made : doc[i].turns <= MaxTurns
            /\ Open(d) /\ dialogue[d].spec # None =>
                  dialogue[d].spec \in made \/ doc[dialogue[d].spec] = [kind |-> Torn]

SpecsSound == HistoryWhole /\ OneDocumentEach
=============================================================================
