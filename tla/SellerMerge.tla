---------------------------- MODULE SellerMerge ----------------------------
(***************************************************************************)
(* Duplicate sellers: a batch that is ingested is compared with the        *)
(* sellers that are there (entity-resolution/service.ts), which merges it  *)
(* into one of them, puts the pair before the operator, or neither; the    *)
(* operator merges, separates and rolls back (entity-resolution/           *)
(* decisions.ts).  Both write four databases statement by statement and    *)
(* without a transaction, at the same time, and both may fail in between.  *)
(*                                                                         *)
(* A row that refers to a seller is a link.  Of a link only its owner is   *)
(* kept, of a seller only its status.  One action is one statement with    *)
(* the code up to the next await.  A definition without a comment just     *)
(* above another one of almost the same name is a slip the code could have *)
(* had, put in its sibling's place to see that a property notices.         *)
(***************************************************************************)
EXTENDS Integers, Sequences

CONSTANTS
  Sellers,      \* ids of sellers, numbers: the code orders them
  Known,        \* those that are there from the start
  Links,        \* ids of the rows that refer to a seller
  Table,        \* Table[l]: the table of link l
  Batches,      \* what is ingested
  Seller,       \* Seller[b]: the seller of batch b
  Brings,       \* Brings[b]: the links of batch b in each database, in their order
  Bare,         \* what batches without a seller bring: for whom, if anyone, and the source
  Likeness,     \* Likeness[s][t]: what may be found when t is compared to s
  Operators,    \* concurrent requests of the operator
  Importers,    \* concurrent requests of ingestion
  MaxRequests,  \* bound on the operator's requests
  MaxBatches,   \* bound on the batches that are ingested
  MaxFaults     \* bound on the requests that fail

NoSeller   == 0
NoLink     == "none"
NoDecision == <<0, 0>>

(* The tables with links, in the order a merge goes through them.  Left    *)
(* out is recent_diff_metadata, which no crawler sends.                    *)
CoreTables    == <<"marketplace_accounts", "seller_aliases", "score_components",
                   "seller_product_links">>
ContactTables == <<"contacts", "outreach_state", "suppression_list">>
OperationTables == <<"sources">>
HistoryTables   == <<"field_history">>

LinkTables == CoreTables \o ContactTables \o OperationTables \o HistoryTables

(* Each database, in the order of a commit, with its tables.               *)
Databases == {"core", "contacts", "operations", "history"}
TablesOf  == [core |-> CoreTables, contacts |-> ContactTables,
              operations |-> OperationTables, history |-> HistoryTables]

Members(seq) == {seq[i] : i \in DOMAIN seq}

(* The links of a batch, in the order of a commit. *)
AllLinks(b) ==
  Brings[b].core \o Brings[b].contacts \o Brings[b].operations \o Brings[b].history

(* A decision is about a pair: the id is made of the two, and a unique     *)
(* index allows one per pair.                                              *)
Decisions == {d \in Sellers \X Sellers : d[1] # d[2]}

Candidate(d) == d[1]
Matched(d)   == d[2]

(* What two sellers have in common.                                        *)
Evidence ==
  [domain : {"none", "same", "other"},
   name : {"none", "exact", "very_high", "high", "medium", "low"},
   contacts : Nat,
   country : {"unknown", "one_sided", "same", "other"},
   city : {"none", "same", "other"}]

ASSUME ConstantsAssumption ==
  /\ Sellers \subseteq Nat \ {NoSeller}
  /\ Known \subseteq Sellers
  /\ NoLink \notin Links
  /\ Table \in [Links -> Members(LinkTables)]
  /\ Seller \in [Batches -> Sellers]
  /\ Batches # {}
  /\ Brings \in [Batches -> [Databases -> Seq(Links)]]
  /\ Bare \subseteq (Sellers \cup {NoSeller}) \X {l \in Links : Table[l] = "sources"}
  /\ Likeness \in [Sellers -> [Sellers -> SUBSET Evidence]]
  /\ MaxRequests \in Nat /\ MaxBatches \in Nat /\ MaxFaults \in Nat

(* A table is of one database.  A link may be of several sellers: the id   *)
(* of a source is made of its address alone.                               *)
ASSUME TablesAssumption ==
  \A b \in Batches : \A db \in Databases :
    \A l \in Members(Brings[b][db]) : Table[l] \in Members(TablesOf[db])

VARIABLES
  owner,      \* owner[l]: the seller that link l refers to
  status,     \* status[s]: sellers.status
  decision,   \* entity_resolution_decisions
  audit,      \* seller_merge_link_audit
  redirect,   \* seller_merge_redirects
  review,     \* review_queue, the items about duplicates
  events,     \* audit_events of duplicate decisions
  operator,   \* the operator's requests
  importer,   \* the requests of ingestion
  requests,   \* how many requests the operator has made
  batches,    \* how many batches have been ingested
  faults,     \* how many requests have failed
  contested,  \* decisions of sellers two requests worked on at once (history)
  halted,     \* decisions a request failed over (history)
  exposed,    \* links written in one of the windows below (history)
  veiled,     \* sellers written as merged in such a window (history)
  untimely    \* links and sellers they may come back to, for they were rolled
              \* back there before a merge that had moved them on (history)

tables  == <<owner, status, decision, audit, redirect, review, events>>
history == <<contested, halted, exposed, veiled, untimely>>
vars    == <<tables, operator, importer, requests, batches, faults, history>>

-----------------------------------------------------------------------------

Actions == {"merge", "keep_separate", "ignore", "rollback"}

(* actionStatus. *)
Expected(action) ==
  CASE action = "merge"         -> "merged"
    [] action = "keep_separate" -> "kept_separate"
    [] action = "ignore"        -> "ignored"
    [] action = "rollback"      -> "rolled_back"

Kinds    == {"none", "auto_merge", "review_queue", "no_merge"}
Statuses == {"none", "pending", "no_merge", "merged", "kept_separate", "ignored", "rolled_back"}

Decision == [status : Statuses, action : Kinds]
Undecided == [status |-> "none", action |-> "none"]

Redirect   == [to : Sellers \cup {NoSeller}, by : Decisions \cup {NoDecision},
               active : BOOLEAN]
NoRedirect == [to |-> NoSeller, by |-> NoDecision, active |-> FALSE]

OperatorPoints ==
  {"idle", "list", "audit", "move", "redirect", "decide", "review", "log",
   "recall", "restore", "reopen", "restore_rest", "activate", "close", "unredirect"}

(* A request of the operator: the links it has listed, those it is done    *)
(* with, and where it is in the tables it goes through.                    *)
OperatorRequest ==
  [pc : OperatorPoints, decision : Decisions \cup {NoDecision},
   action : Actions \cup {"none"}, at : Nat, links : SUBSET Links, done : SUBSET Links]

Resting == [pc |-> "idle", decision |-> NoDecision, action |-> "none", at |-> 1,
            links |-> {}, done |-> {}]

(* A request of ingestion: what it has found, the kind of decision it has  *)
(* taken, the status of an earlier decision, and the owner of its links.   *)
Import ==
  [pc : {"idle", "look", "commit"}, batch : Batches, decision : Decisions \cup {NoDecision},
   kind : Kinds, seen : Statuses, owner : Sellers, at : Nat]

TypeOK ==
  /\ owner \in [Links -> Sellers \cup {NoSeller}]
  /\ status \in [Sellers -> {"absent", "active", "merged"}]
  /\ decision \in [Decisions -> Decision]
  /\ audit \in [Decisions -> [Links -> {"none", "open", "rolled_back"}]]
  /\ redirect \in [Sellers -> Redirect]
  /\ review \in [Decisions -> Statuses]
  /\ events \subseteq Decisions \X Actions
  /\ operator \in [Operators -> OperatorRequest]
  /\ importer \in [Importers -> Import]
  /\ requests \in Nat /\ batches \in Nat /\ faults \in Nat
  /\ contested \subseteq Decisions
  /\ halted \subseteq Decisions
  /\ exposed \subseteq Links
  /\ veiled \subseteq Sellers
  /\ untimely \subseteq Links \X Sellers

(* Before a first batch an importer has nothing: the batch it starts with  *)
(* only fills its place.                                                   *)
Waiting(b) == [pc |-> "idle", batch |-> b, decision |-> NoDecision, kind |-> "none",
               seen |-> "none", owner |-> Seller[b], at |-> 1]

Init ==
  /\ owner = [l \in Links |-> NoSeller]
  /\ status = [s \in Sellers |-> IF s \in Known THEN "active" ELSE "absent"]
  /\ decision = [d \in Decisions |-> Undecided]
  /\ audit = [d \in Decisions |-> [l \in Links |-> "none"]]
  /\ redirect = [s \in Sellers |-> NoRedirect]
  /\ review = [d \in Decisions |-> "none"]
  /\ events = {}
  /\ operator = [p \in Operators |-> Resting]
  /\ importer = [i \in Importers |-> Waiting(CHOOSE b \in Batches : TRUE)]
  /\ requests = 0 /\ batches = 0 /\ faults = 0
  /\ contested = {} /\ halted = {} /\ exposed = {} /\ veiled = {}
  /\ untimely = {}

-----------------------------------------------------------------------------
(* Scoring.                                                                *)

DomainPoints  == [none |-> 0, same |-> 52, other |-> -30]
NamePoints    == [none |-> 0, exact |-> 40, very_high |-> 32, high |-> 25, medium |-> 18,
                  low |-> 10]
CountryPoints == [unknown |-> 0, one_sided |-> 0, same |-> 6, other |-> -18]
CityPoints    == [none |-> 0, same |-> 4, other |-> -8]

Between(low, n, high) == IF n < low THEN low ELSE IF n > high THEN high ELSE n

(* Cities count when the countries are equal, also when neither is known.  *)
CityCounts(e) == e.country \in {"same", "unknown"} /\ e.city # "none"

(* scoreCandidate: the sum of the components. *)
Score(e) ==
  Between(0,
    DomainPoints[e.domain] + NamePoints[e.name]
      + (IF e.contacts > 0 THEN Between(0, 30 + 5 * e.contacts, 45) ELSE 0)
      + CountryPoints[e.country] + (IF CityCounts(e) THEN CityPoints[e.city] ELSE 0),
    100)

HasComponents(e) ==
  \/ e.domain # "none" \/ e.name # "none" \/ e.contacts > 0
  \/ e.country \in {"same", "other"} \/ CityCounts(e)

Kind(score) ==
  IF score >= 92 THEN "auto_merge" ELSE IF score >= 70 THEN "review_queue" ELSE "no_merge"

FirstStatusOfKind(kind) == kind

(* The status a new decision is stored with. *)
FirstStatus(kind) ==
  CASE kind = "auto_merge" -> "merged" [] kind = "review_queue" -> "pending"
    [] kind = "no_merge" -> "no_merge"

-----------------------------------------------------------------------------
(* The windows the code leaves open.                                       *)

Working(p, d, action) ==
  operator[p].pc # "idle" /\ operator[p].decision = d /\ operator[p].action = action

RollingBack(d) == \E p \in Operators : Working(p, d, "rollback")

(* The statements of a merge that move links: one for each table, and the  *)
(* status of the seller after those of the core database.                  *)
ListOrder == LinkTables
MoveOrder == CoreTables \o <<"sellers">> \o ContactTables \o OperationTables \o HistoryTables

(* A merge of d has read, or will not read again, the table of link l.     *)
Listed(d, l) ==
  \E p \in Operators :
    /\ Working(p, d, "merge")
    /\ operator[p].pc = "list" => Table[l] \in {ListOrder[k] : k \in 1..(operator[p].at - 1)}

(* Decision d no longer stands for a request that has found it merged, or  *)
(* is about to make it so.                                                 *)
Overtaken(d) ==
  decision[d].status \notin {"none", "merged"} \/ RollingBack(d) \/ d \in halted

(* Another decision has moved link l on from where d had put it, and is    *)
(* not rolled back yet.                                                    *)
MovedOn(d, l) ==
  \E e \in Decisions \ {d} : Candidate(e) = Matched(d) /\ audit[e][l] = "open"

(* A link that is written for a seller while that one is merged, or when   *)
(* it has been, by a request that does not know.                           *)
MissedMerge(s, l) ==
  \E d \in Decisions :
    Candidate(d) = s /\ (decision[d].status = "merged" \/ Listed(d, l))

Expose(links) == exposed' = exposed \cup links

-----------------------------------------------------------------------------
(* Ingestion: prepareEntityResolution and the commit that follows.         *)

Importing(i, r) == importer' = [importer EXCEPT ![i] = r]

Ingests == UNCHANGED <<operator, requests>>

(* findResolutionCandidates, and the score of each: the best one is looked *)
(* up, the one with the least id among equals.                             *)
Find(i, b) ==
  LET s    == Seller[b]
      near == {t \in Sellers \ {s} : status[t] = "active" /\ Likeness[s][t] # {}}
      commit == [Waiting(b) EXCEPT !.pc = "commit"]
  IN
  /\ importer[i].pc = "idle"
  /\ batches < MaxBatches
  /\ batches' = batches + 1
  /\ \/ near = {} /\ Importing(i, commit)
     \/ \E t \in near : \E found \in [near -> UNION {Likeness[s][u] : u \in near}] :
          /\ \A u \in near :
               /\ found[u] \in Likeness[s][u]
               /\ \/ Score(found[u]) < Score(found[t])
                  \/ Score(found[u]) = Score(found[t]) /\ t <= u
          /\ Importing(i,
               IF HasComponents(found[t])
               THEN [Waiting(b) EXCEPT !.pc = "look", !.decision = <<s, t>>,
                                       !.kind = Kind(Score(found[t]))]
               ELSE commit)
  /\ Ingests
  /\ UNCHANGED <<tables, faults, history>>

LookUpMergedAgain(i) ==
  LET r == importer[i]
      d == r.decision
  IN
  /\ r.pc = "look"
  /\ Importing(i, [r EXCEPT !.pc = "commit", !.seen = decision[d].status,
        !.kind = IF decision[d].status = "none" THEN @ ELSE "none",
        !.owner = IF r.kind = "auto_merge" THEN Matched(d) ELSE @])
  /\ Ingests
  /\ UNCHANGED <<tables, batches, faults, history>>

(* getResolutionDecision: a decision that is there is kept to; a new one   *)
(* is taken otherwise.  A merge makes the links those of the other seller. *)
LookUp(i) ==
  LET r   == importer[i]
      d   == r.decision
      old == decision[d].status
  IN
  /\ r.pc = "look"
  /\ Importing(i, [r EXCEPT !.pc = "commit", !.seen = old,
        !.kind = IF old = "none" THEN @ ELSE "none",
        !.owner = IF old = "merged" \/ (old = "none" /\ r.kind = "auto_merge")
                  THEN Matched(d) ELSE @])
  /\ Ingests
  /\ UNCHANGED <<tables, batches, faults, history>>

Remapped(r) == r.owner # Seller[r.batch]

Each(do, seq) == [k \in DOMAIN seq |-> <<do, seq[k]>>]

(* The statements of the commit of r, in their order.                      *)
Statements(r) ==
  LET links == Brings[r.batch]
      Once(condition, do) == IF condition THEN << <<do, NoLink>> >> ELSE <<>>
  IN
  << <<"seller", NoLink>> >>
    \o Each("link", links.core)
    \o Once(r.kind # "none", "decision")
    \o Once(r.kind = "auto_merge", "redirect")
    \o Each("audit", IF Remapped(r) THEN AllLinks(r.batch) ELSE <<>>)
    \o Each("link", links.contacts) \o Each("link", links.operations)
    \o Once(r.kind = "review_queue", "review")
    \o Each("link", links.history)

Due(i, do) ==
  importer[i].pc = "commit" /\ Statements(importer[i])[importer[i].at][1] = do

DueLink(i) == Statements(importer[i])[importer[i].at][2]

Onward(i) ==
  LET r == importer[i] IN
  Importing(i, IF r.at < Len(Statements(r)) THEN [r EXCEPT !.at = @ + 1]
               ELSE Waiting(r.batch))

(* upsertSeller: the status is overwritten. *)
WriteSeller(i) ==
  LET r == importer[i]
      s == Seller[r.batch]
  IN
  /\ Due(i, "seller")
  /\ status' = [status EXCEPT ![s] = IF Remapped(r) THEN "merged" ELSE "active"]
  /\ veiled' = IF Remapped(r) /\ Overtaken(r.decision) THEN veiled \cup {s} ELSE veiled
  /\ Onward(i) /\ Ingests
  /\ UNCHANGED <<owner, decision, audit, redirect, review, events, batches, faults,
                 contested, halted, exposed, untimely>>

(* Tables whose upsert overwrites the seller; the others keep it.          *)
TakesOwner == {"outreach_state", "suppression_list", "sources"}

(* The upsert of a link.                                                   *)
WriteLink(i) ==
  LET r == importer[i]
      l == DueLink(i)
  IN
  /\ Due(i, "link")
  /\ owner' = [owner EXCEPT ![l] = IF @ = NoSeller \/ Table[l] \in TakesOwner
                                    THEN r.owner ELSE @]
  /\ Expose(IF \/ Remapped(r) /\ Overtaken(r.decision)
               \/ (Remapped(r) \/ r.seen # "merged") /\ MissedMerge(r.owner, l)
            THEN {l} ELSE {})
  /\ Onward(i) /\ Ingests
  /\ UNCHANGED <<status, decision, audit, redirect, review, events, batches, faults,
                 contested, halted, veiled, untimely>>

(* A batch without a seller is stored with no look at decisions, and its   *)
(* source is overwritten: discovery and the notes of a cooldown send such. *)
StoreSource(s, l) ==
  /\ batches < MaxBatches
  /\ batches' = batches + 1
  /\ owner' = [owner EXCEPT ![l] = s]
  /\ Expose(IF MissedMerge(s, l) THEN {l} ELSE {})
  /\ Ingests
  /\ UNCHANGED <<status, decision, audit, redirect, review, events, importer, faults,
                 contested, halted, veiled, untimely>>

(* upsertResolutionDecision inserts or does nothing.                       *)
WriteDecision(i) ==
  LET r == importer[i]
      d == r.decision
      first == FirstStatus(r.kind)
  IN
  /\ Due(i, "decision")
  /\ decision' = [decision EXCEPT ![d] =
       IF @ = Undecided THEN [status |-> first, action |-> r.kind] ELSE @]
  /\ contested' = IF decision[d].status \in {"none", first} THEN contested
                  ELSE contested \cup {d}
  /\ Onward(i) /\ Ingests
  /\ UNCHANGED <<owner, status, audit, redirect, review, events, batches, faults,
                 halted, exposed, veiled, untimely>>

WriteRedirect(i) ==
  LET r == importer[i] IN
  /\ Due(i, "redirect")
  /\ redirect' = [redirect EXCEPT ![Seller[r.batch]] =
       [to |-> r.owner, by |-> r.decision, active |-> TRUE]]
  /\ Onward(i) /\ Ingests
  /\ UNCHANGED <<owner, status, decision, audit, review, events, batches, faults, history>>

Audited(old) == IF old = "none" THEN "open" ELSE old

(* upsertMergeLinkAudit inserts or does nothing.                           *)
WriteAudit(i) ==
  LET r == importer[i]
      l == DueLink(i)
  IN
  /\ Due(i, "audit")
  /\ audit' = [audit EXCEPT ![r.decision][l] = Audited(@)]
  /\ Expose(IF Overtaken(r.decision) THEN {l} ELSE {})
  /\ Onward(i) /\ Ingests
  /\ UNCHANGED <<owner, status, decision, redirect, review, events, batches, faults,
                 contested, halted, veiled, untimely>>

(* upsertReviewQueueItem: an item that is not pending keeps its status.    *)
WriteReview(i) ==
  LET d == importer[i].decision IN
  /\ Due(i, "review")
  /\ review' = [review EXCEPT ![d] = IF @ = "none" THEN "pending" ELSE @]
  /\ Onward(i) /\ Ingests
  /\ UNCHANGED <<owner, status, decision, audit, redirect, events, batches, faults, history>>

(* A statement of the commit fails: what is written stays, and the batch   *)
(* comes again as another one.                                             *)
FailImport(i) ==
  LET r == importer[i]
      made == {Statements(r)[k] : k \in 1..(r.at - 1)}
      bare == {l \in Links : <<"link", l>> \in made /\ audit[r.decision][l] # "open"}
  IN
  /\ r.pc # "idle"
  /\ faults < MaxFaults
  /\ faults' = faults + 1
  /\ Importing(i, Waiting(r.batch))
  /\ IF Remapped(r) /\ r.at > 1
     THEN Expose(bare) /\ veiled' = veiled \cup {Seller[r.batch]}
     ELSE UNCHANGED <<exposed, veiled>>
  /\ Ingests
  /\ UNCHANGED <<tables, batches, contested, halted, untimely>>

-----------------------------------------------------------------------------
(* The operator: applyDuplicateDecision.                                   *)

Operating(p, r) == operator' = [operator EXCEPT ![p] = r]

Operates == UNCHANGED <<importer, batches>>

At(p, point) == operator[p].pc = point

Go(p, point) == Operating(p, [operator[p] EXCEPT !.pc = point, !.at = 1])

(* The decisions that clash with work on d: two requests have a seller in  *)
(* common.                                                                 *)
Clashing(d) ==
  LET others == {operator[q].decision : q \in {r \in Operators : operator[r].pc # "idle"}}
      clash  == {e \in others : {e[1], e[2]} \cap {d[1], d[2]} # {}}
  IN
  IF clash = {} THEN {} ELSE clash \cup {d}

BeginUnchecked(p, d, action) ==
  /\ At(p, "idle")
  /\ requests < MaxRequests
  /\ decision[d].status \notin {"none", Expected(action)}
  /\ action = "rollback" => decision[d].status = "merged"
  /\ requests' = requests + 1
  /\ Operating(p, [Resting EXCEPT !.decision = d, !.action = action,
        !.pc = IF action = "rollback" THEN "recall"
               ELSE IF action = "merge" THEN "list" ELSE "decide"])
  /\ contested' = contested \cup Clashing(d)
  /\ Operates
  /\ UNCHANGED <<tables, faults, halted, exposed, veiled, untimely>>

(* The decision is read once.  What is decided already is only logged;     *)
(* only what is merged is rolled back; anything else must be pending.      *)
Begin(p, d, action) ==
  LET now == decision[d].status IN
  /\ At(p, "idle")
  /\ requests < MaxRequests
  /\ \/ now = Expected(action)
     \/ action = "rollback" /\ now = "merged"
     \/ action # "rollback" /\ now = "pending"
  /\ requests' = requests + 1
  /\ Operating(p, [Resting EXCEPT !.decision = d, !.action = action,
        !.pc = IF now = Expected(action) THEN "log"
               ELSE IF action = "rollback" THEN "recall"
               ELSE IF action = "merge" THEN "list" ELSE "decide"])
  /\ contested' = contested \cup Clashing(d)
  /\ Operates
  /\ UNCHANGED <<tables, faults, halted, exposed, veiled, untimely>>

(* listSellerLinks, table by table: the links of the candidate.            *)
List(p) ==
  LET r     == operator[p]
      found == r.links \cup {l \in Links : Table[l] = ListOrder[r.at]
                                           /\ owner[l] = Candidate(r.decision)}
  IN
  /\ At(p, "list")
  /\ Operating(p,
       IF r.at < Len(ListOrder) THEN [r EXCEPT !.links = found, !.at = @ + 1]
       ELSE [r EXCEPT !.links = found, !.at = 1, !.pc = IF found = {} THEN "move" ELSE "audit"])
  /\ Operates
  /\ UNCHANGED <<tables, requests, faults, history>>

AuditAnew(p) ==
  LET r == operator[p] IN
  /\ At(p, "audit")
  /\ audit' = [audit EXCEPT ![r.decision] =
       [l \in Links |-> IF l \in r.links THEN "open" ELSE "none"]]
  /\ Go(p, "move")
  /\ Operates
  /\ UNCHANGED <<owner, status, decision, redirect, review, events, requests, faults, history>>

(* upsertMergeLinkAudit, one link after the other. *)
Audit(p) ==
  LET r == operator[p] IN
  /\ At(p, "audit")
  /\ \E l \in r.links \ r.done :
       /\ audit' = [audit EXCEPT ![r.decision][l] = Audited(@)]
       /\ IF r.links = r.done \cup {l} THEN Go(p, "move")
          ELSE Operating(p, [r EXCEPT !.done = @ \cup {l}])
  /\ Operates
  /\ UNCHANGED <<owner, status, decision, redirect, review, events, requests, faults, history>>

(* reassignSellerLinks: whatever the candidate owns by now is moved.       *)
Move(p) ==
  LET r == operator[p]
      d == r.decision
      t == MoveOrder[r.at]
  IN
  /\ At(p, "move")
  /\ IF t = "sellers"
     THEN /\ status' = [status EXCEPT ![Candidate(d)] = "merged"]
          /\ UNCHANGED owner
     ELSE /\ owner' = [l \in Links |-> IF Table[l] = t /\ owner[l] = Candidate(d)
                                        THEN Matched(d) ELSE owner[l]]
          /\ UNCHANGED status
  /\ IF r.at < Len(MoveOrder) THEN Operating(p, [r EXCEPT !.at = @ + 1])
                              ELSE Go(p, "redirect")
  /\ Operates
  /\ UNCHANGED <<decision, audit, redirect, review, events, requests, faults, history>>

AddRedirect(p) ==
  LET d == operator[p].decision IN
  /\ At(p, "redirect")
  /\ redirect' = [redirect EXCEPT ![Candidate(d)] =
       [to |-> Matched(d), by |-> d, active |-> TRUE]]
  /\ Go(p, "decide")
  /\ Operates
  /\ UNCHANGED <<owner, status, decision, audit, review, events, requests, faults, history>>

(* updateResolutionDecision, by id alone. *)
Decide(p) ==
  LET r == operator[p] IN
  /\ At(p, "decide")
  /\ decision' = [decision EXCEPT ![r.decision].status = Expected(r.action)]
  /\ Go(p, "review")
  /\ Operates
  /\ UNCHANGED <<owner, status, audit, redirect, review, events, requests, faults, history>>

(* resolveReviewByEntity: nothing when there is no item (yet).             *)
ResolveReview(p) ==
  LET r == operator[p] IN
  /\ At(p, "review")
  /\ review' = [review EXCEPT ![r.decision] =
       IF @ = "none" THEN @ ELSE Expected(r.action)]
  /\ Go(p, "log")
  /\ Operates
  /\ UNCHANGED <<owner, status, decision, audit, redirect, events, requests, faults, history>>

(* writeDecisionAudit: the id of the event is made of decision and action. *)
Log(p) ==
  /\ At(p, "log")
  /\ events' = events \cup {<<operator[p].decision, operator[p].action>>}
  /\ Operating(p, Resting)
  /\ Operates
  /\ UNCHANGED <<owner, status, decision, audit, redirect, review, requests, faults, history>>

InCore(l) == Table[l] \in Members(CoreTables)

(* listMergeLinkAudits: those that are not rolled back.                    *)
Recall(p) ==
  LET r == operator[p]
      open == {l \in Links : audit[r.decision][l] = "open"}
  IN
  /\ At(p, "recall")
  /\ Operating(p, [r EXCEPT !.links = open,
       !.pc = IF open = {} THEN "activate"
              ELSE IF \E l \in open : InCore(l) THEN "restore" ELSE "reopen"])
  /\ Operates
  /\ UNCHANGED <<tables, requests, faults, history>>

RestoreCoreOnly(p) ==
  LET r == operator[p]
      d == r.decision
  IN
  /\ \/ At(p, "restore") \/ At(p, "restore_rest")
  /\ Go(p, IF At(p, "restore") THEN "reopen" ELSE "activate")
  /\ owner' = [l \in Links |-> IF l \in r.links /\ InCore(l) /\ owner[l] = Matched(d)
                                THEN Candidate(d) ELSE owner[l]]
  /\ Operates
  /\ UNCHANGED <<status, decision, audit, redirect, review, events, requests, faults, history>>

(* restoreSellerLinks, link after link, those of the core database first:  *)
(* a link goes back if it still is where this decision has put it.  When   *)
(* another merge has moved it on, nothing is done, and what the rollback   *)
(* of that merge does later is to put it where this decision had put it.   *)
Restore(p) ==
  LET r == operator[p]
      d == r.decision
      core == At(p, "restore")
      left == {l \in r.links \ r.done : InCore(l) = core}
  IN
  /\ core \/ At(p, "restore_rest")
  /\ \E l \in left :
       /\ owner' = [owner EXCEPT ![l] = IF @ = Matched(d) THEN Candidate(d) ELSE @]
       /\ untimely' = untimely \cup (IF MovedOn(d, l) THEN {<<l, Matched(d)>>} ELSE {})
       /\ IF left # {l} THEN Operating(p, [r EXCEPT !.done = @ \cup {l}])
          ELSE Operating(p, [r EXCEPT !.done = @ \cup {l},
                 !.pc = IF core THEN "reopen" ELSE "activate"])
  /\ Operates
  /\ UNCHANGED <<status, decision, audit, redirect, review, events, requests, faults,
                 contested, halted, exposed, veiled>>

ActivateWithLinks(p) ==
  LET r == operator[p] IN
  /\ \/ At(p, "reopen") \/ At(p, "activate")
  /\ status' = [status EXCEPT ![Candidate(r.decision)] =
       IF At(p, "reopen") THEN "active" ELSE @]
  /\ Go(p, IF At(p, "activate") THEN "close"
           ELSE IF r.links \subseteq r.done THEN "activate" ELSE "restore_rest")
  /\ Operates
  /\ UNCHANGED <<owner, decision, audit, redirect, review, events, requests, faults, history>>

(* The seller becomes active again after the links of the core database,   *)
(* and once more after all the others.                                     *)
Activate(p) ==
  LET r == operator[p] IN
  /\ \/ At(p, "reopen") \/ At(p, "activate")
  /\ status' = [status EXCEPT ![Candidate(r.decision)] = "active"]
  /\ Go(p, IF At(p, "activate") THEN "close"
           ELSE IF r.links \subseteq r.done THEN "activate" ELSE "restore_rest")
  /\ Operates
  /\ UNCHANGED <<owner, decision, audit, redirect, review, events, requests, faults, history>>

(* markMergeRolledBack: the audits, then the redirect. *)
CloseAudits(p) ==
  LET d == operator[p].decision IN
  /\ At(p, "close")
  /\ audit' = [audit EXCEPT ![d] =
       [l \in Links |-> IF @[l] = "open" THEN "rolled_back" ELSE @[l]]]
  /\ Go(p, "unredirect")
  /\ Operates
  /\ UNCHANGED <<owner, status, decision, redirect, review, events, requests, faults, history>>

EndRedirect(p) ==
  LET d == operator[p].decision IN
  /\ At(p, "unredirect")
  /\ redirect' = [s \in Sellers |->
       IF redirect[s].by = d THEN [redirect[s] EXCEPT !.active = FALSE] ELSE redirect[s]]
  /\ Go(p, "decide")
  /\ Operates
  /\ UNCHANGED <<owner, status, decision, audit, review, events, requests, faults, history>>

(* A statement fails, or the Worker dies: the operator may ask again.      *)
FailOperator(p) ==
  /\ ~At(p, "idle")
  /\ faults < MaxFaults
  /\ faults' = faults + 1
  /\ halted' = halted \cup {operator[p].decision}
  /\ Operating(p, Resting)
  /\ Operates
  /\ UNCHANGED <<tables, requests, contested, exposed, veiled, untimely>>

Next ==
  \/ \E source \in Bare : StoreSource(source[1], source[2])
  \/ \E i \in Importers :
       \/ \E b \in Batches : Find(i, b)
       \/ LookUp(i) \/ WriteSeller(i) \/ WriteLink(i) \/ WriteDecision(i)
       \/ WriteRedirect(i) \/ WriteAudit(i) \/ WriteReview(i) \/ FailImport(i)
  \/ \E p \in Operators :
       \/ \E d \in Decisions, action \in Actions : Begin(p, d, action)
       \/ List(p) \/ Audit(p) \/ Move(p) \/ AddRedirect(p) \/ Decide(p)
       \/ ResolveReview(p) \/ Log(p)
       \/ Recall(p) \/ Restore(p) \/ Activate(p) \/ CloseAudits(p) \/ EndRedirect(p)
       \/ FailOperator(p)

Spec == Init /\ [][Next]_vars

-----------------------------------------------------------------------------
(* Properties.                                                             *)

(* A commit is on its way that will audit link l for decision d.           *)
AuditToCome(d, l) ==
  \E i \in Importers : /\ importer[i].pc = "commit"
                       /\ Remapped(importer[i])
                       /\ importer[i].decision = d
                       /\ l \in Members(AllLinks(importer[i].batch))

(* Decision d accounts for link l being with the seller it is matched to.  *)
Accounts(d, l) == audit[d][l] = "open" \/ d \in contested \/ AuditToCome(d, l)

(* The sellers of a link, as the crawler sees it. *)
Home(l) == {Seller[b] : b \in {c \in Batches : l \in Members(AllLinks(c))}}
             \cup {source[1] : source \in {x \in Bare : x[2] = l}}

(***************************************************************************)
(* A link that is not with a seller of its own has an open audit row of a  *)
(* decision that moved it there, so that a rollback finds it: also when a  *)
(* merge failed and was repeated with fewer links to list, and when        *)
(* batches and merges overlap.  The exceptions are decisions worked on     *)
(* twice at once, links written in one of the windows of Expose, and links *)
(* that two merges moved one after the other: when the first is rolled     *)
(* back before the second, the second's rollback brings the link back to   *)
(* a seller it no longer belongs to, and nothing accounts for it.          *)
(***************************************************************************)
MovesAudited ==
  \A l \in Links :
    owner[l] # NoSeller /\ owner[l] \notin Home(l) =>
      \/ \E d \in Decisions : Matched(d) = owner[l] /\ Accounts(d, l)
      \/ l \in exposed
      \/ <<l, owner[l]>> \in untimely

(***************************************************************************)
(* docs/operations.md: rollback restores the rows recorded for the merge.  *)
(* None of them is left with the other seller, in none of the four         *)
(* databases, unless another decision accounts for its being there, or it  *)
(* was written in one of the windows of Expose.  This is so only of merges *)
(* that are rolled back last one first: in the other order the code leaves *)
(* a link that both had moved with the wrong seller (untimely), though     *)
(* both are rolled back.                                                   *)
(***************************************************************************)
RollbackRestores ==
  \A d \in Decisions \ contested : decision[d].status = "rolled_back" =>
    \A l \in Links : audit[d][l] # "none" /\ owner[l] = Matched(d) =>
      \/ Matched(d) \in Home(l)
      \/ \E e \in Decisions \ {d} : Matched(e) = Matched(d) /\ Accounts(e, l)
      \/ l \in exposed
      \/ <<l, Matched(d)>> \in untimely

(***************************************************************************)
(* A pair that is kept separate, ignored, or too unlike to merge has had   *)
(* no link moved in its name, and none is redirected.  Only a merge that   *)
(* failed half-way, before it was kept separate, breaks this, or two       *)
(* requests at once.                                                       *)
(***************************************************************************)
SeparateStaysSeparate ==
  \A d \in Decisions \ (contested \cup halted) :
    decision[d].status \in {"no_merge", "kept_separate", "ignored"} =>
      /\ redirect[Candidate(d)].by # d
      /\ \A l \in Links : audit[d][l] = "none"

(***************************************************************************)
(* When the operator has merged a seller, no link stays behind with it,    *)
(* and those of later batches follow, unless a batch had not found the     *)
(* merge and brought the link to the merged seller (exposed): it looked    *)
(* before the merge, or when the other seller was no longer active, or it  *)
(* has no seller and does not look at all.                                 *)
(* A link that another decision has moved to the seller may be there, and  *)
(* one that two decisions about the seller have listed comes back with     *)
(* the rollback of one of them, although the other stands.                 *)
(***************************************************************************)
MergeComplete ==
  \A d \in Decisions \ (contested \cup halted) :
    /\ decision[d] = [status |-> "merged", action |-> "review_queue"]
    /\ ~RollingBack(d)
    => \A l \in Links : owner[l] = Candidate(d) =>
         \/ l \in exposed
         \/ \E e \in Decisions \ {d} :
              \/ Matched(e) = Candidate(d) /\ (audit[e][l] = "open" \/ e \in contested)
              \/ Candidate(e) = Candidate(d) /\ audit[e][l] # "none"

(***************************************************************************)
(* A seller is hidden as merged only while a decision says so, or a merge  *)
(* that will is on its way: no rollback leaves it hidden.                  *)
(***************************************************************************)
HiddenForAReason ==
  \A s \in Sellers : status[s] = "merged" =>
    \/ s \in veiled
    \/ \E d \in Decisions : Candidate(d) = s
         /\ \/ decision[d].status = "merged" \/ d \in contested \cup halted
            \/ \E p \in Operators : Working(p, d, "merge")
    \/ \E i \in Importers : /\ importer[i].pc = "commit"
                             /\ Seller[importer[i].batch] = s
                             /\ Remapped(importer[i])
=============================================================================
