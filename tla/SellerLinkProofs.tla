------------------------- MODULE SellerLinkProofs --------------------------
(***************************************************************************)
(* Where the links of merged sellers are, for any sellers, links and       *)
(* batches, any number of operators and of batches at once, and any number *)
(* of requests that fail half way: MovesAudited, RollbackRestores and      *)
(* MergeComplete.                                                          *)
(*                                                                         *)
(* The inductive invariant LinkInv is added to MergeInv.  Its centre is    *)
(* Settled: some decision answers for a link being with a seller.  That    *)
(* is kept while a link goes from hand to hand because it also holds of    *)
(* the sellers a link may go back to (LinksSettled, RequestSettled), and   *)
(* because a rollback gives up its audits only when it has been everywhere *)
(* and nothing rests on them any more (RollbackKnows).  Nothing does only  *)
(* when merges are rolled back last one first: what the other order leaves *)
(* behind is in untimely, and left out of what is proved.                  *)
(***************************************************************************)
EXTENDS SellerMergeProofs

(* A commit that has written link l for the seller decision d has found,   *)
(* and not audited it yet.                                                 *)
Unaudited(r, d, l) ==
  /\ r.pc = "commit" /\ Remapped(r) /\ r.decision = d
  /\ \E k \in 1..(r.at - 1) : Statements(r)[k] = <<"link", l>>
  /\ \E k \in r.at..Len(Statements(r)) : Statements(r)[k] = <<"audit", l>>

(* Decision d answers for link l being with the seller it is matched to.   *)
Holds(d, l) ==
  \/ audit[d][l] = "open"
  \/ d \in contested
  \/ audit[d][l] = "none" /\ \E i \in Importers : Unaudited(importer[i], d, l)

(* Link l may be with seller s: it is at home there, or a decision that is *)
(* not one of those in gone answers for it.                                *)
Settled(l, s, gone) ==
  \/ l \in exposed
  \/ <<l, s>> \in untimely
  \/ s \in Home(l)
  \/ \E e \in Decisions \ gone : Matched(e) = s /\ Holds(e, l)

(* Where a link is, and where a rollback will put it.                      *)
LinksSettled ==
  \A l \in Links :
    /\ \A s \in Sellers : owner[l] = s => Settled(l, s, {})
    /\ \A e \in Decisions : audit[e][l] = "open" => Settled(l, Candidate(e), {})

(* What a merge is going to audit, and a rollback to put back.             *)
RequestSettled ==
  \A p \in Operators, d \in Decisions : Worked(p, d) =>
    \A l \in operator[p].links : Settled(l, Candidate(d), {})

(* Request r has the table of link l behind it.                            *)
Read(r, l) ==
  r.pc = "list" => Table[l] \in {ListOrder[k] : k \in 1..(r.at - 1)}

(* A merge has listed what its candidate owns, and audits what it listed.  *)
MergeKnows(p, d) ==
  Working(p, d, "merge") /\ d \notin contested =>
    /\ operator[p].pc \in {"list", "audit", "move"} =>
         \A l \in Links : Read(operator[p], l) /\ owner[l] = Candidate(d) =>
           l \in operator[p].links \cup exposed
    /\ operator[p].pc = "list" => operator[p].done = {}
    /\ operator[p].pc = "audit" => \A l \in operator[p].done : audit[d][l] = "open"
    /\ operator[p].pc = "move" => \A l \in operator[p].links : audit[d][l] = "open"

(* Merge r has moved link l, if it was with its candidate.                 *)
MovedPast(r, l) ==
  \/ r.pc \in {"redirect", "decide"}
  \/ r.pc = "move" /\ Table[l] \in {MoveOrder[k] : k \in 1..(r.at - 1)}

(* The merge of d has been at link l for the last time.                    *)
Cleared(d, l) ==
  /\ Orderly(d)
  /\ \/ decision[d] = [status |-> "merged", action |-> "review_queue"] /\ ~RollingBack(d)
     \/ \E p \in Operators : Working(p, d, "merge") /\ MovedPast(operator[p], l)

(* Nothing rests on the audit of decision d for link l any more.           *)
Freed(d, l) ==
  /\ owner[l] = Matched(d) \/ MovedOn(d, l) => Settled(l, Matched(d), {d})
  /\ owner[l] = Matched(d) =>
       l \in exposed \/ \A e \in Decisions : Cleared(e, l) => Candidate(e) # Matched(d)

Restoring == {"restore", "reopen", "restore_rest", "activate", "close"}

(* A rollback goes through the links it has recalled, those of the core    *)
(* database first.                                                         *)
RollbackKnows(p, d) ==
  Working(p, d, "rollback") =>
    /\ operator[p].pc = "recall" => operator[p].done = {}
    /\ operator[p].pc \in Restoring => \A l \in operator[p].links : audit[d][l] # "none"
    /\ operator[p].pc \in {"reopen", "restore_rest"} =>
         \A l \in operator[p].links : InCore(l) => l \in operator[p].done
    /\ operator[p].pc \in {"activate", "close"} => operator[p].links \subseteq operator[p].done
    /\ operator[p].pc \in Restoring /\ d \notin contested =>
         \A l \in Links :
           audit[d][l] = "open" /\ (l \in operator[p].links => l \in operator[p].done) => Freed(d, l)

(* A rollback of d has closed its audits.                                  *)
Closed(d) ==
  \/ decision[d].status = "rolled_back"
  \/ \E p \in Operators : Working(p, d, "rollback") /\ operator[p].pc \in {"unredirect", "decide"}

(* Only a rollback closes audits, and those that are opened afterwards are *)
(* of links written in a window.                                           *)
ClosedSound(d) ==
  d \notin contested => \A l \in Links :
    /\ audit[d][l] = "rolled_back" => Overtaken(d) /\ Merged(d)
    /\ Closed(d) /\ audit[d][l] = "open" => l \in exposed

(* How a link may be with the candidate of d after the merge of d.         *)
Returned(d, l) ==
  \E e \in Decisions \ {d} :
    \/ Matched(e) = Candidate(d) /\ (audit[e][l] = "open" \/ e \in contested)
    \/ Candidate(e) = Candidate(d) /\ audit[e][l] # "none"

MergedAway(d) ==
  \A l \in Links : Cleared(d, l) /\ owner[l] = Candidate(d) => l \in exposed \/ Returned(d, l)

(* What a commit has audited stays audited.                                *)
Passed(r, audits) ==
  r.pc = "commit" =>
    \A k \in 1..(r.at - 1) : Statements(r)[k][1] = "audit" =>
      audits[r.decision][Statements(r)[k][2]] # "none"

CommitAudits == \A i \in Importers : Passed(importer[i], audit)

Share(d, e) == {d[1], d[2]} \cap {e[1], e[2]} # {}

(* Two requests do not work on one seller, unless both are contested.      *)
Apart ==
  \A p, q \in Operators, d, e \in Decisions :
    p # q /\ Worked(p, d) /\ Worked(q, e) /\ Share(d, e) => d \in contested

WorkInv ==
  /\ LinksSettled
  /\ RequestSettled
  /\ \A p \in Operators, d \in Decisions : MergeKnows(p, d) /\ RollbackKnows(p, d)
  /\ \A d \in Decisions : ClosedSound(d) /\ MergedAway(d)
  /\ Apart

LinkInv == WorkInv /\ CommitAudits

-----------------------------------------------------------------------------
(* The links of a batch among the statements of its commit.                *)

LEMMA MembersIn ==
  ASSUME NEW S, NEW s \in Seq(S)
  PROVE  Members(s) \subseteq S /\ s \in Seq(Members(s)) /\ Members(s) = {s[k] : k \in 1..Len(s)}
<1>1. Len(s) \in Nat /\ DOMAIN s = 1..Len(s) /\ s \in [1..Len(s) -> S]
  OBVIOUS
<1>2. Members(s) = {s[k] : k \in 1..Len(s)}
  BY <1>1 DEF Members
<1>3. Members(s) \subseteq S /\ s \in [1..Len(s) -> Members(s)]
  BY <1>1, <1>2
<1> DEFINE M == Members(s)
<1>4. s \in [1..Len(s) -> M]
  BY <1>3
<1> HIDE DEF M
<1>5. s \in Seq(M)
  BY <1>1, <1>4, SeqDef
<1> QED
  BY <1>2, <1>3, <1>5 DEF M

LEMMA MembersConcat ==
  ASSUME NEW S, NEW s \in Seq(S), NEW t \in Seq(S)
  PROVE  s \o t \in Seq(S) /\ Members(s \o t) = Members(s) \cup Members(t)
<1>1. /\ s \o t \in Seq(S)
      /\ Len(s \o t) = Len(s) + Len(t)
      /\ \A k \in 1..(Len(s) + Len(t)) :
           (s \o t)[k] = IF k <= Len(s) THEN s[k] ELSE t[k - Len(s)]
  BY ConcatProperties
<1>2. Len(s) \in Nat /\ Len(t) \in Nat
  OBVIOUS
<1>3. /\ Members(s \o t) = {(s \o t)[k] : k \in 1..(Len(s) + Len(t))}
      /\ Members(s) = {s[k] : k \in 1..Len(s)}
      /\ Members(t) = {t[k] : k \in 1..Len(t)}
  BY <1>1, MembersIn
<1>4. ASSUME NEW k \in 1..(Len(s) + Len(t))
      PROVE  (s \o t)[k] \in Members(s) \cup Members(t)
  <2>1. CASE k <= Len(s)
    BY <1>1, <1>2, <1>3, <2>1
  <2>2. CASE ~(k <= Len(s))
    <3>1. k - Len(s) \in 1..Len(t)
      BY <1>2, <2>2
    <3> QED
      BY <1>1, <1>3, <2>2, <3>1
  <2> QED
    BY <2>1, <2>2
<1>5. ASSUME NEW k \in 1..Len(s)
      PROVE  s[k] \in Members(s \o t)
  <2>1. k \in 1..(Len(s) + Len(t)) /\ k <= Len(s)
    BY <1>2
  <2> QED
    BY <1>1, <1>3, <2>1
<1>6. ASSUME NEW k \in 1..Len(t)
      PROVE  t[k] \in Members(s \o t)
  <2>1. k + Len(s) \in 1..(Len(s) + Len(t)) /\ ~(k + Len(s) <= Len(s))
        /\ (k + Len(s)) - Len(s) = k
    BY <1>2
  <2> QED
    BY <1>1, <1>3, <2>1
<1> QED
  BY <1>1, <1>3, <1>4, <1>5, <1>6

LEMMA MembersEach ==
  ASSUME NEW seq \in Seq(Links), NEW do
  PROVE  Members(Each(do, seq)) = {do} \X Members(seq)
<1>1. DOMAIN Each(do, seq) = DOMAIN seq
      /\ \A k \in DOMAIN seq : Each(do, seq)[k] = <<do, seq[k]>>
  BY DEF Each
<1> DEFINE e == Each(do, seq)
<1>2. DOMAIN e = DOMAIN seq /\ \A k \in DOMAIN seq : e[k] = <<do, seq[k]>>
  BY <1>1
<1> HIDE DEF e
<1>3. ASSUME NEW k \in DOMAIN seq
      PROVE  <<do, seq[k]>> \in {e[m] : m \in DOMAIN e}
  <2>1. k \in DOMAIN e /\ e[k] = <<do, seq[k]>>
    BY <1>2
  <2> QED
    BY <2>1, Zenon
<1>4. ASSUME NEW k \in DOMAIN e
      PROVE  e[k] \in {do} \X {seq[m] : m \in DOMAIN seq}
  <2>1. k \in DOMAIN seq /\ e[k] = <<do, seq[k]>>
    BY <1>2
  <2>2. seq[k] \in {seq[m] : m \in DOMAIN seq}
    BY <2>1, Zenon
  <2> QED
    BY <2>1, <2>2
<1>5. {e[k] : k \in DOMAIN e} \subseteq {do} \X {seq[k] : k \in DOMAIN seq}
  BY <1>4
<1>6. {do} \X {seq[k] : k \in DOMAIN seq} \subseteq {e[k] : k \in DOMAIN e}
  BY <1>3
<1> QED
  BY <1>5, <1>6 DEF Members, e

LEMMA LinksOfBatch ==
  ASSUME NEW b \in Batches
  PROVE  /\ Members(AllLinks(b)) \subseteq Links
         /\ Members(AllLinks(b)) =
              Members(Brings[b].core) \cup Members(Brings[b].contacts)
                \cup Members(Brings[b].operations) \cup Members(Brings[b].history)
<1> DEFINE s == Brings[b].core
           t == Brings[b].contacts
           u == Brings[b].operations
           v == Brings[b].history
<1>1. s \in Seq(Links) /\ t \in Seq(Links) /\ u \in Seq(Links) /\ v \in Seq(Links)
  BY BringsOK
<1>2. AllLinks(b) = s \o t \o u \o v
  BY DEF AllLinks
<1> HIDE DEF s, t, u, v
<1>3. s \o t \in Seq(Links) /\ Members(s \o t) = Members(s) \cup Members(t)
  BY <1>1, MembersConcat
<1> DEFINE two == s \o t
<1> HIDE DEF two
<1>4. two \o u \in Seq(Links) /\ Members(two \o u) = Members(two) \cup Members(u)
  <2>1. two \in Seq(Links)
    BY <1>3 DEF two
  <2> QED
    BY <1>1, <2>1, MembersConcat
<1> DEFINE three == two \o u
<1> HIDE DEF three
<1>5. three \o v \in Seq(Links) /\ Members(three \o v) = Members(three) \cup Members(v)
  <2>1. three \in Seq(Links)
    BY <1>4 DEF three
  <2> QED
    BY <1>1, <2>1, MembersConcat
<1>6. AllLinks(b) = three \o v
  BY <1>2 DEF two, three
<1>7. Members(AllLinks(b)) = Members(s) \cup Members(t) \cup Members(u) \cup Members(v)
  BY <1>3, <1>4, <1>5, <1>6 DEF two, three
<1>8. Members(AllLinks(b)) \subseteq Links
  BY <1>5, <1>6, MembersIn
<1> QED
  BY <1>7, <1>8 DEF s, t, u, v

(* What a commit writes is of its batch, and when the batch goes to        *)
(* another seller, each of its links is audited.                           *)
LEMMA CommitOfBatch ==
  ASSUME NEW r, r.batch \in Batches
  PROVE  /\ Statements(r) \in Seq(AnyStatement)
         /\ \A x \in Members(Statements(r)) :
              x[1] \in {"link", "audit"} => x[2] \in Members(AllLinks(r.batch))
         /\ Remapped(r) => \A l \in Members(AllLinks(r.batch)) :
                             <<"audit", l>> \in Members(Statements(r))
<1> DEFINE all   == Members(AllLinks(r.batch))
           links == Brings[r.batch]
           Once(condition, do) == IF condition THEN << <<do, NoLink>> >> ELSE <<>>
           audited    == IF Remapped(r) THEN AllLinks(r.batch) ELSE <<>>
           first      == << <<"seller", NoLink>> >>
           core       == Each("link", links.core)
           decisions  == Once(r.kind # "none", "decision")
           redirects  == Once(r.kind = "auto_merge", "redirect")
           audits     == Each("audit", audited)
           contacts   == Each("link", links.contacts)
           operations == Each("link", links.operations)
           reviews    == Once(r.kind = "review_queue", "review")
           past       == Each("link", links.history)
           Fits(x)    == x[1] \in {"link", "audit"} => x[2] \in all
           All(s)     == s \in Seq(AnyStatement) /\ \A x \in Members(s) : Fits(x)
<1>1. /\ links.core \in Seq(Links) /\ links.contacts \in Seq(Links)
      /\ links.operations \in Seq(Links) /\ links.history \in Seq(Links)
      /\ AllLinks(r.batch) \in Seq(Links) /\ audited \in Seq(Links)
  BY BringsOK
<1>2. /\ Members(links.core) \subseteq all /\ Members(links.contacts) \subseteq all
      /\ Members(links.operations) \subseteq all /\ Members(links.history) \subseteq all
      /\ Members(audited) \subseteq all
  <2>1. Members(<<>>) = {}
    BY DEF Members
  <2>2. audited = AllLinks(r.batch) \/ audited = <<>>
    OBVIOUS
  <2> HIDE DEF audited
  <2>3. Members(audited) \subseteq all
    BY <2>1, <2>2
  <2> QED
    BY <2>3, LinksOfBatch
<1>3. ASSUME NEW do \in {"link", "audit"}, NEW seq \in Seq(Links), Members(seq) \subseteq all
      PROVE  All(Each(do, seq))
  <2>1. {do} \X Links \subseteq AnyStatement
    BY DEF AnyStatement, Deeds
  <2>2. Each(do, seq) \in Seq({do} \X Links)
    BY EachOK
  <2>3. Each(do, seq) \in Seq(AnyStatement)
    BY <2>1, <2>2, WiderSeq
  <2>4. Members(Each(do, seq)) = {do} \X Members(seq)
    BY MembersEach
  <2> QED
    BY <1>3, <2>3, <2>4
<1>4. ASSUME NEW do \in Deeds \ {"link", "audit"}, NEW condition
      PROVE  All(Once(condition, do)) /\ All(<< <<do, NoLink>> >>)
  <2>1. All(<< <<do, NoLink>> >>)
    BY DEF AnyStatement, Members
  <2>2. All(<<>>)
    BY DEF Members
  <2> QED
    BY <2>1, <2>2
<1>5. ASSUME NEW s, NEW t, All(s), All(t)
      PROVE  All(s \o t) /\ Members(s) \subseteq Members(s \o t)
             /\ Members(t) \subseteq Members(s \o t)
  BY <1>5, MembersConcat
<1>6. All(first) /\ All(decisions) /\ All(redirects) /\ All(reviews)
  <2>1. \A do \in {"seller", "decision", "redirect", "review"} :
          do \in Deeds \ {"link", "audit"}
    BY DEF Deeds
  <2> HIDE DEF All, Once
  <2> QED
    BY <1>4, <2>1
<1>7. All(core) /\ All(audits) /\ All(contacts) /\ All(operations) /\ All(past)
  BY <1>1, <1>2, <1>3
<1>8. Members(audits) = {"audit"} \X Members(audited)
  BY <1>1, MembersEach
<1>9. Statements(r) = first \o core \o decisions \o redirects \o audits \o contacts
                        \o operations \o reviews \o past
  BY DEF Statements
<1>10. Remapped(r) => audited = AllLinks(r.batch)
  OBVIOUS
<1> HIDE DEF first, core, decisions, redirects, audits, audited, contacts, operations, reviews,
             past, All
<1>11. All(first \o core)
  BY <1>5, <1>6, <1>7
<1>12. All(first \o core \o decisions)
  BY <1>5, <1>6, <1>11
<1>13. All(first \o core \o decisions \o redirects)
  BY <1>5, <1>6, <1>12
<1>14. /\ All(first \o core \o decisions \o redirects \o audits)
       /\ Members(audits) \subseteq Members(first \o core \o decisions \o redirects \o audits)
  BY <1>5, <1>7, <1>13
<1>15. /\ All(first \o core \o decisions \o redirects \o audits \o contacts)
       /\ Members(audits) \subseteq
            Members(first \o core \o decisions \o redirects \o audits \o contacts)
  BY <1>5, <1>7, <1>14
<1>16. /\ All(first \o core \o decisions \o redirects \o audits \o contacts \o operations)
       /\ Members(audits) \subseteq
            Members(first \o core \o decisions \o redirects \o audits \o contacts
                      \o operations)
  BY <1>5, <1>7, <1>15
<1>17. /\ All(first \o core \o decisions \o redirects \o audits \o contacts \o operations
                \o reviews)
       /\ Members(audits) \subseteq
            Members(first \o core \o decisions \o redirects \o audits \o contacts
                      \o operations \o reviews)
  BY <1>5, <1>6, <1>16
<1>18. All(Statements(r)) /\ Members(audits) \subseteq Members(Statements(r))
  BY <1>5, <1>7, <1>9, <1>17
<1>19. Remapped(r) => \A l \in all : <<"audit", l>> \in Members(Statements(r))
  BY <1>8, <1>10, <1>18
<1> QED
  BY <1>18, <1>19 DEF All

-----------------------------------------------------------------------------
(* What keeps a link settled.                                              *)

(* A step that leaves decision e answering for link l, or exposes l.       *)
Kept(e, l) == Holds(e, l) => Holds(e, l)' \/ l \in exposed'

LEMMA SettledStays ==
  ASSUME NEW l, NEW s, NEW gone, Settled(l, s, gone),
         exposed \subseteq exposed' /\ untimely \subseteq untimely',
         \A e \in Decisions \ gone : Matched(e) = s => Kept(e, l)
  PROVE  Settled(l, s, gone)'
BY DEF Settled, Kept

(* A step of the operator keeps what decision e answers for, but when it   *)
(* closes the audits of e.                                                 *)
LEMMA OperatorKeeps ==
  ASSUME NEW e, NEW l, importer' = importer, contested \subseteq contested',
         audit'[e][l] = audit[e][l] \/ audit'[e][l] = "open" \/ e \in contested
  PROVE  Kept(e, l)
<1>1. \A i \in Importers : Unaudited(importer[i], e, l)' <=> Unaudited(importer[i], e, l)
  BY DEF Unaudited, Remapped, Statements
<1> QED
  BY <1>1 DEF Kept, Holds

-----------------------------------------------------------------------------
(* Ingestion.                                                              *)

(* A link that is written for seller s, which it was not with.             *)
Lands(l, s) ==
  owner'[l] = s /\ owner[l] # s =>
    \/ l \in exposed'
    \/ /\ ~MissedMerge(s, l)
       /\ \/ s \in Home(l)
          \/ \E e \in Decisions : Matched(e) = s /\ ~Overtaken(e) /\ Holds(e, l)'

(* An audit that is written, and a decision.                               *)
Opens(e, l) ==
  audit'[e][l] # audit[e][l] =>
    /\ audit[e][l] = "none" /\ audit'[e][l] = "open" /\ Candidate(e) \in Home(l)
    /\ Overtaken(e) => l \in exposed'

Takes(e) ==
  decision'[e] # decision[e] =>
    /\ decision[e].status = "none"
    /\ decision'[e].status \notin {"none", "rolled_back"}
    /\ decision'[e] # [status |-> "merged", action |-> "review_queue"]

(* A step of ingestion, as far as the links are concerned.                 *)
Writes ==
  /\ operator' = operator /\ halted' = halted
  /\ contested \subseteq contested' /\ exposed \subseteq exposed' /\ untimely \subseteq untimely'
  /\ \A e \in Decisions : Takes(e)
  /\ \A e \in Decisions, l \in Links : Kept(e, l) /\ Opens(e, l)
  /\ \A l \in Links, s \in Sellers : Lands(l, s)

LEMMA WritesRequests ==
  ASSUME Writes
  PROVE  /\ \A p \in Operators : \A d, action : Working(p, d, action)' <=> Working(p, d, action)
         /\ \A p \in Operators : \A d : Worked(p, d)' <=> Worked(p, d)
         /\ \A d : RollingBack(d)' <=> RollingBack(d)
         /\ \A p \in Operators : \A l : Read(operator[p], l)' <=> Read(operator[p], l)
         /\ \A p \in Operators : operator'[p] = operator[p]
BY DEF Writes, Working, Worked, RollingBack, Read, ListOrder, LinkTables, CoreTables,
       ContactTables, OperationTables, HistoryTables

(* A step of ingestion clears nothing, and what is cleared is no place for *)
(* a link to be written to.                                                *)
LEMMA WritesCleared ==
  ASSUME Writes, NEW d \in Decisions, NEW l \in Links, Cleared(d, l)'
  PROVE  Cleared(d, l) /\ MissedMerge(Candidate(d), l)
<1>1. Orderly(d) /\ (RollingBack(d)' <=> RollingBack(d))
  BY WritesRequests DEF Cleared, Orderly, Writes
<1>2. CASE decision'[d] = [status |-> "merged", action |-> "review_queue"] /\ ~RollingBack(d)'
  <2>1. decision[d] = decision'[d]
    BY <1>2 DEF Writes, Takes
  <2> QED
    BY <1>1, <1>2, <2>1 DEF Cleared, MissedMerge
<1>3. ASSUME NEW p \in Operators, Working(p, d, "merge"), MovedPast(operator[p], l)
      PROVE  Cleared(d, l) /\ MissedMerge(Candidate(d), l)
  <2>1. Listed(d, l)
    BY <1>3 DEF Listed, MovedPast
  <2>2. Cleared(d, l)
    BY <1>1, <1>3 DEF Cleared
  <2> QED
    BY <2>1, <2>2 DEF MissedMerge
<1>4. (\E p \in Operators : Working(p, d, "merge") /\ MovedPast(operator[p], l))'
       => \E p \in Operators : Working(p, d, "merge") /\ MovedPast(operator[p], l)
  <2>1. \A p \in Operators : MovedPast(operator[p], l)' <=> MovedPast(operator'[p], l)
    BY DEF MovedPast, MoveOrder, CoreTables, ContactTables, OperationTables, HistoryTables
  <2> QED
    BY <2>1, WritesRequests
<1> QED
  BY <1>2, <1>3, <1>4 DEF Cleared

LEMMA WritesOvertaken ==
  ASSUME Writes, NEW d \in Decisions, Overtaken(d)
  PROVE  Overtaken(d)'
BY WritesRequests DEF Overtaken, Writes, Takes

LEMMA WritesLinks ==
  ASSUME LinksSettled, Writes
  PROVE  LinksSettled'
<1>1. ASSUME NEW l \in Links, NEW s \in Sellers, owner'[l] = s
      PROVE  Settled(l, s, {})'
  <2>1. CASE owner[l] = s
    BY <2>1, SettledStays DEF LinksSettled, Writes
  <2>2. CASE owner[l] # s
    BY <1>1, <2>2 DEF Writes, Lands, Settled
  <2> QED
    BY <2>1, <2>2
<1>2. ASSUME NEW l \in Links, NEW e \in Decisions, audit'[e][l] = "open"
      PROVE  Settled(l, Candidate(e), {})'
  <2>1. CASE audit[e][l] = "open"
    BY <2>1, SettledStays DEF LinksSettled, Writes
  <2>2. CASE audit[e][l] # "open"
    BY <1>2, <2>2 DEF Writes, Opens, Settled
  <2> QED
    BY <2>1, <2>2
<1> QED
  BY <1>1, <1>2 DEF LinksSettled

LEMMA LinksOfRequest ==
  ASSUME SoundInv, NEW p \in Operators
  PROVE  operator[p].links \subseteq Links /\ operator[p].done \subseteq Links
BY DEF SoundInv, TypeOK, OperatorRequest

LEMMA WritesOperator ==
  ASSUME SoundInv, RequestSettled, Apart, Writes
  PROVE  RequestSettled' /\ Apart'
<1>1. RequestSettled'
  <2> SUFFICES ASSUME NEW p \in Operators, NEW d \in Decisions, Worked(p, d)',
                      NEW l \in operator'[p].links
               PROVE  Settled(l, Candidate(d), {})'
    BY DEF RequestSettled
  <2>1. Worked(p, d) /\ operator'[p] = operator[p]
    BY WritesRequests
  <2>2. Settled(l, Candidate(d), {})
    BY <2>1 DEF RequestSettled
  <2>3. /\ exposed \subseteq exposed' /\ untimely \subseteq untimely'
        /\ \A e \in Decisions : Kept(e, l)
    BY <2>1, LinksOfRequest DEF Writes
  <2> QED
    BY <2>2, <2>3, SettledStays
<1>2. Apart'
  BY WritesRequests DEF Apart, Writes
<1> QED
  BY <1>1, <1>2

LEMMA WritesMerge ==
  ASSUME SoundInv, Writes, NEW p \in Operators, NEW d \in Decisions, MergeKnows(p, d)
  PROVE  MergeKnows(p, d)'
<1> SUFFICES ASSUME Working(p, d, "merge"), d \notin contested, MergeKnows(p, d)
             PROVE  MergeKnows(p, d)'
  BY WritesRequests DEF MergeKnows, Writes
<1> PICK r : r = operator[p]
  OBVIOUS
<1>1. operator'[p] = r /\ operator[p] = r
  BY WritesRequests
<1>2. ASSUME NEW l \in Links, audit[d][l] = "open"
      PROVE  audit'[d][l] = "open"
  BY <1>2 DEF Writes, Opens
<1>3. ASSUME r.pc \in {"list", "audit", "move"},
             NEW l \in Links, Read(operator[p], l), owner'[l] = Candidate(d)
      PROVE  l \in r.links \cup exposed'
  <2>1. CASE owner[l] = Candidate(d)
    BY <1>1, <1>3, <2>1 DEF MergeKnows, Writes
  <2>2. CASE owner[l] # Candidate(d)
    <3>1. MissedMerge(Candidate(d), l)
      BY <1>3 DEF MissedMerge, Listed, Read
    <3> QED
      BY <1>3, <2>2, <3>1, DecisionsOK DEF Writes, Lands
  <2> QED
    BY <2>1, <2>2
<1>4. \A l : Read(operator[p], l)' <=> Read(operator[p], l)
  BY WritesRequests
<1>5. r.pc = "list" => r.done = {}
  BY <1>1 DEF MergeKnows
<1>6. r.pc = "audit" => \A l \in r.done : audit'[d][l] = "open"
  <2> SUFFICES ASSUME r.pc = "audit", NEW l \in r.done PROVE audit'[d][l] = "open"
    OBVIOUS
  <2>1. l \in Links /\ audit[d][l] = "open"
    BY <1>1, LinksOfRequest DEF MergeKnows
  <2> QED
    BY <1>2, <2>1
<1>7. r.pc = "move" => \A l \in r.links : audit'[d][l] = "open"
  <2> SUFFICES ASSUME r.pc = "move", NEW l \in r.links PROVE audit'[d][l] = "open"
    OBVIOUS
  <2>1. l \in Links /\ audit[d][l] = "open"
    BY <1>1, LinksOfRequest DEF MergeKnows
  <2> QED
    BY <1>2, <2>1
<1> QED
  BY <1>1, <1>3, <1>4, <1>5, <1>6, <1>7 DEF MergeKnows

LEMMA WritesFreed ==
  ASSUME SoundInv, Writes, NEW d \in Decisions, RollingBack(d), NEW l \in Links,
         audit'[d][l] = "open", audit[d][l] = "open" => Freed(d, l)
  PROVE  Freed(d, l)'
<1>1. /\ Overtaken(d) /\ Matched(d) \in Sellers
      /\ exposed \subseteq exposed' /\ untimely \subseteq untimely'
  BY DecisionsOK DEF Overtaken, Writes
<1>2. CASE l \in exposed'
  BY <1>2 DEF Freed, Settled
<1>3. CASE l \notin exposed'
  <2>1. audit[d][l] = "open" /\ Freed(d, l)
    BY <1>1, <1>3 DEF Writes, Opens
  <2>2. Settled(l, Matched(d), {d}) => Settled(l, Matched(d), {d})'
    BY SettledStays DEF Writes
  <2>3. CASE owner[l] = Matched(d)
    BY <1>1, <1>3, <2>1, <2>2, <2>3, WritesCleared DEF Freed
  <2>4. CASE owner[l] # Matched(d) /\ owner'[l] = Matched(d)
    <3>1. /\ ~MissedMerge(Matched(d), l)
          /\ \/ Matched(d) \in Home(l)
             \/ \E e \in Decisions : Matched(e) = Matched(d) /\ ~Overtaken(e) /\ Holds(e, l)'
      BY <1>1, <1>3, <2>4 DEF Writes, Lands
    <3>2. Settled(l, Matched(d), {d})'
      BY <1>1, <3>1 DEF Settled
    <3> QED
      BY <3>1, <3>2, WritesCleared DEF Freed
  <2>5. CASE owner[l] # Matched(d) /\ owner'[l] # Matched(d)
    <3> SUFFICES ASSUME NEW e \in Decisions \ {d}, Candidate(e) = Matched(d),
                        audit'[e][l] = "open"
                 PROVE  Settled(l, Matched(d), {d})'
      BY <2>5 DEF Freed, MovedOn
    <3>1. CASE audit[e][l] = "open"
      BY <2>1, <2>2, <3>1 DEF Freed, MovedOn
    <3>2. CASE audit[e][l] # "open"
      BY <3>2 DEF Writes, Opens, Settled
    <3> QED
      BY <3>1, <3>2
  <2> QED
    BY <2>3, <2>4, <2>5
<1> QED
  BY <1>2, <1>3

LEMMA WritesRollback ==
  ASSUME SoundInv, Writes, NEW p \in Operators, NEW d \in Decisions, RollbackKnows(p, d)
  PROVE  RollbackKnows(p, d)'
<1> SUFFICES ASSUME Working(p, d, "rollback"), RollbackKnows(p, d)
             PROVE  RollbackKnows(p, d)'
  BY WritesRequests DEF RollbackKnows
<1> PICK r : r = operator[p]
  OBVIOUS
<1>1. /\ operator'[p] = r /\ operator[p] = r /\ r.links \subseteq Links /\ RollingBack(d)
      /\ contested \subseteq contested'
  BY WritesRequests, LinksOfRequest DEF RollingBack, Writes
<1>2. \A l \in Links : audit[d][l] # "none" => audit'[d][l] # "none"
  BY DEF Writes, Opens
<1>3. /\ r.pc = "recall" => r.done = {}
      /\ r.pc \in {"reopen", "restore_rest"} => \A l \in r.links : InCore(l) => l \in r.done
      /\ r.pc \in {"activate", "close"} => r.links \subseteq r.done
  BY <1>1 DEF RollbackKnows
<1>4. r.pc \in Restoring => \A l \in r.links : audit'[d][l] # "none"
  <2>1. r.pc \in Restoring => \A l \in r.links : audit[d][l] # "none"
    BY <1>1 DEF RollbackKnows
  <2> QED
    BY <1>1, <1>2, <2>1
<1>5. ASSUME r.pc \in Restoring, d \notin contested', NEW l \in Links, audit'[d][l] = "open",
             l \in r.links => l \in r.done
      PROVE  Freed(d, l)'
  <2>1. audit[d][l] = "open" => Freed(d, l)
    BY <1>1, <1>5 DEF RollbackKnows
  <2> QED
    BY <1>1, <1>5, <2>1, WritesFreed
<1>6. \A l : InCore(l)' <=> InCore(l)
  BY DEF InCore, CoreTables, Members
<1>7. Restoring' = Restoring
  BY DEF Restoring
<1> QED
  BY <1>1, <1>3, <1>4, <1>5, <1>6, <1>7 DEF RollbackKnows

LEMMA WritesDecisions ==
  ASSUME SoundInv, Writes, NEW d \in Decisions, ClosedSound(d), MergedAway(d)
  PROVE  ClosedSound(d)' /\ MergedAway(d)'
<1>1. ASSUME d \notin contested', NEW l \in Links, audit'[d][l] = "rolled_back"
      PROVE  Overtaken(d)' /\ Merged(d)'
  <2>1. d \notin contested /\ audit[d][l] = "rolled_back"
    BY <1>1 DEF Writes, Opens
  <2>2. Overtaken(d) /\ Merged(d)
    BY <2>1 DEF ClosedSound
  <2> QED
    BY <2>2, WritesOvertaken DEF Merged, Writes, Takes
<1>2. ASSUME d \notin contested', Closed(d)', NEW l \in Links, audit'[d][l] = "open"
      PROVE  l \in exposed'
  <2>1. decision'[d].status = "rolled_back" => decision[d].status = "rolled_back"
    BY DEF Writes, Takes
  <2>2. Closed(d) /\ d \notin contested
    BY <1>2, <2>1, WritesRequests DEF Closed, Writes
  <2>3. Overtaken(d)
    BY <2>2 DEF Closed, Overtaken, RollingBack
  <2> QED
    BY <1>2, <2>2, <2>3 DEF ClosedSound, Writes, Opens
<1>3. ASSUME NEW l \in Links, Cleared(d, l)', owner'[l] = Candidate(d)
      PROVE  l \in exposed' \/ Returned(d, l)'
  <2>1. Cleared(d, l) /\ MissedMerge(Candidate(d), l)
    BY <1>3, WritesCleared
  <2>2. CASE owner[l] = Candidate(d)
    <3>1. l \in exposed \/ Returned(d, l)
      BY <2>1, <2>2 DEF MergedAway
    <3>2. /\ exposed \subseteq exposed' /\ untimely \subseteq untimely'
          /\ contested \subseteq contested'
          /\ \A e \in Decisions : audit[e][l] = "open" => audit'[e][l] = "open"
          /\ \A e \in Decisions : audit[e][l] # "none" => audit'[e][l] # "none"
      BY DEF Writes, Opens
    <3> QED
      BY <3>1, <3>2 DEF Returned
  <2>3. CASE owner[l] # Candidate(d)
    BY <1>3, <2>1, <2>3, DecisionsOK DEF Writes, Lands
  <2> QED
    BY <2>2, <2>3
<1> QED
  BY <1>1, <1>2, <1>3 DEF ClosedSound, MergedAway

LEMMA WritesKeep ==
  ASSUME SoundInv, WorkInv, Writes
  PROVE  WorkInv'
<1>1. LinksSettled' /\ RequestSettled' /\ Apart'
  BY WritesLinks, WritesOperator DEF WorkInv
<1>2. ASSUME NEW p \in Operators, NEW d \in Decisions
      PROVE  MergeKnows(p, d)' /\ RollbackKnows(p, d)'
  BY WritesMerge, WritesRollback DEF WorkInv
<1>3. ASSUME NEW d \in Decisions
      PROVE  ClosedSound(d)' /\ MergedAway(d)'
  BY WritesDecisions DEF WorkInv
<1> QED
  BY <1>1, <1>2, <1>3 DEF WorkInv

LEMMA ImporterKeeps ==
  ASSUME NEW i \in Importers, NEW e, NEW l,
         \A j \in Importers : j # i => importer'[j] = importer[j],
         contested \subseteq contested',
         audit'[e][l] = audit[e][l] \/ audit'[e][l] = "open",
         audit[e][l] = "none" /\ audit'[e][l] = "none" /\ Unaudited(importer[i], e, l) =>
           Unaudited(importer'[i], e, l) \/ l \in exposed'
  PROVE  Kept(e, l)
<1>1. \A j \in Importers : Unaudited(importer[j], e, l)' <=> Unaudited(importer'[j], e, l)
  BY DEF Unaudited, Remapped, Statements
<1> QED
  BY <1>1 DEF Kept, Holds

(* A commit that goes on has the same to audit, but for what it audits.    *)
LEMMA DoneShape ==
  ASSUME NEW r \in Import, ImportSound(r), r.pc = "commit"
  PROVE  LET n == Done(r) IN
         /\ r.at \in 1..Len(Statements(r)) /\ Len(Statements(r)) \in Nat
         /\ r.at < Len(Statements(r)) =>
              /\ n.pc = "commit" /\ n.at = r.at + 1 /\ Statements(n) = Statements(r)
              /\ n.decision = r.decision /\ (Remapped(n) <=> Remapped(r))
         /\ ~(r.at < Len(Statements(r))) => n.pc = "idle"
<1>1. r.at \in 1..Len(Statements(r)) /\ Len(Statements(r)) \in Nat /\ r.batch \in Batches
  BY DecidesInside DEF ImportSound, Import
<1>2. CASE r.at < Len(Statements(r))
  <2> DEFINE n == [r EXCEPT !.at = @ + 1]
  <2>1. /\ n.pc = r.pc /\ n.batch = r.batch /\ n.decision = r.decision
        /\ n.kind = r.kind /\ n.seen = r.seen /\ n.owner = r.owner /\ n.at = r.at + 1
    BY DEF Import
  <2> HIDE DEF n
  <2>2. Remapped(n) <=> Remapped(r)
    BY <2>1 DEF Remapped
  <2>3. Statements(n) = Statements(r)
    BY <2>1, Zenon DEF Statements, Remapped
  <2> QED
    BY <1>1, <1>2, <2>1, <2>2, <2>3 DEF Done, n
<1>3. CASE ~(r.at < Len(Statements(r)))
  BY <1>1, <1>3, WaitingSound DEF Done
<1> QED
  BY <1>1, <1>2, <1>3

LEMMA DoneUnaudited ==
  ASSUME NEW r \in Import, ImportSound(r), r.pc = "commit", NEW d, NEW l, Unaudited(r, d, l),
         Statements(r)[r.at] # <<"audit", l>>
  PROVE  Unaudited(Done(r), d, l)
<1> DEFINE s == Statements(r)
<1>1. r.at \in 1..Len(s) /\ Len(s) \in Nat
  BY DoneShape
<1>2. PICK k \in 1..(r.at - 1) : s[k] = <<"link", l>>
  BY DEF Unaudited
<1>3. PICK m \in r.at..Len(s) : s[m] = <<"audit", l>>
  BY DEF Unaudited
<1>4. m # r.at
  BY <1>3
<1> HIDE DEF s
<1>5. r.at < Len(s) /\ k \in 1..((r.at + 1) - 1) /\ m \in (r.at + 1)..Len(s)
  BY <1>1, <1>2, <1>3, <1>4
<1>6. /\ Done(r).pc = "commit" /\ Done(r).at = r.at + 1 /\ Statements(Done(r)) = s
      /\ Done(r).decision = r.decision /\ (Remapped(Done(r)) <=> Remapped(r))
  BY <1>5, DoneShape DEF s
<1> QED
  BY <1>2, <1>3, <1>5, <1>6 DEF Unaudited

LEMMA PassedStays ==
  ASSUME NEW r \in Import, ImportSound(r), Passed(r, audit),
         \A d \in Decisions, l \in Links : audit[d][l] # "none" => audit'[d][l] # "none"
  PROVE  Passed(r, audit')
<1>1. ASSUME r.pc = "commit", NEW k \in 1..(r.at - 1), Statements(r)[k][1] = "audit"
      PROVE  audit'[r.decision][Statements(r)[k][2]] # "none"
  <2>1. k \in 1..Len(Statements(r)) /\ r.batch \in Batches
    BY <1>1, DoneShape DEF Import
  <2>2. Statements(r)[k][2] \in Links /\ Remapped(r)
    BY <1>1, <2>1, DueAt
  <2>3. r.decision \in Decisions
    BY <1>1, <2>2 DEF ImportSound, Aimed
  <2> QED
    BY <1>1, <2>2, <2>3 DEF Passed
<1> QED
  BY <1>1 DEF Passed

LEMMA AuditsStay ==
  ASSUME SoundInv, CommitAudits, NEW i \in Importers,
         \A j \in Importers : j # i => importer'[j] = importer[j],
         \A d \in Decisions, l \in Links : audit[d][l] # "none" => audit'[d][l] # "none",
         Passed(importer'[i], audit')
  PROVE  CommitAudits'
<1>1. \A j \in Importers : Passed(importer[j], audit)' <=> Passed(importer'[j], audit')
  BY DEF Passed, Statements, Remapped
<1>2. ASSUME NEW j \in Importers, j # i
      PROVE  Passed(importer'[j], audit')
  <2>1. importer[j] \in Import /\ ImportSound(importer[j]) /\ Passed(importer[j], audit)
    BY SoundParts DEF ImportersOK, CommitAudits
  <2>2. Passed(importer[j], audit')
    BY <2>1, PassedStays
  <2> QED
    BY <1>2, <2>2
<1> QED
  BY <1>1, <1>2 DEF CommitAudits

LEMMA DonePassed ==
  ASSUME NEW r \in Import, ImportSound(r), r.pc = "commit", NEW audits, Passed(r, audits),
         LET x == Statements(r)[r.at] IN x[1] = "audit" => audits[r.decision][x[2]] # "none"
  PROVE  Passed(Done(r), audits)
<1> DEFINE n == Done(r)
<1>1. CASE r.at < Len(Statements(r))
  <2>1. /\ n.at = r.at + 1 /\ Statements(n) = Statements(r) /\ n.decision = r.decision
        /\ r.at \in Nat
    BY <1>1, DoneShape DEF Import
  <2>2. \A k \in 1..(n.at - 1) : k \in 1..(r.at - 1) \/ k = r.at
    BY <2>1
  <2> QED
    BY <2>1, <2>2 DEF Passed
<1>2. CASE ~(r.at < Len(Statements(r)))
  BY <1>2, DoneShape DEF Passed
<1> QED
  BY <1>1, <1>2

(* A step of ingestion that leaves the links and their audits alone.       *)
LEMMA QuietWrites ==
  ASSUME SoundInv, CommitAudits, NEW i \in Importers,
         UNCHANGED <<operator, halted, owner, audit>>,
         contested \subseteq contested', exposed \subseteq exposed' /\ untimely \subseteq untimely',
         \A e \in Decisions : Takes(e),
         \A j \in Importers : j # i => importer'[j] = importer[j],
         \A e \in Decisions, l \in Links : Unaudited(importer[i], e, l) =>
           Unaudited(importer'[i], e, l) \/ l \in exposed',
         Passed(importer'[i], audit)
  PROVE  Writes /\ CommitAudits'
<1>1. \A e \in Decisions, l \in Links : Kept(e, l)
  BY ImporterKeeps
<1>2. \A e \in Decisions, l \in Links : Opens(e, l)
  BY DEF Opens
<1>3. \A l \in Links, s \in Sellers : Lands(l, s)
  BY DEF Lands
<1>4. CommitAudits'
  BY AuditsStay
<1> QED
  BY <1>1, <1>2, <1>3, <1>4 DEF Writes

LEMMA FindWrites ==
  ASSUME SoundInv, CommitAudits, NEW i \in Importers, NEW b \in Batches, Find(i, b)
  PROVE  Writes /\ CommitAudits'
<1>1. /\ importer'[i].pc = "look" \/ importer'[i] = [Waiting(b) EXCEPT !.pc = "commit"]
      /\ \A j \in Importers : j # i => importer'[j] = importer[j]
  BY SoundParts, FindSound
<1>2. Passed(importer'[i], audit)
  <2>1. CASE importer'[i].pc = "look"
    BY <2>1 DEF Passed
  <2>2. CASE importer'[i] = [Waiting(b) EXCEPT !.pc = "commit"]
    <3>1. importer'[i].at = 1
      BY <2>2 DEF Waiting
    <3> QED
      BY <3>1 DEF Passed
  <2> QED
    BY <1>1, <2>1, <2>2
<1>3. /\ UNCHANGED <<operator, halted, owner, audit, decision, contested, exposed, untimely>>
      /\ importer[i].pc = "idle"
  BY DEF Find, Ingests, tables, history
<1>4. \A e \in Decisions, l \in Links : ~Unaudited(importer[i], e, l)
  BY <1>3 DEF Unaudited
<1>5. \A e \in Decisions : Takes(e)
  BY <1>3 DEF Takes
<1> QED
  BY <1>1, <1>2, <1>3, <1>4, <1>5, QuietWrites

LEMMA LookUpWrites ==
  ASSUME SoundInv, CommitAudits, NEW i \in Importers, LookUp(i)
  PROVE  Writes /\ CommitAudits'
<1>1. /\ importer'[i] = LookedUp(importer[i])
      /\ \A j \in Importers : j # i => importer'[j] = importer[j]
  BY SoundParts, LookUpSound
<1>2. importer[i] \in Import /\ importer[i].at = 1
  BY DEF SoundInv, TypeOK, LookUp, ImportSound
<1>3. Passed(importer'[i], audit)
  <2>1. importer'[i].at = 1
    BY <1>1, <1>2 DEF LookedUp, Import
  <2> QED
    BY <2>1 DEF Passed
<1>4. /\ UNCHANGED <<operator, halted, owner, audit, decision, contested, exposed, untimely>>
      /\ importer[i].pc = "look"
  BY DEF LookUp, Ingests, tables, history
<1>5. \A e \in Decisions, l \in Links : ~Unaudited(importer[i], e, l)
  BY <1>4 DEF Unaudited
<1>6. \A e \in Decisions : Takes(e)
  BY <1>4 DEF Takes
<1> QED
  BY <1>1, <1>3, <1>4, <1>5, <1>6, QuietWrites

(* The statements of a commit that are not about links.                    *)
LEMMA OtherWrites ==
  ASSUME SoundInv, CommitAudits, NEW i \in Importers,
         WriteSeller(i) \/ WriteDecision(i) \/ WriteRedirect(i) \/ WriteReview(i)
  PROVE  Writes /\ CommitAudits'
<1> DEFINE r == importer[i]
<1>1. PICK do \in Deeds \ {"audit"} : Due(i, do)
  BY DEF Deeds, WriteSeller, WriteDecision, WriteRedirect, WriteReview
<1>2. /\ UNCHANGED <<operator, halted, owner, audit, exposed, untimely>>
      /\ contested \subseteq contested' /\ Onward(i)
  BY DEF WriteSeller, WriteDecision, WriteRedirect, WriteReview, Ingests, history
<1>3. /\ r \in Import /\ ImportSound(r) /\ r.pc = "commit" /\ Statements(r)[r.at][1] # "audit"
      /\ Passed(r, audit)
  BY <1>1, SoundParts, DueSound DEF Due, CommitAudits
<1>4. /\ importer'[i] = Done(r)
      /\ \A j \in Importers : j # i => importer'[j] = importer[j]
  BY <1>2, <1>3, SoundParts, OnwardSound
<1>5. \A e \in Decisions, l \in Links :
        Unaudited(r, e, l) => Unaudited(importer'[i], e, l)
  BY <1>3, <1>4, DoneUnaudited
<1>6. Passed(importer'[i], audit)
  BY <1>3, <1>4, DonePassed
<1>7. ASSUME NEW e \in Decisions
      PROVE  Takes(e)
  <2>1. CASE decision' = decision
    BY <2>1 DEF Takes
  <2>2. CASE WriteDecision(i)
    <3> DEFINE first == FirstStatus(r.kind)
    <3>1. r.kind \in Kinds \ {"none"}
      BY <1>3, <2>2, SoundParts, DueSound DEF WriteDecision, Import
    <3>2. /\ first \notin {"none", "rolled_back"}
          /\ [status |-> first, action |-> r.kind]
               # [status |-> "merged", action |-> "review_queue"]
      BY <3>1 DEF FirstStatus, Kinds
    <3>3. decision' = [decision EXCEPT ![r.decision] =
            IF @ = Undecided THEN [status |-> first, action |-> r.kind] ELSE @]
      BY <2>2 DEF WriteDecision
    <3>4. decision \in [Decisions -> Decision]
      BY DEF SoundInv, TypeOK
    <3> HIDE DEF first
    <3>5. decision'[e] # decision[e] =>
            /\ decision[e] = Undecided
            /\ decision'[e] = [status |-> first, action |-> r.kind]
      BY <3>3, <3>4
    <3> QED
      BY <3>2, <3>5 DEF Takes, Undecided
  <2> QED
    BY <2>1, <2>2 DEF WriteSeller, WriteRedirect, WriteReview
<1> HIDE DEF r
<1> QED
  BY <1>2, <1>4, <1>5, <1>6, <1>7, QuietWrites DEF r

(* A commit that fails exposes the links it has written and not audited.   *)
LEMMA FailImportWrites ==
  ASSUME SoundInv, CommitAudits, NEW i \in Importers, FailImport(i)
  PROVE  Writes /\ CommitAudits'
<1> DEFINE r == importer[i]
<1>1. r \in Import /\ ImportSound(r) /\ r.batch \in Batches /\ importer \in [Importers -> Import]
  BY DEF SoundInv, TypeOK, Import
<1>2. /\ importer'[i] = Waiting(r.batch)
      /\ \A j \in Importers : j # i => importer'[j] = importer[j]
  BY <1>1 DEF FailImport, Importing
<1>3. /\ UNCHANGED <<operator, halted, owner, audit, decision, contested>>
      /\ exposed \subseteq exposed' /\ untimely \subseteq untimely'
  BY DEF FailImport, Ingests, tables, Expose
<1>4. Passed(importer'[i], audit)
  BY <1>1, <1>2, WaitingSound DEF Passed
<1>5. \A e \in Decisions : Takes(e)
  BY <1>3 DEF Takes
<1>6. \A e \in Decisions, l \in Links : Kept(e, l)
  <2> SUFFICES ASSUME NEW e \in Decisions, NEW l \in Links, audit[e][l] = "none",
                      Unaudited(r, e, l)
               PROVE  l \in exposed'
    BY <1>2, <1>3, ImporterKeeps
  <2>1. PICK k \in 1..(r.at - 1) : Statements(r)[k] = <<"link", l>>
    BY DEF Unaudited
  <2>2. r.at > 1 /\ Remapped(r) /\ r.decision = e
    BY <1>1, <2>1 DEF Unaudited, Import
  <2>3. <<"link", l>> \in {Statements(r)[m] : m \in 1..(r.at - 1)}
    BY <2>1
  <2>4. exposed' = exposed \cup
          {m \in Links : /\ <<"link", m>> \in {Statements(r)[n] : n \in 1..(r.at - 1)}
                         /\ audit[r.decision][m] # "open"}
    BY <2>2 DEF FailImport, Expose
  <2> QED
    BY <2>2, <2>3, <2>4
<1>7. /\ \A e \in Decisions, l \in Links : Opens(e, l)
      /\ \A l \in Links, s \in Sellers : Lands(l, s)
  BY <1>3 DEF Opens, Lands
<1>8. CommitAudits'
  BY <1>2, <1>3, <1>4, AuditsStay
<1> QED
  BY <1>3, <1>5, <1>6, <1>7, <1>8 DEF Writes

LEMMA AtHome ==
  ASSUME NEW b \in Batches, NEW l \in Members(AllLinks(b))
  PROVE  Seller[b] \in Home(l)
BY DEF Home

(* The statement of a commit that is about link l.                         *)
LEMMA DueOfBatch ==
  ASSUME SoundInv, NEW i \in Importers, NEW do \in {"link", "audit"}, Due(i, do)
  PROVE  LET r == importer[i] IN
         /\ Statements(r)[r.at] = <<do, DueLink(i)>>
         /\ DueLink(i) \in Members(AllLinks(r.batch))
<1> DEFINE r == importer[i]
           s == Statements(r)
<1>1. r.batch \in Batches /\ r.at \in 1..Len(s) /\ s[r.at][1] = do /\ DueLink(i) = s[r.at][2]
  BY SoundParts, DueSound DEF Due, DueLink
<1>2. /\ s \in Seq(AnyStatement)
      /\ \A x \in Members(s) : x[1] \in {"link", "audit"} => x[2] \in Members(AllLinks(r.batch))
  BY <1>1, CommitOfBatch
<1>3. s[r.at] \in AnyStatement
  BY <1>1, <1>2
<1>4. s[r.at] \in Members(s)
  BY <1>1, <1>2 DEF Members
<1>5. s[r.at] = <<s[r.at][1], s[r.at][2]>>
  BY <1>3 DEF AnyStatement
<1> HIDE DEF s
<1> QED
  BY <1>1, <1>2, <1>4, <1>5 DEF s

(* A link that is written for the seller of a merge is audited by then, or *)
(* is going to be.                                                         *)
LEMMA LinkHeld ==
  ASSUME SoundInv, CommitAudits, NEW i \in Importers, WriteLink(i), Remapped(importer[i]),
         NEW d, d = importer[i].decision, NEW l, l = DueLink(i),
         ClosedSound(d), ~Overtaken(d)
  PROVE  Holds(d, l)'
<1> PICK r : r = importer[i]
  OBVIOUS
<1> DEFINE s == Statements(r)
<1>1. /\ r \in Import /\ ImportSound(r) /\ r.pc = "commit" /\ r.batch \in Batches
      /\ l \in Links /\ Passed(r, audit) /\ Remapped(r)
  BY SoundParts, DueSound DEF WriteLink, CommitAudits
<1>2. importer'[i] = Done(r) /\ UNCHANGED <<audit, contested, decision>>
  BY <1>1, SoundParts, OnwardSound DEF WriteLink
<1>3. d \in Decisions /\ d = r.decision
  BY <1>1 DEF ImportSound, Aimed
<1>4. s[r.at] = <<"link", l>> /\ l \in Members(AllLinks(r.batch))
  BY DueOfBatch DEF WriteLink
<1>5. <<"audit", l>> \in Members(s) /\ s \in Seq(AnyStatement)
  BY <1>1, <1>4, CommitOfBatch
<1>6. PICK m \in 1..Len(s) : s[m] = <<"audit", l>>
  BY <1>5 DEF Members
<1>7. r.at \in 1..Len(s) /\ Len(s) \in Nat /\ m # r.at
  BY <1>1, <1>4, <1>6, DoneShape
<1> HIDE DEF s
<1>8. audit[d][l] # "none" \/ Unaudited(Done(r), d, l)
  <2>1. CASE m < r.at
    <3>1. m \in 1..(r.at - 1)
      BY <1>6, <1>7, <2>1
    <3> QED
      BY <1>1, <1>6, <3>1 DEF Passed, s
  <2>2. CASE m > r.at
    <3>1. r.at < Len(s) /\ m \in (r.at + 1)..Len(s) /\ r.at \in 1..((r.at + 1) - 1)
      BY <1>6, <1>7, <2>2
    <3>2. /\ Done(r).pc = "commit" /\ Done(r).at = r.at + 1 /\ Statements(Done(r)) = s
          /\ Done(r).decision = d /\ Remapped(Done(r))
      BY <1>1, <3>1, DoneShape DEF s
    <3> QED
      BY <1>4, <1>6, <3>1, <3>2 DEF Unaudited
  <2> QED
    BY <1>6, <1>7, <2>1, <2>2
<1>9. audit[d][l] = "rolled_back" => d \in contested
  BY <1>1, <1>3 DEF ClosedSound
<1>10. audit[d][l] \in {"none", "open", "rolled_back"}
  BY <1>1, <1>3 DEF SoundInv, TypeOK
<1>11. Unaudited(Done(r), d, l) => Unaudited(importer[i], d, l)'
  <2>1. Unaudited(importer[i], d, l)' <=> Unaudited(importer'[i], d, l)
    BY DEF Unaudited, Remapped, Statements
  <2> QED
    BY <1>2, <2>1
<1> QED
  BY <1>2, <1>8, <1>9, <1>10, <1>11 DEF Holds

LEMMA WriteLinkWrites ==
  ASSUME SoundInv, CommitAudits, \A d \in Decisions : ClosedSound(d),
         NEW i \in Importers, WriteLink(i)
  PROVE  Writes /\ CommitAudits'
<1> PICK r : r = importer[i]
  OBVIOUS
<1> PICK l : l = DueLink(i)
  OBVIOUS
<1>1. /\ r \in Import /\ ImportSound(r) /\ r.pc = "commit" /\ r.batch \in Batches
      /\ l \in Links /\ Passed(r, audit)
  BY SoundParts, DueSound DEF WriteLink, CommitAudits
<1>2. Statements(r)[r.at] = <<"link", l>> /\ l \in Members(AllLinks(r.batch))
  BY DueOfBatch DEF WriteLink
<1>3. /\ UNCHANGED <<operator, halted, audit, decision, contested>>
      /\ exposed \subseteq exposed' /\ untimely \subseteq untimely'
  BY DEF WriteLink, Ingests, Expose
<1>4. /\ importer'[i] = Done(r)
      /\ \A j \in Importers : j # i => importer'[j] = importer[j]
  BY <1>1, SoundParts, OnwardSound DEF WriteLink
<1>5. /\ \A e \in Decisions : Takes(e)
      /\ \A e \in Decisions, m \in Links : Opens(e, m)
  BY <1>3 DEF Takes, Opens
<1>6. ASSUME NEW e \in Decisions, NEW m \in Links
      PROVE  Kept(e, m)
  <2>1. Unaudited(importer[i], e, m) => Unaudited(importer'[i], e, m)
    BY <1>1, <1>2, <1>4, DoneUnaudited
  <2> QED
    BY <1>3, <1>4, <2>1, ImporterKeeps
<1>7. CommitAudits'
  <2>1. Passed(Done(r), audit)
    BY <1>1, <1>2, DonePassed
  <2> QED
    BY <1>3, <1>4, <2>1, AuditsStay
<1>8. ASSUME NEW m \in Links, NEW s \in Sellers, owner'[m] = s, owner[m] # s, m \notin exposed'
      PROVE  /\ ~MissedMerge(s, m)
             /\ \/ s \in Home(m)
                \/ \E e \in Decisions : Matched(e) = s /\ ~Overtaken(e) /\ Holds(e, m)'
  <2>1. m = l /\ s = r.owner
    <3>1. owner \in [Links -> Sellers \cup {NoSeller}]
      BY DEF SoundInv, TypeOK
    <3> QED
      BY <1>8, <3>1 DEF WriteLink
  <2>2. /\ ~(Remapped(r) /\ Overtaken(r.decision))
        /\ ~((Remapped(r) \/ r.seen # "merged") /\ MissedMerge(r.owner, l))
    BY <1>1, <1>8, <2>1 DEF WriteLink, Expose
  <2>3. CASE ~Remapped(r)
    <3>1. s = Seller[r.batch] /\ r.seen # "merged"
      BY <1>1, <2>1, <2>3 DEF Remapped, ImportSound
    <3> QED
      BY <1>1, <1>2, <2>1, <2>2, <3>1, AtHome
  <2>4. CASE Remapped(r)
    <3> PICK d : d = r.decision
      OBVIOUS
    <3>1. d \in Decisions /\ s = Matched(d)
      BY <1>1, <2>1, <2>4 DEF ImportSound, Aimed
    <3>2. Holds(d, l)'
      BY <2>2, <2>4, <3>1, LinkHeld
    <3> QED
      BY <2>1, <2>2, <2>4, <3>1, <3>2
  <2> QED
    BY <2>3, <2>4
<1>9. \A m \in Links, s \in Sellers : Lands(m, s)
  BY <1>8 DEF Lands
<1> QED
  BY <1>3, <1>5, <1>6, <1>7, <1>9 DEF Writes

LEMMA WriteAuditWrites ==
  ASSUME SoundInv, CommitAudits, NEW i \in Importers, WriteAudit(i)
  PROVE  Writes /\ CommitAudits'
<1> PICK r : r = importer[i]
  OBVIOUS
<1> PICK l : l = DueLink(i)
  OBVIOUS
<1> PICK d : d = r.decision
  OBVIOUS
<1>1. /\ r \in Import /\ ImportSound(r) /\ r.pc = "commit" /\ r.batch \in Batches
      /\ l \in Links /\ Passed(r, audit) /\ Aimed(r)
  BY SoundParts, DueSound DEF WriteAudit, CommitAudits
<1>2. /\ Statements(r)[r.at] = <<"audit", l>> /\ d \in Decisions
      /\ Candidate(d) = Seller[r.batch] /\ Candidate(d) \in Home(l)
  BY <1>1, DueOfBatch, AtHome DEF WriteAudit, Aimed
<1>3. /\ UNCHANGED <<operator, halted, owner, decision, contested>>
      /\ exposed \subseteq exposed' /\ untimely \subseteq untimely'
      /\ Overtaken(d) => l \in exposed'
  BY DEF WriteAudit, Ingests, Expose
<1>4. /\ importer'[i] = Done(r)
      /\ \A j \in Importers : j # i => importer'[j] = importer[j]
  BY <1>1, SoundParts, OnwardSound DEF WriteAudit
<1>5. \A e \in Decisions, m \in Links :
        audit'[e][m] = IF e = d /\ m = l THEN Audited(audit[d][l]) ELSE audit[e][m]
  <2>1. audit' = [audit EXCEPT ![d][l] = Audited(@)]
    BY DEF WriteAudit
  <2>2. audit \in [Decisions -> [Links -> {"none", "open", "rolled_back"}]]
    BY DEF SoundInv, TypeOK
  <2> QED
    BY <1>1, <1>2, <2>1, <2>2, AuditOne
<1>6. \A e \in Decisions, m \in Links :
        \/ audit'[e][m] = audit[e][m]
        \/ e = d /\ m = l /\ audit[e][m] = "none" /\ audit'[e][m] = "open"
  BY <1>5 DEF Audited
<1>7. audit'[d][l] # "none"
  BY <1>1, <1>2, <1>5 DEF Audited
<1>8. /\ \A e \in Decisions : Takes(e)
      /\ \A e \in Decisions, m \in Links : Opens(e, m)
      /\ \A m \in Links, s \in Sellers : Lands(m, s)
  BY <1>2, <1>3, <1>6 DEF Takes, Opens, Lands
<1>9. ASSUME NEW e \in Decisions, NEW m \in Links
      PROVE  Kept(e, m)
  <2>1. audit'[e][m] = "none" /\ Unaudited(importer[i], e, m) => Unaudited(importer'[i], e, m)
    <3> SUFFICES ASSUME audit'[e][m] = "none", Unaudited(r, e, m)
                 PROVE  Unaudited(Done(r), e, m)
      BY <1>4
    <3>1. e = d
      BY DEF Unaudited
    <3>2. m # l
      BY <1>7, <3>1
    <3>3. Statements(r)[r.at] # <<"audit", m>>
      BY <1>2, <3>2
    <3> QED
      BY <1>1, <3>3, DoneUnaudited
  <2>2. audit'[e][m] = audit[e][m] \/ audit'[e][m] = "open"
    BY <1>6
  <2> QED
    BY <1>3, <1>4, <2>1, <2>2, ImporterKeeps
<1>10. CommitAudits'
  <2>1. \A e \in Decisions, m \in Links : audit[e][m] # "none" => audit'[e][m] # "none"
    BY <1>6
  <2>2. Passed(r, audit')
    BY <1>1, <2>1, PassedStays
  <2>3. Passed(Done(r), audit')
    BY <1>1, <1>2, <1>7, <2>2, DonePassed
  <2> QED
    BY <1>4, <2>1, <2>3, AuditsStay
<1> QED
  BY <1>3, <1>8, <1>9, <1>10 DEF Writes

LEMMA ImportKeepsLinks ==
  ASSUME SoundInv, LinkInv, NEW i \in Importers,
         \/ \E b \in Batches : Find(i, b)
         \/ LookUp(i) \/ WriteSeller(i) \/ WriteLink(i) \/ WriteDecision(i)
         \/ WriteRedirect(i) \/ WriteAudit(i) \/ WriteReview(i) \/ FailImport(i)
  PROVE  LinkInv'
<1>1. Writes /\ CommitAudits'
  BY FindWrites, LookUpWrites, OtherWrites, WriteLinkWrites, WriteAuditWrites, FailImportWrites
  DEF LinkInv, WorkInv
<1> QED
  BY <1>1, WritesKeep DEF LinkInv

(* A batch without a seller writes for a seller of the source, or exposes  *)
(* it.                                                                     *)
LEMMA StoreSourceWrites ==
  ASSUME SoundInv, LinkInv, NEW source \in Bare, StoreSource(source[1], source[2])
  PROVE  Writes /\ CommitAudits'
<1> PICK l, t : l = source[2] /\ t = source[1]
  OBVIOUS
<1>1. l \in Links /\ t \in Home(l)
  BY ConstantsAssumption DEF Home
<1>2. /\ UNCHANGED <<operator, importer, halted, audit, decision, contested, untimely>>
      /\ exposed' = exposed \cup IF MissedMerge(t, l) THEN {l} ELSE {}
      /\ owner' = [owner EXCEPT ![l] = t]
  BY DEF StoreSource, Ingests, Expose
<1>3. /\ \A e \in Decisions : Takes(e)
      /\ \A e \in Decisions, m \in Links : Opens(e, m) /\ Kept(e, m)
  BY <1>2, OperatorKeeps DEF Takes, Opens
<1>4. \A m \in Links, s \in Sellers : Lands(m, s)
  <2>1. \A m \in Links : owner'[m] = IF m = l THEN t ELSE owner[m]
    BY <1>1, <1>2 DEF SoundInv, TypeOK
  <2> QED
    BY <1>1, <1>2, <2>1 DEF Lands
<1>5. CommitAudits'
  <2>1. \A i \in Importers : Passed(importer[i], audit)' <=> Passed(importer'[i], audit')
    BY DEF Passed, Statements, Remapped
  <2> QED
    BY <1>2, <2>1 DEF LinkInv, CommitAudits
<1> QED
  BY <1>2, <1>3, <1>4, <1>5 DEF Writes

LEMMA StoreSourceKeepsLinks ==
  ASSUME SoundInv, LinkInv, NEW source \in Bare, StoreSource(source[1], source[2])
  PROVE  LinkInv'
BY StoreSourceWrites, WritesKeep DEF LinkInv

-----------------------------------------------------------------------------
(* The operator.                                                           *)

(* A step of request p, which works on decision d.                         *)
Moves(p, d) ==
  /\ importer' = importer
  /\ halted \subseteq halted' /\ contested \subseteq contested'
  /\ exposed \subseteq exposed' /\ untimely \subseteq untimely'
  /\ \A q \in Operators : q # p => operator'[q] = operator[q]
  /\ operator[p].pc # "idle" => operator[p].decision = d
  /\ operator'[p].pc # "idle" => operator'[p].decision = d
  /\ \A q \in Operators, e \in Decisions :
       q # p /\ Worked(q, e) /\ Share(d, e) => d \in contested' /\ e \in contested'
  /\ \A l \in Links : owner'[l] = owner[l] \/ owner'[l] \in {Candidate(d), Matched(d)}
  /\ \A e \in Decisions, l \in Links :
       /\ audit'[e][l] # audit[e][l] => e = d
       /\ audit[e][l] # "none" => audit'[e][l] # "none"
  /\ \A e \in Decisions \ {d} : decision'[e] = decision[e]

LEMMA MovesRequests ==
  ASSUME NEW p \in Operators, NEW d, Moves(p, d)
  PROVE  /\ \A q \in Operators : q # p =>
              /\ operator'[q] = operator[q]
              /\ \A e, action : Working(q, e, action)' <=> Working(q, e, action)
              /\ \A e : Worked(q, e)' <=> Worked(q, e)
              /\ \A l : Read(operator[q], l)' <=> Read(operator[q], l)
         /\ \A e : e # d => ~Worked(p, e) /\ ~Worked(p, e)'
         /\ \A e, action : e # d => ~Working(p, e, action) /\ ~Working(p, e, action)'
BY DEF Moves, Working, Worked, Read, ListOrder, LinkTables, CoreTables,
       ContactTables, OperationTables, HistoryTables

LEMMA MovesKept ==
  ASSUME NEW p \in Operators, NEW d, Moves(p, d), NEW e \in Decisions, NEW l \in Links,
         e # d \/ d \in contested'
  PROVE  Kept(e, l)
<1>1. CASE e # d
  BY <1>1, OperatorKeeps DEF Moves
<1>2. CASE e \in contested'
  BY <1>2 DEF Kept, Holds
<1> QED
  BY <1>1, <1>2

LEMMA MovesCleared ==
  ASSUME NEW p \in Operators, NEW d, Moves(p, d), NEW e \in Decisions \ {d}, NEW l,
         Cleared(e, l)'
  PROVE  Cleared(e, l)
<1>1. Orderly(e) /\ decision'[e] = decision[e]
  BY DEF Cleared, Orderly, Moves
<1>2. RollingBack(e) => RollingBack(e)'
  BY MovesRequests DEF RollingBack
<1>3. CASE decision'[e] = [status |-> "merged", action |-> "review_queue"] /\ ~RollingBack(e)'
  BY <1>1, <1>2, <1>3 DEF Cleared
<1>4. CASE (\E q \in Operators : Working(q, e, "merge") /\ MovedPast(operator[q], l))'
  <2>1. PICK q \in Operators : Working(q, e, "merge")' /\ MovedPast(operator'[q], l)
    BY <1>4
    DEF MovedPast, MoveOrder, CoreTables, ContactTables, OperationTables, HistoryTables
  <2>2. q # p /\ operator'[q] = operator[q] /\ Working(q, e, "merge")
    BY <2>1, MovesRequests
  <2> QED
    BY <1>1, <2>1, <2>2 DEF Cleared
<1> QED
  BY <1>3, <1>4 DEF Cleared

LEMMA MovesOvertaken ==
  ASSUME NEW p \in Operators, NEW d, Moves(p, d), NEW e \in Decisions \ {d}
  PROVE  /\ Overtaken(e) => Overtaken(e)'
         /\ Merged(e) => Merged(e)'
         /\ Closed(e)' => Closed(e)
<1>1. decision'[e] = decision[e] /\ halted \subseteq halted'
  BY DEF Moves
<1>2. RollingBack(e) => RollingBack(e)'
  BY MovesRequests DEF RollingBack
<1>3. (\E q \in Operators : Working(q, e, "rollback")
                            /\ operator[q].pc \in {"unredirect", "decide"})'
      => \E q \in Operators : Working(q, e, "rollback")
                              /\ operator[q].pc \in {"unredirect", "decide"}
  BY MovesRequests
<1> QED
  BY <1>1, <1>2, <1>3 DEF Overtaken, Merged, Closed

LEMMA SharesSeller ==
  ASSUME NEW d \in Decisions, NEW e \in Decisions,
         \/ d = e
         \/ Candidate(d) \in {Candidate(e), Matched(e)}
         \/ Matched(d) \in {Candidate(e), Matched(e)}
  PROVE  Share(d, e)
BY DEF Share, Candidate, Matched

LEMMA MovesMerge ==
  ASSUME NEW p \in Operators, NEW d \in Decisions, Moves(p, d),
         NEW q \in Operators \ {p}, NEW e \in Decisions, SoundInv, MergeKnows(q, e)
  PROVE  MergeKnows(q, e)'
<1> SUFFICES ASSUME Working(q, e, "merge"), e \notin contested', MergeKnows(q, e)
             PROVE  MergeKnows(q, e)'
  BY MovesRequests DEF MergeKnows
<1> PICK r : r = operator[q]
  OBVIOUS
<1>1. /\ operator'[q] = r /\ operator[q] = r /\ r.links \subseteq Links /\ r.done \subseteq Links
      /\ e \notin contested /\ exposed \subseteq exposed' /\ untimely \subseteq untimely'
  BY MovesRequests, LinksOfRequest DEF Moves
<1>2. ~Share(d, e)
  BY DEF Moves, Working, Worked
<1>3. Candidate(e) \notin {Candidate(d), Matched(d)} /\ e # d
  BY <1>2, SharesSeller
<1>4. \A l \in Links : owner'[l] = Candidate(e) => owner[l] = Candidate(e)
  BY <1>3 DEF Moves
<1>5. \A l \in Links : audit'[e][l] = audit[e][l]
  BY <1>3 DEF Moves
<1>6. \A l : Read(operator[q], l)' <=> Read(operator[q], l)
  BY MovesRequests
<1>7. /\ r.pc \in {"list", "audit", "move"} =>
           \A l \in Links : Read(operator[q], l) /\ owner[l] = Candidate(e) =>
             l \in r.links \cup exposed
      /\ r.pc = "list" => r.done = {}
      /\ r.pc = "audit" => \A l \in r.done : audit[e][l] = "open"
      /\ r.pc = "move" => \A l \in r.links : audit[e][l] = "open"
  BY <1>1 DEF MergeKnows
<1>8. /\ r.pc = "audit" => \A l \in r.done : audit'[e][l] = "open"
      /\ r.pc = "move" => \A l \in r.links : audit'[e][l] = "open"
  BY <1>1, <1>5, <1>7
<1>9. r.pc \in {"list", "audit", "move"} =>
        \A l \in Links : Read(operator[q], l)' /\ owner'[l] = Candidate(e) =>
          l \in r.links \cup exposed'
  BY <1>1, <1>4, <1>6, <1>7
<1> QED
  BY <1>1, <1>7, <1>8, <1>9 DEF MergeKnows

LEMMA MovesFreed ==
  ASSUME NEW p \in Operators, NEW d \in Decisions, Moves(p, d),
         NEW e \in Decisions, ~Share(d, e), NEW l \in Links, Freed(e, l)
  PROVE  Freed(e, l)'
<1>1. Matched(e) \notin {Candidate(d), Matched(d)} /\ e # d
  BY SharesSeller
<1>2. owner'[l] = Matched(e) => owner[l] = Matched(e)
  BY <1>1 DEF Moves
<1>3. MovedOn(e, l)' => MovedOn(e, l)
  BY <1>1 DEF MovedOn, Moves
<1>4. Settled(l, Matched(e), {e}) => Settled(l, Matched(e), {e})'
  <2>1. \A f \in Decisions : Matched(f) = Matched(e) => Kept(f, l)
    BY <1>1, MovesKept
  <2> QED
    BY <2>1, SettledStays DEF Moves
<1>5. \A f \in Decisions : Candidate(f) = Matched(e) /\ Cleared(f, l)' => Cleared(f, l)
  BY <1>1, MovesCleared
<1>6. exposed \subseteq exposed' /\ untimely \subseteq untimely'
  BY DEF Moves
<1> QED
  BY <1>2, <1>3, <1>4, <1>5, <1>6 DEF Freed

LEMMA MovesRollback ==
  ASSUME NEW p \in Operators, NEW d \in Decisions, Moves(p, d),
         NEW q \in Operators \ {p}, NEW e \in Decisions, SoundInv, RollbackKnows(q, e)
  PROVE  RollbackKnows(q, e)'
<1> SUFFICES ASSUME Working(q, e, "rollback"), RollbackKnows(q, e)
             PROVE  RollbackKnows(q, e)'
  BY MovesRequests DEF RollbackKnows
<1> PICK r : r = operator[q]
  OBVIOUS
<1>1. operator'[q] = r /\ operator[q] = r /\ r.links \subseteq Links
  BY MovesRequests, LinksOfRequest
<1>2. /\ r.pc = "recall" => r.done = {}
      /\ r.pc \in Restoring => \A l \in r.links : audit[e][l] # "none"
      /\ r.pc \in {"reopen", "restore_rest"} => \A l \in r.links : InCore(l) => l \in r.done
      /\ r.pc \in {"activate", "close"} => r.links \subseteq r.done
  BY <1>1 DEF RollbackKnows
<1>3. r.pc \in Restoring => \A l \in r.links : audit'[e][l] # "none"
  BY <1>1, <1>2 DEF Moves
<1>4. ASSUME r.pc \in Restoring, e \notin contested', NEW l \in Links, audit'[e][l] = "open",
             l \in r.links => l \in r.done
      PROVE  Freed(e, l)'
  <2>1. ~Share(d, e) /\ e \notin contested
    BY <1>4 DEF Moves, Working, Worked
  <2>2. audit[e][l] = "open"
    BY <1>4, <2>1, SharesSeller DEF Moves
  <2>3. Freed(e, l)
    BY <1>1, <1>4, <2>1, <2>2 DEF RollbackKnows
  <2> QED
    BY <2>1, <2>3, MovesFreed
<1>5. \A l : InCore(l)' <=> InCore(l)
  BY DEF InCore, CoreTables, Members
<1>6. Restoring' = Restoring
  BY DEF Restoring
<1> QED
  BY <1>1, <1>2, <1>3, <1>4, <1>5, <1>6 DEF RollbackKnows

LEMMA MovesSettled ==
  ASSUME NEW p \in Operators, NEW d \in Decisions, Moves(p, d),
         NEW q \in Operators \ {p}, NEW e \in Decisions, SoundInv, RequestSettled,
         Worked(q, e)', NEW l \in operator'[q].links
  PROVE  Settled(l, Candidate(e), {})'
<1>1. Worked(q, e) /\ l \in operator[q].links /\ l \in Links
  BY MovesRequests, LinksOfRequest
<1>2. Settled(l, Candidate(e), {})
  BY <1>1 DEF RequestSettled
<1>3. Share(d, e) => d \in contested'
  BY <1>1 DEF Moves
<1>4. Matched(d) = Candidate(e) => Share(d, e)
  BY SharesSeller
<1>5. \A f \in Decisions : Matched(f) = Candidate(e) => Kept(f, l)
  BY <1>1, <1>3, <1>4, MovesKept
<1> QED
  BY <1>2, <1>5, SettledStays DEF Moves

LEMMA MovesClosed ==
  ASSUME NEW p \in Operators, NEW d \in Decisions, Moves(p, d),
         NEW e \in Decisions \ {d}, ClosedSound(e)
  PROVE  ClosedSound(e)'
BY MovesOvertaken DEF ClosedSound, Moves

LEMMA MovesApart ==
  ASSUME NEW p \in Operators, NEW d \in Decisions, Moves(p, d), Apart
  PROVE  Apart'
<1> SUFFICES ASSUME NEW q \in Operators, NEW o \in Operators, NEW e \in Decisions,
                    NEW f \in Decisions, q # o, Worked(q, e)', Worked(o, f)', Share(e, f)
             PROVE  e \in contested'
  BY DEF Apart, Share
<1>1. CASE q # p /\ o # p
  BY <1>1, MovesRequests DEF Apart, Moves
<1>2. CASE q = p
  <2>1. e = d /\ Worked(o, f)
    BY <1>2, MovesRequests
  <2> QED
    BY <1>2, <2>1 DEF Moves
<1>3. CASE o = p
  <2>1. f = d /\ Worked(q, e)
    BY <1>3, MovesRequests
  <2>2. Share(f, e)
    BY DEF Share
  <2> QED
    BY <1>3, <2>1, <2>2 DEF Moves
<1> QED
  BY <1>1, <1>2, <1>3

LEMMA MovesCommit ==
  ASSUME NEW p \in Operators, NEW d \in Decisions, Moves(p, d), SoundInv, CommitAudits
  PROVE  CommitAudits'
<1>1. \A i \in Importers : Passed(importer[i], audit)' <=> Passed(importer'[i], audit')
  BY DEF Passed, Statements, Remapped
<1>2. ASSUME NEW i \in Importers
      PROVE  Passed(importer'[i], audit')
  <2>1. /\ importer'[i] = importer[i] /\ importer[i] \in Import /\ ImportSound(importer[i])
        /\ Passed(importer[i], audit)
    BY SoundParts DEF ImportersOK, CommitAudits, Moves
  <2>2. Passed(importer[i], audit')
    BY <2>1, PassedStays DEF Moves
  <2> QED
    BY <2>1, <2>2
<1> QED
  BY <1>1, <1>2 DEF CommitAudits

(* What is left to show of a step: where the links are then, what the      *)
(* request itself knows, and what is said of its decision.                 *)
LEMMA MovesKeep ==
  ASSUME NEW p \in Operators, NEW d \in Decisions, Moves(p, d), SoundInv, LinkInv,
         LinksSettled',
         Worked(p, d)' => \A l \in operator'[p].links : Settled(l, Candidate(d), {})',
         MergeKnows(p, d)', RollbackKnows(p, d)', ClosedSound(d)',
         \A e \in Decisions : MergedAway(e)'
  PROVE  LinkInv'
<1>1. RequestSettled'
  <2> SUFFICES ASSUME NEW q \in Operators, NEW e \in Decisions, Worked(q, e)',
                      NEW l \in operator'[q].links
               PROVE  Settled(l, Candidate(e), {})'
    BY DEF RequestSettled
  <2>1. CASE q = p
    BY <2>1, MovesRequests
  <2>2. CASE q # p
    BY <2>2, MovesSettled DEF LinkInv, WorkInv
  <2> QED
    BY <2>1, <2>2
<1>2. ASSUME NEW q \in Operators, NEW e \in Decisions
      PROVE  MergeKnows(q, e)' /\ RollbackKnows(q, e)'
  <2>1. CASE q = p /\ e = d
    BY <2>1
  <2>2. CASE q = p /\ e # d
    BY <2>2, MovesRequests DEF MergeKnows, RollbackKnows
  <2>3. CASE q # p
    BY <2>3, MovesMerge, MovesRollback DEF LinkInv, WorkInv
  <2> QED
    BY <2>1, <2>2, <2>3
<1>3. \A e \in Decisions : ClosedSound(e)'
  BY MovesClosed DEF LinkInv, WorkInv
<1>4. Apart' /\ CommitAudits'
  BY MovesApart, MovesCommit DEF LinkInv, WorkInv
<1> QED
  BY <1>1, <1>2, <1>3, <1>4 DEF LinkInv, WorkInv

(* Every owner and audit stays, but for audits that are opened.            *)
LEMMA StaysAway ==
  ASSUME NEW p \in Operators, NEW d \in Decisions, Moves(p, d), UNCHANGED owner,
         \A l \in Links : audit[d][l] = "open" => audit'[d][l] = "open",
         NEW e \in Decisions, MergedAway(e),
         \A l \in Links : Cleared(e, l)' => Cleared(e, l)
  PROVE  MergedAway(e)'
<1> SUFFICES ASSUME NEW l \in Links, Cleared(e, l), owner[l] = Candidate(e)
             PROVE  l \in exposed' \/ Returned(e, l)'
  BY DEF MergedAway
<1>1. l \in exposed \/ Returned(e, l)
  BY DEF MergedAway
<1>2. /\ exposed \subseteq exposed' /\ untimely \subseteq untimely'
      /\ contested \subseteq contested'
      /\ \A f \in Decisions : audit[f][l] = "open" => audit'[f][l] = "open"
      /\ \A f \in Decisions : audit[f][l] # "none" => audit'[f][l] # "none"
  BY DEF Moves
<1> QED
  BY <1>1, <1>2 DEF Returned

LEMMA StaysSettled ==
  ASSUME NEW p \in Operators, NEW d \in Decisions, Moves(p, d),
         \A l \in Links : audit[d][l] = "open" => audit'[d][l] = "open",
         \A l \in Links : audit[d][l] = "none" =>
           audit'[d][l] = "none" \/ audit'[d][l] = "open",
         NEW l \in Links, NEW s, NEW gone, Settled(l, s, gone)
  PROVE  Settled(l, s, gone)'
<1>1. \A e \in Decisions : Kept(e, l)
  <2> SUFFICES Kept(d, l)
    BY MovesKept
  <2>1. audit[d][l] \in {"open", "none"} => audit'[d][l] = audit[d][l] \/ audit'[d][l] = "open"
    OBVIOUS
  <2>2. CASE audit[d][l] \in {"open", "none"}
    BY <2>1, <2>2, OperatorKeeps DEF Moves
  <2>3. CASE audit[d][l] \notin {"open", "none"}
    BY <2>3 DEF Kept, Holds, Moves
  <2> QED
    BY <2>2, <2>3
<1> QED
  BY <1>1, SettledStays DEF Moves

(* A step that leaves all owners and audits as they are.                   *)
LEMMA QuietMoves ==
  ASSUME NEW p \in Operators, NEW d \in Decisions, Moves(p, d), SoundInv, LinkInv,
         UNCHANGED <<owner, audit>>,
         Worked(p, d)' => \A l \in operator'[p].links : Settled(l, Candidate(d), {}),
         MergeKnows(p, d)', RollbackKnows(p, d)',
         \A l \in Links : Cleared(d, l)' => Cleared(d, l),
         d \notin contested' => /\ Overtaken(d) /\ Merged(d) => Overtaken(d)' /\ Merged(d)'
                                /\ Closed(d)' => Closed(d),
         operator'[p].links \subseteq Links
  PROVE  LinkInv'
<1>1. ASSUME NEW l \in Links, NEW s, NEW gone, Settled(l, s, gone)
      PROVE  Settled(l, s, gone)'
  BY <1>1, StaysSettled
<1>2. LinksSettled'
  BY <1>1 DEF LinkInv, WorkInv, LinksSettled
<1>3. Worked(p, d)' => \A l \in operator'[p].links : Settled(l, Candidate(d), {})'
  BY <1>1
<1>4. ClosedSound(d)'
  <2>1. ClosedSound(d)
    BY DEF LinkInv, WorkInv
  <2>2. contested \subseteq contested' /\ exposed \subseteq exposed' /\ untimely \subseteq untimely'
    BY DEF Moves
  <2> QED
    BY <2>1, <2>2 DEF ClosedSound
<1>5. ASSUME NEW e \in Decisions
      PROVE  MergedAway(e)'
  <2>1. \A l \in Links : Cleared(e, l)' => Cleared(e, l)
    BY MovesCleared
  <2> QED
    BY <2>1, StaysAway DEF LinkInv, WorkInv
<1> QED
  BY <1>2, <1>3, <1>4, <1>5, MovesKeep

(* The request of a step that is about to be taken.                        *)
LEMMA StepMoves ==
  ASSUME SoundInv, Apart, NEW p \in Operators, NEW d \in Decisions, Worked(p, d),
         importer' = importer, halted \subseteq halted', contested' = contested,
         exposed \subseteq exposed' /\ untimely \subseteq untimely',
         \A q \in Operators : q # p => operator'[q] = operator[q],
         operator'[p].pc # "idle" => operator'[p].decision = d,
         \A l \in Links : owner'[l] = owner[l] \/ owner'[l] \in {Candidate(d), Matched(d)},
         \A e \in Decisions, l \in Links :
           /\ audit'[e][l] # audit[e][l] => e = d
           /\ audit[e][l] # "none" => audit'[e][l] # "none",
         \A e \in Decisions \ {d} : decision'[e] = decision[e]
  PROVE  Moves(p, d)
<1>1. ASSUME NEW q \in Operators, NEW e \in Decisions, q # p, Worked(q, e), Share(d, e)
      PROVE  d \in contested' /\ e \in contested'
  <2>1. Share(e, d)
    BY <1>1 DEF Share
  <2> QED
    BY <1>1, <2>1 DEF Apart
<1>2. operator[p].pc # "idle" => operator[p].decision = d
  BY DEF Worked
<1> QED
  BY <1>1, <1>2 DEF Moves

LEMMA AloneHere ==
  ASSUME TraceInv, NEW p \in Operators, NEW d \in Decisions \ contested, Worked(p, d),
         NEW q \in Operators \ {p}
  PROVE  ~Worked(q, d) /\ \A action : ~Working(q, d, action)
BY DEF TraceInv, Alone, Worked, Working

(* A request that goes on, with all decisions as they are.                 *)
LEMMA GoesCleared ==
  ASSUME SoundInv, NEW p \in Operators, NEW d \in Decisions, Worked(p, d), Moves(p, d),
         NEW points, Steps(p, points), "idle" \notin points,
         UNCHANGED <<decision, contested, halted>>,
         operator[p].action = "merge" =>
           \A l \in Links : MovedPast(operator'[p], l) => MovedPast(operator[p], l)
  PROVE  /\ RollingBack(d)' <=> RollingBack(d)
         /\ \A e \in Decisions : \A l \in Links : Cleared(e, l)' => Cleared(e, l)
<1>1. /\ operator'[p].pc # "idle" /\ operator'[p].decision = d
      /\ operator'[p].action = operator[p].action
      /\ \A q \in Operators : q # p => operator'[q] = operator[q]
  BY DEF Steps, Worked
<1>3. \A q \in Operators : \A action : Working(q, d, action)' <=> Working(q, d, action)
  BY <1>1 DEF Working, Worked
<1>4. RollingBack(d)' <=> RollingBack(d)
  BY <1>3 DEF RollingBack
<1>5. ASSUME NEW l \in Links, Cleared(d, l)'
      PROVE  Cleared(d, l)
  <2>1. Orderly(d)
    BY <1>5 DEF Cleared, Orderly
  <2>2. CASE (\E q \in Operators : Working(q, d, "merge") /\ MovedPast(operator[q], l))'
    <3>1. PICK q \in Operators : Working(q, d, "merge")' /\ MovedPast(operator'[q], l)
      BY <2>2
      DEF MovedPast, MoveOrder, CoreTables, ContactTables, OperationTables, HistoryTables
    <3>2. Working(q, d, "merge") /\ MovedPast(operator[q], l)
      BY <1>1, <1>3, <3>1 DEF Working
    <3> QED
      BY <2>1, <3>2 DEF Cleared
  <2>3. CASE decision'[d] = [status |-> "merged", action |-> "review_queue"] /\ ~RollingBack(d)'
    BY <1>4, <2>1, <2>3 DEF Cleared
  <2> QED
    BY <1>5, <2>2, <2>3 DEF Cleared
<1>6. \A e \in Decisions : \A l \in Links : Cleared(e, l)' => Cleared(e, l)
  BY <1>5, MovesCleared
<1> QED
  BY <1>4, <1>6

(* A request that goes on, with all owners and audits, too.                *)
LEMMA GoesQuiet ==
  ASSUME SoundInv, LinkInv, NEW p \in Operators, NEW d \in Decisions, Worked(p, d),
         NEW points, Steps(p, points), "idle" \notin points,
         UNCHANGED <<importer, owner, decision, audit, contested, halted, exposed, untimely>>,
         operator'[p].links \subseteq Links,
         \A l \in operator'[p].links : Settled(l, Candidate(d), {}),
         MergeKnows(p, d)', RollbackKnows(p, d)',
         operator[p].action = "rollback" /\ operator'[p].pc \in {"unredirect", "decide"} =>
           operator[p].pc \in {"unredirect", "decide"},
         operator[p].action = "merge" =>
           \A l \in Links : MovedPast(operator'[p], l) => MovedPast(operator[p], l)
  PROVE  LinkInv'
<1>1. /\ operator'[p].pc # "idle" /\ operator'[p].decision = d
      /\ operator'[p].action = operator[p].action
      /\ \A q \in Operators : q # p => operator'[q] = operator[q]
  BY DEF Steps, Worked
<1>2. Moves(p, d)
  BY <1>1, StepMoves DEF LinkInv, WorkInv
<1>3. /\ RollingBack(d)' <=> RollingBack(d)
      /\ \A l \in Links : Cleared(d, l)' => Cleared(d, l)
  BY <1>2, GoesCleared
<1>4. /\ Overtaken(d) => Overtaken(d)'
      /\ Merged(d) => Merged(d)'
  BY <1>3 DEF Overtaken, Merged
<1>5. Closed(d)' => Closed(d)
  <2>1. ASSUME NEW q \in Operators, Working(q, d, "rollback")',
               operator'[q].pc \in {"unredirect", "decide"}
        PROVE  Working(q, d, "rollback") /\ operator[q].pc \in {"unredirect", "decide"}
    BY <1>1, <2>1 DEF Working, Worked
  <2> QED
    BY <2>1 DEF Closed
<1> QED
  BY <1>2, <1>3, <1>4, <1>5, QuietMoves

(* What was freed stays so while its owner and the audits stay as they are. *)
LEMMA FreedStays ==
  ASSUME NEW p \in Operators, NEW d \in Decisions, Moves(p, d), UNCHANGED audit,
         \A e \in Decisions : \A l \in Links : Cleared(e, l)' => Cleared(e, l),
         NEW f \in Decisions, NEW l \in Links, Freed(f, l), owner'[l] = owner[l]
  PROVE  Freed(f, l)'
<1>1. Settled(l, Matched(f), {f}) => Settled(l, Matched(f), {f})'
  BY StaysSettled
<1>2. MovedOn(f, l)' <=> MovedOn(f, l)
  BY DEF MovedOn
<1>3. exposed \subseteq exposed' /\ untimely \subseteq untimely'
  BY DEF Moves
<1> QED
  BY <1>1, <1>2, <1>3 DEF Freed

LEMMA GoLinks ==
  ASSUME SoundInv, NEW p \in Operators, NEW point, Go(p, point)
  PROVE  /\ operator'[p].links = operator[p].links /\ operator'[p].done = operator[p].done
         /\ operator'[p].pc = point /\ operator'[p].at = 1
         /\ operator'[p].decision = operator[p].decision
         /\ operator'[p].action = operator[p].action
<1>1. operator \in [Operators -> OperatorRequest] /\ operator[p] \in OperatorRequest
  BY DEF SoundInv, TypeOK
<1>2. operator'[p] = [operator[p] EXCEPT !.pc = point, !.at = 1]
  BY <1>1 DEF Go, Operating
<1> QED
  BY <1>1, <1>2 DEF OperatorRequest

(* A merge goes through the table of each link.                            *)
LEMMA TableInOrder ==
  ASSUME NEW l \in Links
  PROVE  /\ Table[l] \in {ListOrder[k] : k \in 1..Len(ListOrder)}
         /\ Table[l] \in {MoveOrder[k] : k \in 1..Len(MoveOrder)}
         /\ Table[l] # "sellers"
         /\ Len(ListOrder) \in Nat /\ Len(MoveOrder) \in Nat
<1> DEFINE S == {"marketplace_accounts", "seller_aliases", "score_components",
                 "seller_product_links", "contacts", "outreach_state", "suppression_list",
                 "sources", "field_history", "sellers"}
           hidden == <<"sellers">>
<1>1. /\ CoreTables \in Seq(S) /\ ContactTables \in Seq(S) /\ OperationTables \in Seq(S)
      /\ HistoryTables \in Seq(S) /\ hidden \in Seq(S)
  BY DEF CoreTables, ContactTables, OperationTables, HistoryTables
<1>2. /\ Members(CoreTables) = {"marketplace_accounts", "seller_aliases", "score_components",
                                "seller_product_links"}
      /\ Members(ContactTables) = {"contacts", "outreach_state", "suppression_list"}
      /\ Members(OperationTables) = {"sources"}
      /\ Members(HistoryTables) = {"field_history"}
  BY DEF CoreTables, ContactTables, OperationTables, HistoryTables, Members
<1> HIDE DEF S, hidden
<1> DEFINE list1 == CoreTables \o ContactTables
           list2 == list1 \o OperationTables
           list3 == list2 \o HistoryTables
           move1 == CoreTables \o hidden
           move2 == move1 \o ContactTables
           move3 == move2 \o OperationTables
           move4 == move3 \o HistoryTables
<1>3. ListOrder = list3 /\ MoveOrder = move4
  BY DEF ListOrder, LinkTables, MoveOrder, hidden
<1>4. list1 \in Seq(S) /\ Members(list1) = Members(CoreTables) \cup Members(ContactTables)
  BY <1>1, MembersConcat
<1>5. move1 \in Seq(S) /\ Members(CoreTables) \subseteq Members(move1)
  BY <1>1, MembersConcat
<1> HIDE DEF list1, move1
<1>6. list2 \in Seq(S) /\ Members(list2) = Members(list1) \cup Members(OperationTables)
  BY <1>1, <1>4, MembersConcat
<1>7. move2 \in Seq(S) /\ Members(move2) = Members(move1) \cup Members(ContactTables)
  BY <1>1, <1>5, MembersConcat
<1> HIDE DEF list2, move2
<1>8. list3 \in Seq(S) /\ Members(list3) = Members(list2) \cup Members(HistoryTables)
  BY <1>1, <1>6, MembersConcat
<1>9. move3 \in Seq(S) /\ Members(move3) = Members(move2) \cup Members(OperationTables)
  BY <1>1, <1>7, MembersConcat
<1> HIDE DEF list3, move3
<1>10. move4 \in Seq(S) /\ Members(move4) = Members(move3) \cup Members(HistoryTables)
  BY <1>1, <1>9, MembersConcat
<1> HIDE DEF move4
<1>11. Members(LinkTables) = Members(list3)
  BY <1>3 DEF ListOrder
<1>12. Table[l] \in Members(list3)
  BY <1>11, ConstantsAssumption
<1>13. Members(list3) \subseteq Members(move4)
  BY <1>4, <1>5, <1>6, <1>7, <1>8, <1>9, <1>10
<1>14. "sellers" \notin Members(list3)
  BY <1>2, <1>4, <1>6, <1>8
<1>15. /\ Members(list3) = {list3[k] : k \in 1..Len(list3)} /\ Len(list3) \in Nat
       /\ Members(move4) = {move4[k] : k \in 1..Len(move4)} /\ Len(move4) \in Nat
  BY <1>8, <1>10, MembersIn
<1> QED
  BY <1>3, <1>12, <1>13, <1>14, <1>15

LEMMA ListNext ==
  ASSUME SoundInv, NEW p \in Operators, List(p)
  PROVE  LET r == operator[p]
             n == operator'[p]
             found == r.links \cup {l \in Links : Table[l] = ListOrder[r.at]
                                                  /\ owner[l] = Candidate(r.decision)}
         IN
         /\ r.pc = "list" /\ r.at \in Nat /\ r.links \subseteq Links
         /\ n.links = found /\ n.done = r.done
         /\ r.at < Len(ListOrder) => n.pc = "list" /\ n.at = r.at + 1
         /\ ~(r.at < Len(ListOrder)) =>
              n.at = 1 /\ n.pc = IF found = {} THEN "move" ELSE "audit"
<1> DEFINE r == operator[p]
           found == r.links \cup {l \in Links : Table[l] = ListOrder[r.at]
                                                /\ owner[l] = Candidate(r.decision)}
           k == r.at + 1
<1>1. operator \in [Operators -> OperatorRequest] /\ r \in OperatorRequest /\ r.pc = "list"
  BY DEF SoundInv, TypeOK, List, At
<1>2. operator'[p] = IF r.at < Len(ListOrder) THEN [r EXCEPT !.links = found, !.at = k]
                     ELSE [r EXCEPT !.links = found, !.at = 1,
                                    !.pc = IF found = {} THEN "move" ELSE "audit"]
  BY <1>1 DEF List, Operating
<1>3. r.at \in Nat /\ r.links \subseteq Links
  BY <1>1 DEF OperatorRequest
<1> HIDE DEF found, k
<1>4. CASE r.at < Len(ListOrder)
  <2>1. operator'[p] = [r EXCEPT !.links = found, !.at = k]
    BY <1>2, <1>4
  <2>2. /\ operator'[p].links = found /\ operator'[p].done = r.done
        /\ operator'[p].pc = "list" /\ operator'[p].at = k
    BY <1>1, <2>1 DEF OperatorRequest
  <2> QED
    BY <1>1, <1>3, <1>4, <2>2 DEF found, k
<1>5. CASE ~(r.at < Len(ListOrder))
  <2>1. operator'[p] = [r EXCEPT !.links = found, !.at = 1,
                                 !.pc = IF found = {} THEN "move" ELSE "audit"]
    BY <1>2, <1>5
  <2>2. /\ operator'[p].links = found /\ operator'[p].done = r.done
        /\ operator'[p].pc = (IF found = {} THEN "move" ELSE "audit") /\ operator'[p].at = 1
    BY <1>1, <2>1 DEF OperatorRequest
  <2> QED
    BY <1>1, <1>3, <1>5, <2>2 DEF found
<1> QED
  BY <1>4, <1>5

LEMMA ListKeepsLinks ==
  ASSUME SoundInv, LinkInv, NEW p \in Operators, List(p)
  PROVE  LinkInv'
<1> PICK r : r = operator[p]
  OBVIOUS
<1> PICK d : d = r.decision
  OBVIOUS
<1> PICK n : n = operator'[p]
  OBVIOUS
<1>1. /\ OperatorsOK' /\ r.action = "merge" /\ Steps(p, {"list", "audit", "move"})
      /\ d \in Decisions /\ Candidate(d) \in Sellers /\ r.pc = "list"
  BY SoundParts, ListSound, OperatorHere DEF List, At
<1>2. /\ Worked(p, d) /\ Working(p, d, "merge") /\ n.action = "merge" /\ n.decision = d
      /\ UNCHANGED <<importer, owner, decision, audit, contested, halted, exposed, untimely>>
  BY <1>1 DEF Worked, Working, Steps, List, Operates, tables, history
<1>3. /\ r.at \in Nat /\ r.links \subseteq Links
      /\ n.links = r.links \cup {l \in Links : Table[l] = ListOrder[r.at]
                                               /\ owner[l] = Candidate(d)}
      /\ n.done = r.done
      /\ r.at < Len(ListOrder) => n.pc = "list" /\ n.at = r.at + 1
      /\ ~(r.at < Len(ListOrder)) =>
           n.at = 1 /\ n.pc = IF n.links = {} THEN "move" ELSE "audit"
  BY ListNext
<1>4. \A l \in n.links : Settled(l, Candidate(d), {})
  BY <1>1, <1>2, <1>3 DEF LinkInv, WorkInv, RequestSettled, LinksSettled
<1>5. MergeKnows(p, d)'
  <2> SUFFICES ASSUME d \notin contested PROVE MergeKnows(p, d)'
    BY <1>2 DEF MergeKnows
  <2>1. /\ \A l \in Links : Read(r, l) /\ owner[l] = Candidate(d) => l \in r.links \cup exposed
        /\ r.done = {}
    BY <1>1, <1>2 DEF LinkInv, WorkInv, MergeKnows
  <2>2. ASSUME NEW l \in Links, Read(n, l), owner[l] = Candidate(d)
        PROVE  l \in n.links \cup exposed
    <3>1. PICK k \in 1..Len(ListOrder) : Table[l] = ListOrder[k] /\ (n.pc = "list" => k <= r.at)
      <4>1. CASE n.pc = "list"
        <5>1. r.at < Len(ListOrder) /\ n.at = r.at + 1 /\ Len(ListOrder) \in Nat
          BY <1>3, <2>2, <4>1, TableInOrder
        <5>2. PICK k \in 1..(n.at - 1) : Table[l] = ListOrder[k]
          BY <2>2, <4>1 DEF Read
        <5> QED
          BY <1>3, <5>1, <5>2
      <4>2. CASE n.pc # "list"
        BY <4>2, TableInOrder
      <4> QED
        BY <4>1, <4>2
    <3>2. k <= r.at
      <4>1. CASE r.at < Len(ListOrder)
        BY <1>3, <3>1, <4>1
      <4>2. CASE ~(r.at < Len(ListOrder))
        BY <1>3, <3>1, <4>2, TableInOrder
      <4> QED
        BY <4>1, <4>2
    <3>3. CASE k = r.at
      BY <1>3, <2>2, <3>1, <3>3
    <3>4. CASE k # r.at
      <4>1. k \in 1..(r.at - 1)
        BY <1>3, <3>1, <3>2, <3>4
      <4>2. Read(r, l)
        BY <3>1, <4>1 DEF Read
      <4> QED
        BY <1>3, <2>1, <2>2, <4>2
    <3> QED
      BY <3>3, <3>4
  <2>3. \A l : Read(operator[p], l)' <=> Read(n, l)
    BY DEF Read, ListOrder, LinkTables, CoreTables, ContactTables, OperationTables, HistoryTables
  <2>4. n.pc = "audit" => n.done = {}
    BY <1>3, <2>1
  <2>5. n.pc = "move" => n.links = {}
    BY <1>3
  <2>6. n.pc = "list" => n.done = {}
    BY <1>3, <2>1
  <2> QED
    BY <1>2, <2>2, <2>3, <2>4, <2>5, <2>6 DEF MergeKnows
<1>6. RollbackKnows(p, d)'
  BY <1>2 DEF RollbackKnows, Working
<1>7. \A l \in Links : ~MovedPast(n, l)
  BY <1>3 DEF MovedPast
<1>8. n.links \subseteq Links
  BY <1>3
<1> QED
  BY <1>1, <1>2, <1>4, <1>5, <1>6, <1>7, <1>8, GoesQuiet

(* The steps that only go on, to the decision or to the log.               *)
LEMMA GoKeepsLinks ==
  ASSUME SoundInv, LinkInv, NEW p \in Operators, AddRedirect(p) \/ ResolveReview(p) \/ EndRedirect(p)
  PROVE  LinkInv'
<1> PICK r : r = operator[p]
  OBVIOUS
<1> PICK d : d = r.decision
  OBVIOUS
<1> PICK n : n = operator'[p]
  OBVIOUS
<1>1. /\ r.pc # "idle"
      /\ UNCHANGED <<importer, owner, decision, audit, contested, halted, exposed, untimely>>
  BY DEF AddRedirect, ResolveReview, EndRedirect, At, Operates, history
<1>2. PICK point \in {"decide", "log"} :
        /\ Go(p, point) /\ Steps(p, {point})
        /\ point = "decide" =>
             \/ r.action = "merge" /\ r.pc = "redirect"
             \/ r.action = "rollback" /\ r.pc = "unredirect"
  <2>1. CASE AddRedirect(p)
    <3>1. Go(p, "decide") /\ Steps(p, {"decide"}) /\ r.pc = "redirect" /\ r.action = "merge"
      BY <2>1, SoundParts, GoesSound DEF AddRedirect
    <3> QED
      BY <3>1
  <2>2. CASE ResolveReview(p)
    <3>1. Go(p, "log") /\ Steps(p, {"log"})
      BY <2>2, SoundParts, GoesSound DEF ResolveReview
    <3> QED
      BY <3>1
  <2>3. CASE EndRedirect(p)
    <3>1. Go(p, "decide") /\ Steps(p, {"decide"}) /\ r.pc = "unredirect" /\ r.action = "rollback"
      BY <2>3, SoundParts, GoesSound DEF EndRedirect
    <3> QED
      BY <3>1
  <2> QED
    BY <2>1, <2>2, <2>3
<1>3. d \in Decisions /\ r.links \subseteq Links /\ Worked(p, d)
  BY <1>1, SoundParts, OperatorHere, LinksOfRequest DEF Worked
<1>4. n.links = r.links /\ n.pc = point
  BY <1>2, GoLinks
<1>5. \A l \in n.links : Settled(l, Candidate(d), {})
  BY <1>3, <1>4 DEF LinkInv, WorkInv, RequestSettled
<1>6. MergeKnows(p, d)' /\ RollbackKnows(p, d)'
  BY <1>4 DEF MergeKnows, RollbackKnows, Restoring
<1>7. "idle" \notin {point}
  OBVIOUS
<1>8. r.action = "merge" => \A l \in Links : MovedPast(n, l) => MovedPast(r, l)
  BY <1>2, <1>4 DEF MovedPast
<1>9. r.action = "rollback" /\ n.pc \in {"unredirect", "decide"} =>
        r.pc \in {"unredirect", "decide"}
  BY <1>2, <1>4
<1> QED
  BY <1>1, <1>2, <1>3, <1>4, <1>5, <1>6, <1>7, <1>8, <1>9, GoesQuiet

LEMMA RecallNext ==
  ASSUME SoundInv, NEW p \in Operators, Recall(p)
  PROVE  LET r == operator[p]
             n == operator'[p]
             open == {l \in Links : audit[r.decision][l] = "open"}
         IN
         /\ r.pc = "recall" /\ n.links = open /\ n.done = r.done
         /\ n.pc = IF open = {} THEN "activate"
                   ELSE IF \E l \in open : InCore(l) THEN "restore" ELSE "reopen"
<1> DEFINE r == operator[p]
           open == {l \in Links : audit[r.decision][l] = "open"}
           pc == IF open = {} THEN "activate"
                 ELSE IF \E l \in open : InCore(l) THEN "restore" ELSE "reopen"
<1>1. operator \in [Operators -> OperatorRequest] /\ r \in OperatorRequest /\ r.pc = "recall"
  BY DEF SoundInv, TypeOK, Recall, At
<1>2. operator'[p] = [r EXCEPT !.links = open, !.pc = pc]
  BY <1>1 DEF Recall, Operating
<1> HIDE DEF open, pc
<1>3. operator'[p].links = open /\ operator'[p].done = r.done /\ operator'[p].pc = pc
  BY <1>1, <1>2 DEF OperatorRequest
<1> QED
  BY <1>1, <1>3 DEF open, pc

LEMMA RecallKeepsLinks ==
  ASSUME SoundInv, LinkInv, NEW p \in Operators, Recall(p)
  PROVE  LinkInv'
<1> PICK r : r = operator[p]
  OBVIOUS
<1> PICK d : d = r.decision
  OBVIOUS
<1> PICK n : n = operator'[p]
  OBVIOUS
<1>1. /\ r.action = "rollback" /\ Steps(p, {"restore", "reopen", "activate"})
      /\ r.pc = "recall" /\ d \in Decisions
  BY SoundParts, RecallSound, OperatorHere DEF Recall, At
<1>2. /\ Worked(p, d) /\ Working(p, d, "rollback") /\ n.action = "rollback" /\ n.decision = d
      /\ UNCHANGED <<importer, owner, decision, audit, contested, halted, exposed, untimely>>
  BY <1>1 DEF Worked, Working, Steps, Recall, Operates, tables, history
<1> DEFINE open == {l \in Links : audit[d][l] = "open"}
<1>3. /\ n.links = open /\ n.done = r.done
      /\ n.pc = IF open = {} THEN "activate"
                ELSE IF \E l \in open : InCore(l) THEN "restore" ELSE "reopen"
  BY RecallNext
<1>4. \A l \in n.links : Settled(l, Candidate(d), {})
  BY <1>1, <1>3 DEF LinkInv, WorkInv, LinksSettled
<1>5. r.done = {}
  BY <1>1, <1>2 DEF LinkInv, WorkInv, RollbackKnows
<1>6. MergeKnows(p, d)'
  BY <1>2 DEF MergeKnows, Working
<1>7. RollbackKnows(p, d)'
  <2>1. n.pc \in {"activate", "close"} => n.links = {}
    BY <1>3
  <2>2. n.pc \in {"reopen", "restore_rest"} => \A l \in n.links : ~InCore(l)
    BY <1>3
  <2>3. n.pc # "recall"
    BY <1>3
  <2>4. \A l \in n.links : audit'[d][l] # "none"
    BY <1>2, <1>3
  <2>5. \A l \in Links : audit'[d][l] = "open" => l \in n.links /\ l \notin n.done
    BY <1>2, <1>3, <1>5
  <2>6. \A l : InCore(l)' <=> InCore(l)
    BY DEF InCore, CoreTables, Members
  <2> QED
    BY <2>1, <2>2, <2>3, <2>4, <2>5, <2>6 DEF RollbackKnows
<1>8. n.links \subseteq Links /\ n.pc \notin {"unredirect", "decide", "idle"}
  BY <1>3
<1> QED
  BY <1>1, <1>2, <1>4, <1>6, <1>7, <1>8, GoesQuiet

LEMMA ActivateKeepsLinks ==
  ASSUME SoundInv, LinkInv, NEW p \in Operators, Activate(p)
  PROVE  LinkInv'
<1> PICK r : r = operator[p]
  OBVIOUS
<1> PICK d : d = r.decision
  OBVIOUS
<1> PICK n : n = operator'[p]
  OBVIOUS
<1>1. /\ r.action = "rollback" /\ r.pc \in {"reopen", "activate"}
      /\ r.pc = "reopen" => Steps(p, {"activate", "restore_rest"})
      /\ r.pc = "activate" => Steps(p, {"close"})
  BY SoundParts, GoesSound
<1>2. d \in Decisions /\ r.links \subseteq Links /\ Worked(p, d) /\ Working(p, d, "rollback")
  BY <1>1, SoundParts, OperatorHere, LinksOfRequest DEF Worked, Working
<1>3. UNCHANGED <<importer, owner, decision, audit, contested, halted, exposed, untimely>>
  BY DEF Activate, Operates, history
<1>4. /\ n.links = r.links /\ n.done = r.done /\ n.decision = d /\ n.action = "rollback"
      /\ n.pc = IF r.pc = "activate" THEN "close"
                ELSE IF r.links \subseteq r.done THEN "activate" ELSE "restore_rest"
  <2> PICK point : point = IF r.pc = "activate" THEN "close"
                           ELSE IF r.links \subseteq r.done THEN "activate" ELSE "restore_rest"
    OBVIOUS
  <2>1. Go(p, point)
    BY DEF Activate, At
  <2> QED
    BY <1>1, <2>1, GoLinks
<1>5. Steps(p, {"activate", "restore_rest", "close"})
  BY <1>1 DEF Steps
<1>6. \A l \in n.links : Settled(l, Candidate(d), {})
  BY <1>2, <1>4 DEF LinkInv, WorkInv, RequestSettled
<1>7. MergeKnows(p, d)'
  BY <1>4 DEF MergeKnows, Working
<1>8. Moves(p, d) /\ \A e \in Decisions : \A l \in Links : Cleared(e, l)' => Cleared(e, l)
  <2>1. Moves(p, d)
    BY <1>2, <1>3, <1>5, StepMoves DEF LinkInv, WorkInv, Steps
  <2>2. "idle" \notin {"activate", "restore_rest", "close"} /\ operator[p].action # "merge"
    BY <1>1
  <2> QED
    BY <1>2, <1>3, <1>5, <2>1, <2>2, GoesCleared
<1>9. RollbackKnows(p, d)'
  <2>1. /\ \A l \in r.links : audit[d][l] # "none"
        /\ r.pc = "reopen" => \A l \in r.links : InCore(l) => l \in r.done
        /\ r.pc = "activate" => r.links \subseteq r.done
        /\ d \notin contested =>
             \A l \in Links :
               audit[d][l] = "open" /\ (l \in r.links => l \in r.done) => Freed(d, l)
    BY <1>1, <1>2 DEF LinkInv, WorkInv, RollbackKnows, Restoring
  <2>2. n.pc \in {"activate", "close"} => n.links \subseteq n.done
    BY <1>1, <1>4, <2>1
  <2>3. n.pc \in {"reopen", "restore_rest"} => \A l \in n.links : InCore(l) => l \in n.done
    BY <1>1, <1>4, <2>1
  <2>4. d \notin contested' =>
          \A l \in Links :
            audit'[d][l] = "open" /\ (l \in n.links => l \in n.done) => Freed(d, l)'
    BY <1>2, <1>3, <1>4, <1>8, <2>1, FreedStays
  <2>5. \A l : InCore(l)' <=> InCore(l)
    BY DEF InCore, CoreTables, Members
  <2>6. n.pc # "recall" /\ \A l \in n.links : audit'[d][l] # "none"
    BY <1>1, <1>3, <1>4, <2>1
  <2> QED
    BY <2>2, <2>3, <2>4, <2>5, <2>6 DEF RollbackKnows
<1>10. n.links \subseteq Links /\ n.pc \notin {"unredirect", "decide", "idle"}
  BY <1>1, <1>2, <1>4
<1> QED
  BY <1>1, <1>2, <1>3, <1>5, <1>6, <1>7, <1>9, <1>10, GoesQuiet

LEMMA DecideKeepsLinks ==
  ASSUME SoundInv, TraceInv, LinkInv, NEW p \in Operators, Decide(p)
  PROVE  LinkInv'
<1> PICK r : r = operator[p]
  OBVIOUS
<1> PICK d : d = r.decision
  OBVIOUS
<1> PICK n : n = operator'[p]
  OBVIOUS
<1>1. /\ r.pc = "decide" /\ Steps(p, {"review"}) /\ Go(p, "review")
      /\ UNCHANGED <<importer, owner, audit, contested, halted, exposed, untimely>>
      /\ decision' = [decision EXCEPT ![d].status = Expected(r.action)]
  BY SoundParts, GoesSound DEF Decide, Operates, history
<1>2. d \in Decisions /\ r.action \in Actions /\ r.links \subseteq Links /\ Worked(p, d)
      /\ \A e \in Decisions : Worked(p, e) => e = d
  BY <1>1, SoundParts, OperatorHere, LinksOfRequest DEF Worked
<1>3. n.links = r.links /\ n.pc = "review" /\ n.decision = d /\ n.action = r.action
      /\ \A q \in Operators : q # p => operator'[q] = operator[q]
  BY <1>1, GoLinks DEF Steps
<1>4. /\ decision'[d].status = Expected(r.action)
      /\ \A e \in Decisions \ {d} : decision'[e] = decision[e]
  BY <1>1, <1>2 DEF SoundInv, TypeOK, Decision
<1>5. Moves(p, d)
  BY <1>1, <1>2, <1>3, <1>4, StepMoves DEF LinkInv, WorkInv
<1>6. \A l \in n.links : Settled(l, Candidate(d), {})
  BY <1>2, <1>3 DEF LinkInv, WorkInv, RequestSettled
<1>7. MergeKnows(p, d)' /\ RollbackKnows(p, d)'
  BY <1>3 DEF MergeKnows, RollbackKnows, Restoring
<1>8. /\ Expected(r.action) = "merged" => r.action = "merge"
      /\ Expected(r.action) = "rolled_back" <=> r.action = "rollback"
  BY <1>2 DEF Expected, Actions
<1>9. d \notin contested =>
        decision[d].status = IF r.action = "rollback" THEN "merged" ELSE "pending"
  BY <1>1 DEF TraceInv, Stands
<1>10. ASSUME NEW l \in Links, Cleared(d, l)'
       PROVE  Cleared(d, l)
  <2>1. Orderly(d) /\ d \notin contested
    BY <1>1, <1>10 DEF Cleared, Orderly
  <2>2. CASE (\E q \in Operators : Working(q, d, "merge") /\ MovedPast(operator[q], l))'
    <3>1. PICK q \in Operators : Working(q, d, "merge")' /\ MovedPast(operator'[q], l)
      BY <2>2
      DEF MovedPast, MoveOrder, CoreTables, ContactTables, OperationTables, HistoryTables
    <3>2. q # p
      BY <1>3, <3>1 DEF MovedPast
    <3>3. Working(q, d, "merge")
      BY <1>3, <3>1, <3>2 DEF Working
    <3> QED
      BY <1>2, <2>1, <3>2, <3>3, AloneHere
  <2>3. CASE decision'[d] = [status |-> "merged", action |-> "review_queue"]
    <3>1. r.action = "merge"
      BY <1>4, <1>8, <2>3
    <3>2. Working(p, d, "merge") /\ MovedPast(operator[p], l)
      BY <1>1, <3>1 DEF Working, MovedPast
    <3> QED
      BY <2>1, <3>2 DEF Cleared
  <2> QED
    BY <1>10, <2>2, <2>3 DEF Cleared
<1>11. ASSUME d \notin contested
       PROVE  /\ Overtaken(d) /\ Merged(d) => Overtaken(d)' /\ Merged(d)'
              /\ Closed(d)' => Closed(d)
  <2>1. Merged(d) => decision'[d].status = "rolled_back"
    BY <1>4, <1>8, <1>9, <1>11 DEF Merged
  <2>2. decision'[d].status = "rolled_back" =>
          Working(p, d, "rollback") /\ operator[p].pc = "decide"
    BY <1>1, <1>4, <1>8 DEF Working
  <2>3. ASSUME NEW q \in Operators, Working(q, d, "rollback")',
               operator'[q].pc \in {"unredirect", "decide"}
        PROVE  Working(q, d, "rollback") /\ operator[q].pc \in {"unredirect", "decide"}
    BY <1>3, <2>3 DEF Working
  <2> QED
    BY <2>1, <2>2, <2>3 DEF Overtaken, Merged, Closed
<1> QED
  BY <1>1, <1>2, <1>3, <1>5, <1>6, <1>7, <1>10, <1>11, QuietMoves

LEMMA RestKeepsLinks ==
  ASSUME SoundInv, TraceInv, LinkInv, NEW p \in Operators, Log(p) \/ FailOperator(p)
  PROVE  LinkInv'
<1> PICK r : r = operator[p]
  OBVIOUS
<1> PICK d : d = r.decision
  OBVIOUS
<1>1. /\ operator'[p].pc = "idle" /\ operator'[p].links = {}
      /\ \A q \in Operators : q # p => operator'[q] = operator[q]
      /\ UNCHANGED <<importer, owner, audit, decision, contested, exposed, untimely>>
      /\ halted \subseteq halted' /\ r.pc # "idle"
      /\ r.pc = "log" \/ d \in halted'
  <2>1. Operating(p, Resting) /\ operator \in [Operators -> OperatorRequest]
    BY DEF Log, FailOperator, SoundInv, TypeOK
  <2>2. operator'[p].links = {}
    BY <2>1 DEF Operating, Resting
  <2>3. operator'[p].pc = "idle" /\ \A q \in Operators : q # p => operator'[q] = operator[q]
    BY <2>1, SoundParts, RestSound
  <2> QED
    BY <2>2, <2>3 DEF Log, FailOperator, Operates, tables, history, At
<1>2. d \in Decisions /\ Worked(p, d) /\ r.action \in Actions
  BY <1>1, SoundParts, OperatorHere DEF Worked
<1>3. Moves(p, d)
  BY <1>1, <1>2, StepMoves DEF LinkInv, WorkInv
<1>4. ~Worked(p, d)' /\ MergeKnows(p, d)' /\ RollbackKnows(p, d)'
  BY <1>1 DEF Worked, Working, MergeKnows, RollbackKnows
<1>5. RollingBack(d) /\ d \notin contested =>
        RollingBack(d)' \/ d \in halted' \/ decision[d].status = "rolled_back"
  <2> SUFFICES ASSUME NEW q \in Operators, Working(q, d, "rollback"), d \notin contested
               PROVE  RollingBack(d)' \/ d \in halted' \/ decision[d].status = "rolled_back"
    BY DEF RollingBack
  <2>1. CASE q # p
    BY <1>1, <2>1 DEF RollingBack, Working
  <2>2. CASE q = p /\ r.pc = "log"
    <3>1. r.action = "rollback"
      BY <2>2 DEF Working
    <3> QED
      BY <2>2, <3>1 DEF TraceInv, Stands, Expected
  <2> QED
    BY <1>1, <2>1, <2>2
<1>6. ASSUME NEW l \in Links, Cleared(d, l)'
      PROVE  Cleared(d, l)
  <2>1. Orderly(d) /\ d \notin contested /\ d \notin halted'
    BY <1>1, <1>6 DEF Cleared, Orderly
  <2>2. CASE (\E q \in Operators : Working(q, d, "merge") /\ MovedPast(operator[q], l))'
    <3>1. PICK q \in Operators : Working(q, d, "merge")' /\ MovedPast(operator'[q], l)
      BY <2>2
      DEF MovedPast, MoveOrder, CoreTables, ContactTables, OperationTables, HistoryTables
    <3>2. Working(q, d, "merge") /\ MovedPast(operator[q], l)
      BY <1>1, <3>1 DEF Working
    <3> QED
      BY <2>1, <3>2 DEF Cleared
  <2>3. CASE decision'[d] = [status |-> "merged", action |-> "review_queue"] /\ ~RollingBack(d)'
    <3>1. decision[d].status = "merged"
      BY <1>1, <2>3
    <3> QED
      BY <1>1, <1>5, <2>1, <2>3, <3>1 DEF Cleared
  <2> QED
    BY <1>6, <2>2, <2>3 DEF Cleared
<1>7. ASSUME d \notin contested
      PROVE  /\ Overtaken(d) /\ Merged(d) => Overtaken(d)' /\ Merged(d)'
             /\ Closed(d)' => Closed(d)
  <2>1. ASSUME NEW q \in Operators, Working(q, d, "rollback")',
               operator'[q].pc \in {"unredirect", "decide"}
        PROVE  Working(q, d, "rollback") /\ operator[q].pc \in {"unredirect", "decide"}
    BY <1>1, <2>1 DEF Working
  <2> QED
    BY <1>1, <1>5, <1>7, <2>1 DEF Overtaken, Merged, Closed
<1>8. operator'[p].links \subseteq Links
  BY <1>1
<1> QED
  BY <1>1, <1>2, <1>3, <1>4, <1>6, <1>7, <1>8, QuietMoves

LEMMA BeginNext ==
  ASSUME SoundInv, NEW p \in Operators, NEW d \in Decisions, NEW action \in Actions,
         Begin(p, d, action)
  PROVE  LET n == operator'[p] IN
         /\ operator[p].pc = "idle" /\ n.decision = d /\ n.action = action
         /\ n.links = {} /\ n.done = {} /\ n.at = 1
         /\ action = "merge" => n.pc \in {"list", "log"}
         /\ action = "rollback" => n.pc \in {"recall", "log"}
         /\ n.pc \in {"list", "recall", "decide", "log"}
<1> DEFINE point == IF decision[d].status = Expected(action) THEN "log"
                    ELSE IF action = "rollback" THEN "recall"
                    ELSE IF action = "merge" THEN "list" ELSE "decide"
<1>1. operator \in [Operators -> OperatorRequest] /\ operator[p].pc = "idle"
  BY DEF SoundInv, TypeOK, Begin, At
<1>2. operator'[p] = [Resting EXCEPT !.decision = d, !.action = action, !.pc = point]
  BY <1>1 DEF Begin, Operating
<1>3. /\ action = "merge" => point \in {"list", "log"}
      /\ action = "rollback" => point \in {"recall", "log"}
      /\ point \in {"list", "recall", "decide", "log"}
  OBVIOUS
<1> HIDE DEF point
<1>4. /\ operator'[p].decision = d /\ operator'[p].action = action /\ operator'[p].pc = point
      /\ operator'[p].links = {} /\ operator'[p].done = {} /\ operator'[p].at = 1
  BY <1>2 DEF Resting
<1> QED
  BY <1>1, <1>3, <1>4

LEMMA ClashingShared ==
  ASSUME NEW d \in Decisions, NEW q \in Operators, NEW e \in Decisions,
         Worked(q, e), Share(d, e)
  PROVE  d \in Clashing(d) /\ e \in Clashing(d)
<1> DEFINE busy   == {o \in Operators : operator[o].pc # "idle"}
           others == {operator[o].decision : o \in busy}
           clash  == {f \in others : {f[1], f[2]} \cap {d[1], d[2]} # {}}
<1>1. q \in busy /\ operator[q].decision = e
  BY DEF Worked
<1>2. e \in others
  BY <1>1
<1>3. {e[1], e[2]} \cap {d[1], d[2]} # {}
  BY DEF Share
<1>4. e \in clash
  BY <1>2, <1>3
<1>5. Clashing(d) = IF clash = {} THEN {} ELSE clash \cup {d}
  BY DEF Clashing
<1> HIDE DEF clash
<1> QED
  BY <1>4, <1>5

LEMMA BeginKeepsLinks ==
  ASSUME SoundInv, LinkInv, NEW p \in Operators, NEW d \in Decisions, NEW action \in Actions,
         Begin(p, d, action)
  PROVE  LinkInv'
<1> PICK n : n = operator'[p]
  OBVIOUS
<1>1. /\ operator[p].pc = "idle" /\ n.decision = d /\ n.action = action
      /\ n.links = {} /\ n.done = {} /\ n.at = 1
      /\ action = "merge" => n.pc \in {"list", "log"}
      /\ action = "rollback" => n.pc \in {"recall", "log"}
      /\ n.pc \in {"list", "recall", "decide", "log"}
  BY BeginNext
<1>2. /\ contested' = contested \cup Clashing(d)
      /\ UNCHANGED <<importer, owner, decision, audit, halted, exposed, untimely>>
      /\ \A q \in Operators : q # p => operator'[q] = operator[q]
  BY SoundParts, BeginSound DEF Begin, Operates, tables
<1>3. ASSUME NEW q \in Operators, NEW e \in Decisions, Worked(q, e), Share(d, e)
      PROVE  d \in contested' /\ e \in contested'
  BY <1>2, <1>3, ClashingShared
<1>4. Moves(p, d)
  BY <1>1, <1>2, <1>3 DEF Moves
<1>5. MergeKnows(p, d)'
  <2>1. \A l \in Links : ~Read(n, l) \/ n.pc # "list"
    BY <1>1 DEF Read
  <2>2. \A l : Read(operator[p], l)' <=> Read(n, l)
    BY DEF Read, ListOrder, LinkTables, CoreTables, ContactTables, OperationTables, HistoryTables
  <2>3. Working(p, d, "merge")' => n.pc \notin {"audit", "move"}
    BY <1>1
  <2> QED
    BY <1>1, <2>1, <2>2, <2>3 DEF MergeKnows
<1>6. RollbackKnows(p, d)'
  BY <1>1 DEF RollbackKnows, Restoring
<1>7. RollingBack(d) => RollingBack(d)'
  <2>1. ASSUME NEW q \in Operators, Working(q, d, "rollback")
        PROVE  Working(q, d, "rollback")'
    BY <1>1, <1>2, <2>1 DEF Working
  <2> QED
    BY <2>1 DEF RollingBack
<1>8. ASSUME NEW l \in Links, Cleared(d, l)'
      PROVE  Cleared(d, l)
  <2>1. Orderly(d)
    BY <1>2, <1>8 DEF Cleared, Orderly
  <2>2. CASE (\E q \in Operators : Working(q, d, "merge") /\ MovedPast(operator[q], l))'
    <3>1. PICK q \in Operators : Working(q, d, "merge")' /\ MovedPast(operator'[q], l)
      BY <2>2
      DEF MovedPast, MoveOrder, CoreTables, ContactTables, OperationTables, HistoryTables
    <3>2. q # p
      BY <1>1, <3>1 DEF MovedPast, Working
    <3>3. Working(q, d, "merge") /\ MovedPast(operator[q], l)
      BY <1>2, <3>1, <3>2 DEF Working
    <3> QED
      BY <2>1, <3>3 DEF Cleared
  <2>3. CASE decision'[d] = [status |-> "merged", action |-> "review_queue"] /\ ~RollingBack(d)'
    BY <1>2, <1>7, <2>1, <2>3 DEF Cleared
  <2> QED
    BY <1>8, <2>2, <2>3 DEF Cleared
<1>9. /\ Overtaken(d) => Overtaken(d)'
      /\ Merged(d) => Merged(d)'
  BY <1>2, <1>7 DEF Overtaken, Merged
<1>10. Closed(d)' => Closed(d)
  <2>1. ASSUME NEW q \in Operators, Working(q, d, "rollback")',
               operator'[q].pc \in {"unredirect", "decide"}
        PROVE  Working(q, d, "rollback") /\ operator[q].pc \in {"unredirect", "decide"}
    <3>1. q # p
      BY <1>1, <2>1 DEF Working
    <3> QED
      BY <1>2, <2>1, <3>1 DEF Working
  <2> QED
    BY <1>2, <2>1 DEF Closed
<1>11. \A l \in n.links : Settled(l, Candidate(d), {})
  BY <1>1
<1>12. n.links \subseteq Links
  BY <1>1
<1> QED
  BY <1>2, <1>4, <1>5, <1>6, <1>8, <1>9, <1>10, <1>11, <1>12, QuietMoves

LEMMA AuditNext ==
  ASSUME SoundInv, NEW p \in Operators, Audit(p)
  PROVE  LET r == operator[p]
             n == operator'[p]
             d == r.decision
         IN
         \E l \in r.links \ r.done :
           /\ l \in Links /\ n.links = r.links
           /\ \A e \in Decisions : \A m \in Links :
                audit'[e][m] = IF e = d /\ m = l THEN Audited(audit[d][l]) ELSE audit[e][m]
           /\ \/ n.pc = "audit" /\ n.done = r.done \cup {l}
              \/ n.pc = "move" /\ n.at = 1 /\ r.links = r.done \cup {l}
<1> DEFINE r == operator[p]
<1>1. /\ operator \in [Operators -> OperatorRequest] /\ r \in OperatorRequest /\ r.pc = "audit"
      /\ audit \in [Decisions -> [Links -> {"none", "open", "rolled_back"}]]
      /\ r.links \subseteq Links /\ r.decision \in Decisions
  BY SoundParts, OperatorHere, LinksOfRequest DEF SoundInv, TypeOK, Audit, At
<1>2. PICK l \in r.links \ r.done :
        /\ audit' = [audit EXCEPT ![r.decision][l] = Audited(@)]
        /\ IF r.links = r.done \cup {l} THEN Go(p, "move")
           ELSE Operating(p, [r EXCEPT !.done = @ \cup {l}])
  BY DEF Audit
<1>3. /\ l \in Links
      /\ \A e \in Decisions : \A m \in Links :
           audit'[e][m] = IF e = r.decision /\ m = l THEN Audited(audit[r.decision][l])
                          ELSE audit[e][m]
  BY <1>1, <1>2, AuditOne
<1>4. CASE r.links = r.done \cup {l}
  <2>1. Go(p, "move")
    BY <1>2, <1>4
  <2>2. operator'[p].links = r.links /\ operator'[p].pc = "move" /\ operator'[p].at = 1
    BY <2>1, GoLinks
  <2> QED
    BY <1>3, <1>4, <2>2
<1>5. CASE ~(r.links = r.done \cup {l})
  <2>1. operator'[p] = [r EXCEPT !.done = @ \cup {l}]
    BY <1>1, <1>2, <1>5 DEF Operating
  <2>2. operator'[p].links = r.links /\ operator'[p].pc = "audit"
        /\ operator'[p].done = r.done \cup {l}
    BY <1>1, <2>1 DEF OperatorRequest
  <2> QED
    BY <1>3, <2>2
<1> QED
  BY <1>4, <1>5

(* A merge at work finds no audit closed: its decision is pending.         *)
LEMMA MergeUnclosed ==
  ASSUME TraceInv, LinkInv, NEW p \in Operators, NEW d \in Decisions \ contested,
         Working(p, d, "merge"), operator[p].pc \in {"list", "audit", "move"}
  PROVE  /\ ~Closed(d) /\ ~Merged(d)
         /\ \A l \in Links : audit[d][l] # "rolled_back"
<1>1. decision[d].status = "pending"
  BY DEF TraceInv, Stands, Working
<1>2. ASSUME NEW q \in Operators
      PROVE  ~Working(q, d, "rollback")
  <2>1. q # p => ~Working(q, d, "rollback")
    BY AloneHere DEF Working, Worked
  <2> QED
    BY <2>1 DEF Working
<1> QED
  BY <1>1, <1>2 DEF Closed, Merged, LinkInv, WorkInv, ClosedSound

LEMMA AuditKeepsLinks ==
  ASSUME SoundInv, TraceInv, LinkInv, NEW p \in Operators, Audit(p)
  PROVE  LinkInv'
<1> PICK r : r = operator[p]
  OBVIOUS
<1> PICK d : d = r.decision
  OBVIOUS
<1> PICK n : n = operator'[p]
  OBVIOUS
<1>1. /\ r.action = "merge" /\ Steps(p, {"audit", "move"}) /\ r.pc = "audit"
      /\ UNCHANGED <<importer, owner, decision, contested, halted, exposed, untimely>>
  BY SoundParts, AuditSound DEF Audit, At, Operates, history
<1>2. /\ d \in Decisions /\ r.links \subseteq Links /\ Worked(p, d) /\ Working(p, d, "merge")
      /\ n.action = "merge" /\ n.decision = d
  BY <1>1, SoundParts, OperatorHere, LinksOfRequest DEF Worked, Working, Steps
<1>3. PICK k \in r.links \ r.done :
        /\ k \in Links /\ n.links = r.links
        /\ \A e \in Decisions : \A m \in Links :
             audit'[e][m] = IF e = d /\ m = k THEN Audited(audit[d][k]) ELSE audit[e][m]
        /\ \/ n.pc = "audit" /\ n.done = r.done \cup {k}
           \/ n.pc = "move" /\ n.at = 1 /\ r.links = r.done \cup {k}
  BY AuditNext
<1>4. /\ \A e \in Decisions : \A m \in Links :
           /\ audit'[e][m] # audit[e][m] => e = d /\ m = k /\ audit'[e][m] = "open"
           /\ audit[e][m] # "none" => audit'[e][m] = audit[e][m]
      /\ audit[d][k] \in {"none", "open"} => audit'[d][k] = "open"
  BY <1>2, <1>3 DEF Audited
<1>5. Moves(p, d)
  BY <1>1, <1>2, <1>4, StepMoves DEF LinkInv, WorkInv, Steps
<1>6. ASSUME NEW l \in Links, NEW s, NEW gone, Settled(l, s, gone)
      PROVE  Settled(l, s, gone)'
  <2>1. \A m \in Links : audit[d][m] = "open" => audit'[d][m] = "open"
    BY <1>2, <1>4
  <2>2. \A m \in Links : audit[d][m] = "none" => audit'[d][m] = "none" \/ audit'[d][m] = "open"
    BY <1>2, <1>4
  <2> QED
    BY <1>2, <1>5, <1>6, <2>1, <2>2, StaysSettled
<1>7. LinksSettled'
  <2> SUFFICES ASSUME NEW l \in Links
               PROVE  /\ \A s \in Sellers : owner'[l] = s => Settled(l, s, {})'
                      /\ \A e \in Decisions : audit'[e][l] = "open" => Settled(l, Candidate(e), {})'
    BY DEF LinksSettled
  <2>1. /\ \A s \in Sellers : owner[l] = s => Settled(l, s, {})
        /\ \A e \in Decisions : audit[e][l] = "open" => Settled(l, Candidate(e), {})
    BY DEF LinkInv, WorkInv, LinksSettled
  <2>2. Settled(k, Candidate(d), {})
    BY <1>2, <1>3 DEF LinkInv, WorkInv, RequestSettled
  <2>3. \A e \in Decisions : audit'[e][l] = "open" => Settled(l, Candidate(e), {})
    BY <1>4, <2>1, <2>2
  <2> QED
    BY <1>1, <1>6, <2>1, <2>3
<1>8. \A l \in n.links : Settled(l, Candidate(d), {})'
  BY <1>2, <1>3, <1>6 DEF LinkInv, WorkInv, RequestSettled
<1>9. MergeKnows(p, d)'
  <2> SUFFICES ASSUME d \notin contested PROVE MergeKnows(p, d)'
    BY <1>1 DEF MergeKnows
  <2>1. /\ \A l \in Links : Read(r, l) /\ owner[l] = Candidate(d) => l \in r.links \cup exposed
        /\ \A l \in r.done : audit[d][l] = "open"
    BY <1>1, <1>2 DEF LinkInv, WorkInv, MergeKnows
  <2>2. audit[d][k] # "rolled_back"
    BY <1>1, <1>2, <1>3, MergeUnclosed
  <2>3. audit[d][k] \in {"none", "open", "rolled_back"}
    BY <1>2, <1>3 DEF SoundInv, TypeOK
  <2>4. audit'[d][k] = "open"
    BY <1>4, <2>2, <2>3
  <2>5. r.done \subseteq Links
    BY LinksOfRequest
  <2>6. \A l \in r.done \cup {k} : audit'[d][l] = "open"
    BY <1>2, <1>3, <1>4, <2>1, <2>4, <2>5
  <2>7. \A l \in Links : owner'[l] = Candidate(d) => l \in n.links \cup exposed'
    BY <1>1, <1>3, <2>1 DEF Read
  <2>8. n.pc # "list"
    BY <1>3
  <2> QED
    BY <1>3, <2>6, <2>7, <2>8 DEF MergeKnows
<1>10. RollbackKnows(p, d)'
  BY <1>2 DEF RollbackKnows, Working
<1>11. \A e \in Decisions : \A l \in Links : Cleared(e, l)' => Cleared(e, l)
  <2>1. \A l \in Links : ~MovedPast(n, l)
    BY <1>3 DEF MovedPast
  <2>2. "idle" \notin {"audit", "move"}
    OBVIOUS
  <2> QED
    BY <1>1, <1>2, <1>5, <2>1, <2>2, GoesCleared
<1>12. ClosedSound(d)'
  <2> SUFFICES ASSUME d \notin contested PROVE ClosedSound(d)'
    BY <1>1 DEF ClosedSound
  <2>1. ~Closed(d) /\ \A l \in Links : audit[d][l] # "rolled_back"
    BY <1>1, <1>2, MergeUnclosed
  <2>2. \A l \in Links : audit'[d][l] # "rolled_back"
    BY <1>2, <1>4, <2>1
  <2>3. ~Closed(d)'
    <3>1. ASSUME NEW q \in Operators, Working(q, d, "rollback")',
                 operator'[q].pc \in {"unredirect", "decide"}
          PROVE  Working(q, d, "rollback") /\ operator[q].pc \in {"unredirect", "decide"}
      BY <1>1, <1>2, <3>1 DEF Working, Steps
    <3> QED
      BY <1>1, <2>1, <3>1 DEF Closed
  <2> QED
    BY <2>2, <2>3 DEF ClosedSound
<1>13. ASSUME NEW e \in Decisions PROVE MergedAway(e)'
  <2>1. \A l \in Links : audit[d][l] = "open" => audit'[d][l] = "open"
    BY <1>2, <1>4
  <2> QED
    BY <1>1, <1>2, <1>5, <1>11, <2>1, StaysAway DEF LinkInv, WorkInv
<1> QED
  BY <1>2, <1>5, <1>7, <1>8, <1>9, <1>10, <1>12, <1>13, MovesKeep

LEMMA MoveNext ==
  ASSUME SoundInv, NEW p \in Operators, Move(p)
  PROVE  LET r == operator[p]
             n == operator'[p]
             d == r.decision
         IN
         /\ r.at \in Nat /\ n.links = r.links
         /\ r.at < Len(MoveOrder) => n.pc = "move" /\ n.at = r.at + 1
         /\ ~(r.at < Len(MoveOrder)) => n.pc = "redirect"
         /\ \A l \in Links :
              owner'[l] = IF Table[l] = MoveOrder[r.at] /\ owner[l] = Candidate(d)
                          THEN Matched(d) ELSE owner[l]
<1> DEFINE r == operator[p]
           k == r.at + 1
<1>1. operator \in [Operators -> OperatorRequest] /\ r \in OperatorRequest /\ r.pc = "move"
  BY DEF SoundInv, TypeOK, Move, At
<1>2. r.at \in Nat
  BY <1>1 DEF OperatorRequest
<1>3. \A l \in Links :
        owner'[l] = IF Table[l] = MoveOrder[r.at] /\ owner[l] = Candidate(r.decision)
                    THEN Matched(r.decision) ELSE owner[l]
  BY TableInOrder DEF Move
<1>4. CASE r.at < Len(MoveOrder)
  <2>1. operator'[p] = [r EXCEPT !.at = k]
    BY <1>1, <1>4 DEF Move, Operating
  <2> HIDE DEF k
  <2>2. operator'[p].links = r.links /\ operator'[p].pc = "move" /\ operator'[p].at = k
    BY <1>1, <2>1 DEF OperatorRequest
  <2> QED
    BY <1>2, <1>3, <1>4, <2>2 DEF k
<1>5. CASE ~(r.at < Len(MoveOrder))
  <2>1. Go(p, "redirect")
    BY <1>5 DEF Move
  <2>2. operator'[p].links = r.links /\ operator'[p].pc = "redirect"
    BY <2>1, GoLinks
  <2> QED
    BY <1>2, <1>3, <1>5, <2>2
<1> QED
  BY <1>4, <1>5

LEMMA MoveKeepsLinks ==
  ASSUME SoundInv, TraceInv, LinkInv, NEW p \in Operators, Move(p)
  PROVE  LinkInv'
<1> PICK r : r = operator[p]
  OBVIOUS
<1> PICK d : d = r.decision
  OBVIOUS
<1> PICK n : n = operator'[p]
  OBVIOUS
<1> PICK t : t = MoveOrder[r.at]
  OBVIOUS
<1>1. /\ r.action = "merge" /\ Steps(p, {"move", "redirect"}) /\ r.pc = "move"
      /\ UNCHANGED <<importer, audit, decision, contested, halted, exposed, untimely>>
  BY SoundParts, MoveSound DEF Move, At, Operates, history
<1>2. /\ d \in Decisions /\ r.links \subseteq Links /\ Worked(p, d) /\ Working(p, d, "merge")
      /\ n.action = "merge" /\ n.decision = d /\ Candidate(d) # Matched(d)
      /\ \A q \in Operators : q # p => operator'[q] = operator[q]
  BY <1>1, SoundParts, OperatorHere, LinksOfRequest
  DEF Worked, Working, Steps, Decisions, Candidate, Matched
<1>3. /\ r.at \in Nat /\ n.links = r.links
      /\ r.at < Len(MoveOrder) => n.pc = "move" /\ n.at = r.at + 1
      /\ ~(r.at < Len(MoveOrder)) => n.pc = "redirect"
      /\ \A l \in Links :
           owner'[l] = IF Table[l] = t /\ owner[l] = Candidate(d) THEN Matched(d) ELSE owner[l]
  BY MoveNext
<1>4. Moves(p, d)
  BY <1>1, <1>2, <1>3, StepMoves DEF LinkInv, WorkInv
<1>5. ASSUME NEW l \in Links, NEW s, NEW gone, Settled(l, s, gone)
      PROVE  Settled(l, s, gone)'
  BY <1>1, <1>2, <1>4, <1>5, StaysSettled
<1>6. \A l \in Links : owner[l] = Candidate(d) =>
        audit[d][l] = "open" \/ d \in contested \/ l \in exposed
  BY <1>1, <1>2 DEF LinkInv, WorkInv, MergeKnows, Read
<1>7. LinksSettled'
  <2> SUFFICES ASSUME NEW l \in Links
               PROVE  /\ \A s \in Sellers : owner'[l] = s => Settled(l, s, {})'
                      /\ \A e \in Decisions : audit'[e][l] = "open" => Settled(l, Candidate(e), {})'
    BY DEF LinksSettled
  <2>1. /\ \A s \in Sellers : owner[l] = s => Settled(l, s, {})
        /\ \A e \in Decisions : audit[e][l] = "open" => Settled(l, Candidate(e), {})
    BY DEF LinkInv, WorkInv, LinksSettled
  <2>2. owner[l] = Candidate(d) => Settled(l, Matched(d), {})
    BY <1>2, <1>6 DEF Settled, Holds
  <2>3. \A s \in Sellers : owner'[l] = s => Settled(l, s, {})
    BY <1>3, <2>1, <2>2
  <2> QED
    BY <1>1, <1>5, <2>1, <2>3
<1>8. \A l \in n.links : Settled(l, Candidate(d), {})'
  BY <1>2, <1>3, <1>5 DEF LinkInv, WorkInv, RequestSettled
<1>9. MergeKnows(p, d)'
  <2> SUFFICES ASSUME d \notin contested PROVE MergeKnows(p, d)'
    BY <1>1 DEF MergeKnows
  <2>1. /\ \A l \in Links : owner[l] = Candidate(d) => l \in r.links \cup exposed
        /\ \A l \in r.links : audit[d][l] = "open"
    BY <1>1, <1>2 DEF LinkInv, WorkInv, MergeKnows, Read
  <2>2. \A l \in Links : owner'[l] = Candidate(d) => l \in n.links \cup exposed'
    BY <1>1, <1>2, <1>3, <2>1
  <2>3. \A l \in n.links : audit'[d][l] = "open"
    BY <1>1, <1>3, <2>1
  <2>4. n.pc \in {"move", "redirect"}
    BY <1>3
  <2> QED
    BY <2>2, <2>3, <2>4 DEF MergeKnows
<1>10. RollbackKnows(p, d)'
  BY <1>2 DEF RollbackKnows, Working
<1>11. \A q \in Operators : \A action : Working(q, d, action)' <=> Working(q, d, action)
  BY <1>1, <1>2, <1>3 DEF Working
<1>12. ClosedSound(d)'
  <2> SUFFICES ASSUME d \notin contested PROVE ClosedSound(d)'
    BY <1>1 DEF ClosedSound
  <2>1. ~Closed(d) /\ \A l \in Links : audit[d][l] # "rolled_back"
    BY <1>1, <1>2, MergeUnclosed
  <2>2. ~Closed(d)'
    <3>1. ASSUME NEW q \in Operators, Working(q, d, "rollback")',
                 operator'[q].pc \in {"unredirect", "decide"}
          PROVE  Working(q, d, "rollback") /\ operator[q].pc \in {"unredirect", "decide"}
      BY <1>2, <1>11, <3>1 DEF Working
    <3> QED
      BY <1>1, <2>1, <3>1 DEF Closed
  <2> QED
    BY <1>1, <2>1, <2>2 DEF ClosedSound
<1>13. ASSUME NEW l \in Links, Table[l] # t, Cleared(d, l)'
       PROVE  Cleared(d, l)
  <2>1. Orderly(d)
    BY <1>1, <1>13 DEF Cleared, Orderly
  <2>2. CASE (\E q \in Operators : Working(q, d, "merge") /\ MovedPast(operator[q], l))'
    <3>1. PICK q \in Operators : Working(q, d, "merge")' /\ MovedPast(operator'[q], l)
      BY <2>2
      DEF MovedPast, MoveOrder, CoreTables, ContactTables, OperationTables, HistoryTables
    <3>2. Working(q, d, "merge")
      BY <1>11, <3>1
    <3>3. CASE q # p
      BY <1>2, <2>1, <3>1, <3>2, <3>3 DEF Cleared
    <3>4. CASE q = p
      <4>1. PICK k \in 1..Len(MoveOrder) : Table[l] = MoveOrder[k] /\ k <= r.at
        <5>1. CASE r.at < Len(MoveOrder)
          <6>1. PICK k \in 1..(n.at - 1) : Table[l] = MoveOrder[k]
            BY <1>3, <3>1, <3>4, <5>1 DEF MovedPast
          <6>2. n.at - 1 = r.at
            BY <1>3, <5>1
          <6>3. Len(MoveOrder) \in Nat /\ r.at \in Nat /\ k \in 1..r.at
            BY <1>3, <6>2, TableInOrder
          <6>4. k \in 1..Len(MoveOrder) /\ k <= r.at
            BY <5>1, <6>3
          <6> QED
            BY <6>1, <6>4
        <5>2. CASE ~(r.at < Len(MoveOrder))
          <6>1. PICK k \in 1..Len(MoveOrder) : Table[l] = MoveOrder[k]
            BY TableInOrder
          <6>2. k <= r.at
            BY <1>3, <5>2, TableInOrder
          <6> QED
            BY <6>1, <6>2
        <5> QED
          BY <5>1, <5>2
      <4>2. k # r.at
        BY <1>13, <4>1
      <4>3. k \in 1..(r.at - 1)
        BY <1>3, <4>1, <4>2
      <4>4. MovedPast(r, l)
        BY <1>1, <4>1, <4>3 DEF MovedPast
      <4> QED
        BY <2>1, <3>2, <3>4, <4>4 DEF Cleared
    <3> QED
      BY <3>3, <3>4
  <2>3. CASE decision'[d] = [status |-> "merged", action |-> "review_queue"] /\ ~RollingBack(d)'
    <3>1. ~RollingBack(d)
      BY <1>11, <2>3 DEF RollingBack
    <3> QED
      BY <1>1, <2>1, <2>3, <3>1 DEF Cleared
  <2> QED
    BY <1>13, <2>2, <2>3 DEF Cleared
<1>14. ASSUME NEW e \in Decisions PROVE MergedAway(e)'
  <2> SUFFICES ASSUME NEW l \in Links, Cleared(e, l)', owner'[l] = Candidate(e)
               PROVE  l \in exposed \/ Returned(e, l)
    BY <1>1 DEF MergedAway, Returned
  <2>1. Cleared(e, l) /\ owner[l] = Candidate(e) => l \in exposed \/ Returned(e, l)
    BY DEF LinkInv, WorkInv, MergedAway
  <2>2. CASE e = d
    <3>1. Table[l] # t /\ owner[l] = Candidate(d)
      BY <1>2, <1>3, <2>2
    <3> QED
      BY <1>13, <2>1, <2>2, <3>1
  <2>3. CASE e # d
    <3>1. Cleared(e, l)
      BY <1>2, <1>4, <2>3, MovesCleared
    <3>2. CASE owner[l] = Candidate(e)
      BY <2>1, <3>1, <3>2
    <3>3. CASE owner[l] # Candidate(e)
      <4>1. owner[l] = Candidate(d) /\ Matched(d) = Candidate(e)
        BY <1>3, <3>3
      <4>2. audit[d][l] = "open" \/ d \in contested \/ l \in exposed
        BY <1>6, <4>1
      <4> QED
        BY <1>2, <2>3, <4>1, <4>2 DEF Returned
    <3> QED
      BY <3>2, <3>3
  <2> QED
    BY <2>2, <2>3
<1> QED
  BY <1>2, <1>4, <1>7, <1>8, <1>9, <1>10, <1>12, <1>14, MovesKeep

LEMMA RestoreNext ==
  ASSUME SoundInv, NEW p \in Operators, Restore(p)
  PROVE  LET r == operator[p]
             n == operator'[p]
             d == r.decision
             core == r.pc = "restore"
             left == {l \in r.links \ r.done : InCore(l) = core}
         IN
         /\ r.pc \in {"restore", "restore_rest"} /\ r.links \subseteq Links
         /\ exposed' = exposed
         /\ \E k \in left :
              /\ n.links = r.links /\ n.done = r.done \cup {k}
              /\ n.pc = IF left # {k} THEN r.pc ELSE IF core THEN "reopen" ELSE "activate"
              /\ untimely' = untimely \cup IF MovedOn(d, k) THEN {<<k, Matched(d)>>} ELSE {}
              /\ \A l \in Links :
                   owner'[l] = IF l = k /\ owner[l] = Matched(d) THEN Candidate(d) ELSE owner[l]
<1> DEFINE r == operator[p]
           core == r.pc = "restore"
           left == {l \in r.links \ r.done : InCore(l) = core}
           next == IF core THEN "reopen" ELSE "activate"
<1>1. /\ operator \in [Operators -> OperatorRequest] /\ r \in OperatorRequest
      /\ owner \in [Links -> Sellers \cup {NoSeller}] /\ r.links \subseteq Links
      /\ r.pc \in {"restore", "restore_rest"}
  BY LinksOfRequest DEF SoundInv, TypeOK, Restore, At
<1>2. PICK k \in left :
        /\ owner' = [owner EXCEPT ![k] = IF @ = Matched(r.decision) THEN Candidate(r.decision)
                                         ELSE @]
        /\ exposed' = exposed
        /\ untimely' = untimely \cup IF MovedOn(r.decision, k) THEN {<<k, Matched(r.decision)>>}
                                     ELSE {}
        /\ IF left # {k} THEN Operating(p, [r EXCEPT !.done = @ \cup {k}])
           ELSE Operating(p, [r EXCEPT !.done = @ \cup {k}, !.pc = next])
  BY DEF Restore, At
<1> HIDE DEF left, core, next
<1>3. \A l \in Links :
        owner'[l] = IF l = k /\ owner[l] = Matched(r.decision) THEN Candidate(r.decision)
                    ELSE owner[l]
  BY <1>1, <1>2
<1>4. /\ operator'[p].links = r.links /\ operator'[p].done = r.done \cup {k}
      /\ operator'[p].pc = IF left # {k} THEN r.pc ELSE next
  <2>1. CASE left # {k}
    <3>1. operator'[p] = [r EXCEPT !.done = @ \cup {k}]
      BY <1>1, <1>2, <2>1 DEF Operating
    <3> QED
      BY <1>1, <2>1, <3>1 DEF OperatorRequest
  <2>2. CASE left = {k}
    <3>1. operator'[p] = [r EXCEPT !.done = @ \cup {k}, !.pc = next]
      BY <1>1, <1>2, <2>2 DEF Operating
    <3> QED
      BY <1>1, <2>2, <3>1 DEF OperatorRequest
  <2> QED
    BY <2>1, <2>2
<1> QED
  BY <1>1, <1>2, <1>3, <1>4 DEF left, core, next

LEMMA RestoreKeepsLinks ==
  ASSUME SoundInv, TraceInv, LinkInv, NEW p \in Operators, Restore(p)
  PROVE  LinkInv'
<1> PICK r : r = operator[p]
  OBVIOUS
<1> PICK d : d = r.decision
  OBVIOUS
<1> PICK n : n = operator'[p]
  OBVIOUS
<1>1. /\ r.action = "rollback" /\ Steps(p, {"restore", "restore_rest", "reopen", "activate"})
      /\ UNCHANGED <<importer, audit, decision, contested, halted>>
      /\ r.pc \in {"restore", "restore_rest"}
  BY SoundParts, RestoreSound, RestoreNext DEF Restore, Operates
<1>2. /\ d \in Decisions /\ r.links \subseteq Links /\ Worked(p, d) /\ Working(p, d, "rollback")
      /\ n.action = "rollback" /\ n.decision = d /\ Candidate(d) # Matched(d)
      /\ Candidate(d) \in Sellers
      /\ \A q \in Operators : q # p => operator'[q] = operator[q]
  BY <1>1, SoundParts, OperatorHere, LinksOfRequest
  DEF Worked, Working, Steps, Decisions, Candidate, Matched
<1> DEFINE core == r.pc = "restore"
           left == {l \in r.links \ r.done : InCore(l) = core}
<1>3. PICK k \in left :
        /\ n.links = r.links /\ n.done = r.done \cup {k}
        /\ n.pc = IF left # {k} THEN r.pc ELSE IF core THEN "reopen" ELSE "activate"
        /\ exposed' = exposed
        /\ untimely' = untimely \cup IF MovedOn(d, k) THEN {<<k, Matched(d)>>} ELSE {}
        /\ \A l \in Links :
             owner'[l] = IF l = k /\ owner[l] = Matched(d) THEN Candidate(d) ELSE owner[l]
  BY RestoreNext
<1>4. k \in r.links /\ k \in Links
  BY <1>2
<1>5. Moves(p, d)
  BY <1>1, <1>2, <1>3, StepMoves DEF LinkInv, WorkInv
<1>6. ASSUME NEW l \in Links, NEW s, NEW gone, Settled(l, s, gone)
      PROVE  Settled(l, s, gone)'
  BY <1>1, <1>2, <1>5, <1>6, StaysSettled
<1>7. /\ RollingBack(d)' <=> RollingBack(d)
      /\ \A e \in Decisions : \A l \in Links : Cleared(e, l)' => Cleared(e, l)
  <2>1. "idle" \notin {"restore", "restore_rest", "reopen", "activate"}
        /\ operator[p].action # "merge"
    BY <1>1
  <2> QED
    BY <1>1, <1>2, <1>5, <2>1, GoesCleared
<1>8. \A l \in r.links : Settled(l, Candidate(d), {})
  BY <1>2 DEF LinkInv, WorkInv, RequestSettled
<1>9. LinksSettled'
  <2> SUFFICES ASSUME NEW l \in Links
               PROVE  /\ \A s \in Sellers : owner'[l] = s => Settled(l, s, {})'
                      /\ \A e \in Decisions : audit'[e][l] = "open" => Settled(l, Candidate(e), {})'
    BY DEF LinksSettled
  <2>1. /\ \A s \in Sellers : owner[l] = s => Settled(l, s, {})
        /\ \A e \in Decisions : audit[e][l] = "open" => Settled(l, Candidate(e), {})
    BY DEF LinkInv, WorkInv, LinksSettled
  <2>2. \A s \in Sellers : owner'[l] = s => Settled(l, s, {})
    BY <1>3, <1>4, <1>8, <2>1
  <2> QED
    BY <1>1, <1>6, <2>1, <2>2
<1>10. \A l \in n.links : Settled(l, Candidate(d), {})'
  BY <1>2, <1>3, <1>6, <1>8
<1>11. MergeKnows(p, d)'
  BY <1>2 DEF MergeKnows, Working
<1>12. RollbackKnows(p, d)'
  <2>1. /\ \A l \in r.links : audit[d][l] # "none"
        /\ r.pc = "restore_rest" => \A l \in r.links : InCore(l) => l \in r.done
        /\ d \notin contested =>
             \A l \in Links :
               audit[d][l] = "open" /\ (l \in r.links => l \in r.done) => Freed(d, l)
    BY <1>1, <1>2 DEF LinkInv, WorkInv, RollbackKnows, Restoring
  <2>2. n.pc \in {"reopen", "restore_rest"} => \A l \in n.links : InCore(l) => l \in n.done
    <3>1. CASE n.pc = "restore_rest"
      BY <1>1, <1>3, <2>1, <3>1
    <3>2. CASE n.pc = "reopen"
      <4>1. r.pc = "restore" /\ left = {k}
        BY <1>1, <1>3, <3>2
      <4>2. \A l \in r.links : InCore(l) => l \in r.done \/ l = k
        BY <4>1
      <4> QED
        BY <1>3, <4>2
    <3> QED
      BY <3>1, <3>2
  <2>3. n.pc \in {"activate", "close"} => n.links \subseteq n.done
    <3> SUFFICES ASSUME n.pc = "activate" PROVE n.links \subseteq n.done
      BY <1>1, <1>3
    <3>1. r.pc = "restore_rest" /\ left = {k}
      BY <1>1, <1>3
    <3>2. \A l \in r.links : l \notin r.done => ~InCore(l)
      BY <2>1, <3>1
    <3>3. \A l \in r.links : l \notin r.done => l \in left
      BY <3>1, <3>2 DEF InCore
    <3> QED
      BY <1>3, <3>1, <3>3
  <2>4. ASSUME d \notin contested, NEW l \in Links, audit[d][l] = "open",
               l \in n.links => l \in n.done
        PROVE  Freed(d, l)'
    <3>1. CASE l = k
      <4>1. owner'[l] # Matched(d)
        BY <1>2, <1>3, <3>1
      <4>2. MovedOn(d, l)' => <<l, Matched(d)>> \in untimely'
        <5>1. MovedOn(d, l)' <=> MovedOn(d, l)
          BY <1>1 DEF MovedOn
        <5> QED
          BY <1>3, <3>1, <5>1
      <4> QED
        BY <4>1, <4>2 DEF Freed, Settled
    <3>2. CASE l # k
      <4>1. Freed(d, l) /\ owner'[l] = owner[l]
        BY <1>3, <2>1, <2>4, <3>2
      <4> QED
        BY <1>1, <1>2, <1>5, <1>7, <4>1, FreedStays
    <3> QED
      BY <3>1, <3>2
  <2>5. \A l : InCore(l)' <=> InCore(l)
    BY DEF InCore, CoreTables, Members
  <2>6. n.pc # "recall" /\ \A l \in n.links : audit'[d][l] # "none"
    BY <1>1, <1>3, <2>1
  <2> QED
    BY <1>1, <2>2, <2>3, <2>4, <2>5, <2>6 DEF RollbackKnows
<1>13. ClosedSound(d)'
  <2>1. Closed(d)' => Closed(d)
    <3>1. ASSUME NEW q \in Operators, Working(q, d, "rollback")',
                 operator'[q].pc \in {"unredirect", "decide"}
          PROVE  Working(q, d, "rollback") /\ operator[q].pc \in {"unredirect", "decide"}
      BY <1>1, <1>2, <1>3, <3>1 DEF Working
    <3> QED
      BY <1>1, <3>1 DEF Closed
  <2>2. (Overtaken(d) => Overtaken(d)') /\ (Merged(d) => Merged(d)')
    BY <1>1, <1>7 DEF Overtaken, Merged
  <2>3. exposed \subseteq exposed' /\ untimely \subseteq untimely'
    BY <1>3
  <2> QED
    BY <1>1, <1>2, <2>1, <2>2, <2>3 DEF ClosedSound, LinkInv, WorkInv
<1>14. ASSUME NEW e \in Decisions PROVE MergedAway(e)'
  <2> SUFFICES ASSUME NEW l \in Links, Cleared(e, l), owner'[l] = Candidate(e)
               PROVE  l \in exposed \/ Returned(e, l)
    BY <1>1, <1>3, <1>7 DEF MergedAway, Returned
  <2>1. CASE owner[l] = Candidate(e)
    BY <2>1 DEF LinkInv, WorkInv, MergedAway
  <2>2. CASE owner[l] # Candidate(e)
    <3>1. l = k /\ Candidate(e) = Candidate(d)
      BY <1>3, <2>2
    <3>2. audit[d][l] # "none"
      BY <1>1, <1>2, <1>4, <3>1 DEF LinkInv, WorkInv, RollbackKnows, Restoring
    <3>3. e # d
      <4> SUFFICES ASSUME Cleared(d, l) PROVE FALSE
        OBVIOUS
      <4>1. RollingBack(d) /\ d \notin contested
        BY <1>2 DEF RollingBack, Cleared, Orderly
      <4>2. PICK q \in Operators : Working(q, d, "merge")
        BY <4>1 DEF Cleared
      <4>3. q # p
        BY <1>1, <4>2 DEF Working
      <4> QED
        BY <1>2, <4>1, <4>2, <4>3, AloneHere
    <3> QED
      BY <1>2, <3>1, <3>2, <3>3 DEF Returned
  <2> QED
    BY <2>1, <2>2
<1> QED
  BY <1>2, <1>5, <1>9, <1>10, <1>11, <1>12, <1>13, <1>14, MovesKeep

(* A rollback closes its audits: what rests on them has been moved before. *)
LEMMA CloseAuditsKeepsLinks ==
  ASSUME SoundInv, TraceInv, LinkInv, NEW p \in Operators, CloseAudits(p)
  PROVE  LinkInv'
<1> PICK r : r = operator[p]
  OBVIOUS
<1> PICK d : d = r.decision
  OBVIOUS
<1> PICK n : n = operator'[p]
  OBVIOUS
<1>1. /\ r.action = "rollback" /\ Steps(p, {"unredirect"}) /\ r.pc = "close"
      /\ Go(p, "unredirect")
      /\ UNCHANGED <<importer, owner, decision, contested, halted, exposed, untimely>>
  BY SoundParts, GoesSound DEF CloseAudits, Operates, history
<1>2. /\ d \in Decisions /\ r.links \subseteq Links /\ Worked(p, d) /\ Working(p, d, "rollback")
      /\ n.action = "rollback" /\ n.decision = d /\ Candidate(d) # Matched(d)
      /\ Matched(d) \in Sellers /\ n.pc = "unredirect" /\ n.links = r.links
      /\ \A q \in Operators : q # p => operator'[q] = operator[q]
  BY <1>1, SoundParts, OperatorHere, LinksOfRequest, GoLinks
  DEF Worked, Working, Steps, Decisions, Candidate, Matched
<1>3. /\ \A e \in Decisions \ {d} : audit'[e] = audit[e]
      /\ \A l \in Links : audit'[d][l] = IF audit[d][l] = "open" THEN "rolled_back"
                                         ELSE audit[d][l]
  BY <1>2 DEF CloseAudits, SoundInv, TypeOK
<1>4. \A e \in Decisions, l \in Links :
        /\ audit'[e][l] # audit[e][l] => e = d /\ audit[e][l] = "open"
        /\ audit[e][l] # "none" => audit'[e][l] # "none"
        /\ audit'[e][l] = "open" => e # d /\ audit[e][l] = "open"
  BY <1>3
<1>5. Moves(p, d)
  BY <1>1, <1>2, <1>4, StepMoves DEF LinkInv, WorkInv
<1>6. /\ RollingBack(d)' /\ RollingBack(d)
      /\ \A e \in Decisions : \A l \in Links : Cleared(e, l)' => Cleared(e, l)
  <2>1. "idle" \notin {"unredirect"} /\ operator[p].action # "merge"
    BY <1>1
  <2>2. RollingBack(d)
    BY <1>2 DEF RollingBack
  <2> QED
    BY <1>1, <1>2, <1>5, <2>1, <2>2, GoesCleared
<1>7. d \notin contested => \A l \in Links : audit[d][l] = "open" => Freed(d, l)
  BY <1>1, <1>2 DEF LinkInv, WorkInv, RollbackKnows, Restoring
<1>8. ASSUME NEW l \in Links, NEW s, NEW gone, Settled(l, s, gone),
             s = Matched(d) /\ d \notin gone => d \in contested \/ audit[d][l] # "open"
      PROVE  Settled(l, s, gone)'
  <2>1. ASSUME NEW e \in Decisions \ gone, Matched(e) = s PROVE Kept(e, l)
    <3>1. CASE e # d \/ d \in contested
      BY <1>1, <1>2, <1>5, <3>1, MovesKept
    <3>2. CASE e = d /\ audit[d][l] # "open"
      BY <1>1, <1>4, <3>2, OperatorKeeps
    <3> QED
      BY <1>8, <2>1, <3>1, <3>2
  <2> QED
    BY <1>1, <1>8, <2>1, SettledStays
<1>9. LinksSettled'
  <2> SUFFICES ASSUME NEW l \in Links, NEW s \in Sellers,
                      owner[l] = s \/ \E e \in Decisions : audit'[e][l] = "open"
                                                           /\ Candidate(e) = s
               PROVE  Settled(l, s, {})'
    <3>1. \A e \in Decisions : Candidate(e) \in Sellers
      BY DecisionsOK
    <3> QED
      BY <1>1, <3>1 DEF LinksSettled
  <2>1. Settled(l, s, {})
    BY <1>4 DEF LinkInv, WorkInv, LinksSettled
  <2>2. CASE s = Matched(d) /\ d \notin contested /\ audit[d][l] = "open"
    <3>1. Freed(d, l)
      BY <1>7, <2>2
    <3>2. owner[l] = Matched(d) \/ MovedOn(d, l)
      BY <1>4, <2>2 DEF MovedOn
    <3>3. Settled(l, s, {d})
      BY <2>2, <3>1, <3>2 DEF Freed
    <3>4. Settled(l, s, {d})'
      BY <1>8, <3>3
    <3> QED
      BY <3>4 DEF Settled
  <2>3. CASE ~(s = Matched(d) /\ d \notin contested /\ audit[d][l] = "open")
    BY <1>8, <2>1, <2>3
  <2> QED
    BY <2>2, <2>3
<1>10. \A l \in n.links : Settled(l, Candidate(d), {})'
  BY <1>2, <1>8 DEF LinkInv, WorkInv, RequestSettled
<1>11. MergeKnows(p, d)' /\ RollbackKnows(p, d)'
  BY <1>2 DEF MergeKnows, RollbackKnows, Restoring
<1>12. ClosedSound(d)'
  <2> SUFFICES ASSUME d \notin contested PROVE ClosedSound(d)'
    BY <1>1 DEF ClosedSound
  <2>1. decision[d].status = "merged"
    BY <1>1, <1>2 DEF TraceInv, Stands
  <2>2. Merged(d)' /\ Overtaken(d)'
    BY <1>1, <1>6, <2>1 DEF Merged, Overtaken
  <2>3. \A l \in Links : audit'[d][l] # "open"
    BY <1>2, <1>4
  <2> QED
    BY <2>2, <2>3 DEF ClosedSound
<1>13. ASSUME NEW e \in Decisions PROVE MergedAway(e)'
  <2> SUFFICES ASSUME NEW l \in Links, Cleared(e, l), owner[l] = Candidate(e)
               PROVE  l \in exposed' \/ Returned(e, l)'
    BY <1>1, <1>6 DEF MergedAway
  <2>1. l \in exposed \/ Returned(e, l)
    BY DEF LinkInv, WorkInv, MergedAway
  <2> SUFFICES ASSUME NEW f \in Decisions \ {e},
                      \/ Matched(f) = Candidate(e) /\ (audit[f][l] = "open" \/ f \in contested)
                      \/ Candidate(f) = Candidate(e) /\ audit[f][l] # "none"
               PROVE  l \in exposed' \/ Returned(e, l)'
    BY <1>1, <2>1 DEF Returned
  <2>2. CASE f = d /\ d \notin contested /\ audit[d][l] = "open" /\ Matched(d) = Candidate(e)
    <3>1. Freed(d, l)
      BY <1>7, <2>2
    <3> QED
      BY <1>1, <2>2, <3>1 DEF Freed
  <2>3. CASE ~(f = d /\ d \notin contested /\ audit[d][l] = "open" /\ Matched(d) = Candidate(e))
    BY <1>1, <1>4, <2>3 DEF Returned
  <2> QED
    BY <2>2, <2>3
<1> QED
  BY <1>2, <1>5, <1>9, <1>10, <1>11, <1>12, <1>13, MovesKeep

-----------------------------------------------------------------------------
(* The invariant.                                                          *)

LEMMA LinkInit == Init => LinkInv
<1> SUFFICES ASSUME Init PROVE LinkInv
  OBVIOUS
<1>1. \A p \in Operators : operator[p].pc = "idle"
  BY DEF Init, Resting
<1>2. \A i \in Importers : importer[i].pc = "idle"
  BY DEF Init, Waiting
<1>3. \A p \in Operators : \A d, action : ~Worked(p, d) /\ ~Working(p, d, action)
  BY <1>1 DEF Worked, Working
<1>4. \A d \in Decisions : decision[d].status = "none" /\ \A l \in Links : audit[d][l] = "none"
  BY DEF Init, Undecided
<1>5. \A l \in Links : owner[l] \notin Sellers
  BY ConstantsAssumption DEF Init
<1>6. LinksSettled
  BY <1>4, <1>5 DEF LinksSettled
<1>7. \A d \in Decisions : MergedAway(d) /\ ClosedSound(d)
  <2>1. \A d \in Decisions : Candidate(d) \in Sellers
    BY DecisionsOK
  <2> QED
    BY <1>4, <1>5, <2>1 DEF MergedAway, ClosedSound
<1>8. Apart /\ RequestSettled
  BY <1>3 DEF Apart, RequestSettled
<1>9. \A p \in Operators, d \in Decisions : MergeKnows(p, d) /\ RollbackKnows(p, d)
  BY <1>3 DEF MergeKnows, RollbackKnows
<1>10. CommitAudits
  BY <1>2 DEF CommitAudits, Passed
<1> QED
  BY <1>6, <1>7, <1>8, <1>9, <1>10 DEF LinkInv, WorkInv

LEMMA LinkStutters ==
  ASSUME LinkInv, UNCHANGED vars
  PROVE  LinkInv'
<1>1. /\ UNCHANGED <<owner, decision, audit, operator, importer>>
      /\ UNCHANGED <<contested, halted, exposed, untimely>>
  BY DEF vars, tables, history
<1>2. \A e, l : Holds(e, l)' <=> Holds(e, l)
  BY <1>1 DEF Holds, Unaudited, Remapped, Statements
<1>3. \A l, s, gone : Settled(l, s, gone)' <=> Settled(l, s, gone)
  BY <1>1, <1>2 DEF Settled
<1>4. /\ \A p \in Operators : \A e, action : Working(p, e, action)' <=> Working(p, e, action)
      /\ \A p \in Operators : \A e : Worked(p, e)' <=> Worked(p, e)
      /\ \A p \in Operators : \A l : Read(operator[p], l)' <=> Read(operator[p], l)
  BY <1>1 DEF Working, Worked, Read, ListOrder, LinkTables, CoreTables,
              ContactTables, OperationTables, HistoryTables
<1>5. \A p \in Operators : \A l : MovedPast(operator[p], l)' <=> MovedPast(operator[p], l)
  BY <1>1 DEF MovedPast, MoveOrder, CoreTables, ContactTables, OperationTables, HistoryTables
<1>6. \A e : RollingBack(e)' <=> RollingBack(e)
  BY <1>4 DEF RollingBack
<1>7. \A e, l : Cleared(e, l)' <=> Cleared(e, l)
  BY <1>1, <1>4, <1>5, <1>6 DEF Cleared, Orderly
<1>8. \A e, l : MovedOn(e, l)' <=> MovedOn(e, l)
  BY <1>1 DEF MovedOn
<1>9. \A e, l : Freed(e, l)' <=> Freed(e, l)
  BY <1>1, <1>3, <1>7, <1>8 DEF Freed
<1>10. LinksSettled' /\ RequestSettled'
  BY <1>1, <1>3, <1>4 DEF LinkInv, WorkInv, LinksSettled, RequestSettled
<1>11. ASSUME NEW p \in Operators, NEW d \in Decisions
       PROVE  MergeKnows(p, d)' /\ RollbackKnows(p, d)'
  <2>1. MergeKnows(p, d) /\ RollbackKnows(p, d)
    BY DEF LinkInv, WorkInv
  <2>2. \A l : InCore(l)' <=> InCore(l)
    BY DEF InCore, CoreTables, Members
  <2>3. MergeKnows(p, d)'
    BY <1>1, <1>4, <2>1 DEF MergeKnows
  <2>4. RollbackKnows(p, d)'
    BY <1>1, <1>4, <1>9, <2>1, <2>2 DEF RollbackKnows, Restoring
  <2> QED
    BY <2>3, <2>4
<1>12. ASSUME NEW d \in Decisions
       PROVE  ClosedSound(d)' /\ MergedAway(d)'
  <2>1. (Overtaken(d)' <=> Overtaken(d)) /\ (Merged(d)' <=> Merged(d))
    BY <1>1, <1>6 DEF Overtaken, Merged
  <2>2. Closed(d)' <=> Closed(d)
    BY <1>1, <1>4 DEF Closed
  <2>3. \A l : Returned(d, l)' <=> Returned(d, l)
    BY <1>1 DEF Returned
  <2> QED
    BY <1>1, <1>7, <2>1, <2>2, <2>3 DEF LinkInv, WorkInv, ClosedSound, MergedAway
<1>13. Apart'
  BY <1>1, <1>4 DEF LinkInv, WorkInv, Apart, Share
<1>14. CommitAudits'
  <2>1. \A i \in Importers : Passed(importer[i], audit)' <=> Passed(importer'[i], audit')
    BY DEF Passed, Statements, Remapped
  <2>2. importer' = importer /\ audit' = audit
    BY <1>1
  <2> QED
    BY <2>1, <2>2 DEF LinkInv, CommitAudits
<1> QED
  BY <1>10, <1>11, <1>12, <1>13, <1>14 DEF LinkInv, WorkInv

LEMMA LinkStep ==
  ASSUME SoundInv, TraceInv, LinkInv, [Next]_vars
  PROVE  LinkInv'
<1>1. CASE UNCHANGED vars
  BY <1>1, LinkStutters
<1>2. ASSUME NEW i \in Importers,
             \/ \E b \in Batches : Find(i, b)
             \/ LookUp(i) \/ WriteSeller(i) \/ WriteLink(i) \/ WriteDecision(i)
             \/ WriteRedirect(i) \/ WriteAudit(i) \/ WriteReview(i) \/ FailImport(i)
      PROVE  LinkInv'
  BY <1>2, ImportKeepsLinks
<1>3. ASSUME NEW p \in Operators, NEW d \in Decisions, NEW action \in Actions,
             Begin(p, d, action)
      PROVE  LinkInv'
  BY <1>3, BeginKeepsLinks
<1>4. ASSUME NEW p \in Operators, List(p) \/ Audit(p) \/ Move(p) PROVE LinkInv'
  BY <1>4, ListKeepsLinks, AuditKeepsLinks, MoveKeepsLinks
<1>5. ASSUME NEW p \in Operators,
             \/ AddRedirect(p) \/ ResolveReview(p) \/ EndRedirect(p)
             \/ Decide(p) \/ Log(p) \/ FailOperator(p)
      PROVE  LinkInv'
  BY <1>5, GoKeepsLinks, DecideKeepsLinks, RestKeepsLinks
<1>6. ASSUME NEW p \in Operators, Recall(p) \/ Restore(p) \/ Activate(p) \/ CloseAudits(p)
      PROVE  LinkInv'
  BY <1>6, RecallKeepsLinks, RestoreKeepsLinks, ActivateKeepsLinks, CloseAuditsKeepsLinks
<1>7. ASSUME NEW source \in Bare, StoreSource(source[1], source[2]) PROVE LinkInv'
  BY <1>7, StoreSourceKeepsLinks
<1> QED
  BY <1>1, <1>2, <1>3, <1>4, <1>5, <1>6, <1>7 DEF Next

(* What answers for a link in the invariant accounts for it.               *)
LEMMA HoldsAccounts ==
  ASSUME SoundInv, NEW d \in Decisions, NEW l \in Links, Holds(d, l)
  PROVE  Accounts(d, l)
<1> SUFFICES ASSUME NEW i \in Importers, Unaudited(importer[i], d, l)
             PROVE  AuditToCome(d, l)
  BY DEF Holds, Accounts
<1> PICK r : r = importer[i]
  OBVIOUS
<1>1. /\ r.pc = "commit" /\ Remapped(r) /\ r.decision = d
      /\ \E k \in r.at..Len(Statements(r)) : Statements(r)[k] = <<"audit", l>>
  BY DEF Unaudited
<1>2. r.batch \in Batches /\ r.at \in 1..Len(Statements(r))
  BY <1>1 DEF SoundInv, TypeOK, Import, ImportSound
<1>3. /\ Statements(r) \in Seq(AnyStatement)
      /\ \A x \in Members(Statements(r)) :
           x[1] \in {"link", "audit"} => x[2] \in Members(AllLinks(r.batch))
  BY <1>2, CommitOfBatch
<1>4. PICK k \in r.at..Len(Statements(r)) : Statements(r)[k] = <<"audit", l>>
  BY <1>1
<1>5. k \in 1..Len(Statements(r)) /\ Members(Statements(r)) = {Statements(r)[m] : m \in 1..Len(Statements(r))}
  BY <1>2, <1>3, MembersIn
<1>6. <<"audit", l>> \in Members(Statements(r))
  BY <1>4, <1>5
<1>7. l \in Members(AllLinks(r.batch))
  BY <1>3, <1>6
<1> QED
  BY <1>1, <1>7 DEF AuditToCome

-----------------------------------------------------------------------------
(* The theorems.                                                           *)

(* LinkInv holds at all times: each link is where it is at home or where a *)
(* decision has put it, what a merge and a rollback remember of the links  *)
(* is so, and audits are closed only when nothing rests on them any more,  *)
(* but for links in exposed and pairs in untimely.                         *)
THEOREM LinkInvHolds == Spec => []LinkInv
<1>1. Init => LinkInv
  BY LinkInit
<1>2. MergeInv /\ LinkInv /\ [Next]_vars => LinkInv'
  BY LinkStep DEF MergeInv
<1> QED
  BY <1>1, <1>2, MergeInvHolds, PTL DEF Spec

(* A link that is not with a seller the crawler has found it for is in an  *)
(* open audit of a decision matched to the seller it is with, or in one    *)
(* that the commit at work will still write: a merge audits what it has    *)
(* listed before it moves anything, and a rollback closes its audits last. *)
(* A link may have several sellers, or be brought by batches that do not   *)
(* look.  The exceptions are links written in a window, contested          *)
(* decisions, and links of merges rolled back in the wrong order.          *)
THEOREM MovedLinksAudited == Spec => []MovesAudited
<1>1. MergeInv /\ LinkInv => MovesAudited
  <2> SUFFICES ASSUME SoundInv, LinkInv, NEW l \in Links, owner[l] # NoSeller,
                      owner[l] \notin Home(l), l \notin exposed,
                      <<l, owner[l]>> \notin untimely
               PROVE  \E d \in Decisions : Matched(d) = owner[l] /\ Accounts(d, l)
    BY DEF MergeInv, MovesAudited
  <2>1. owner[l] \in Sellers
    BY DEF SoundInv, TypeOK
  <2>2. Settled(l, owner[l], {})
    BY <2>1 DEF LinkInv, WorkInv, LinksSettled
  <2>3. PICK e \in Decisions : Matched(e) = owner[l] /\ Holds(e, l)
    BY <2>2 DEF Settled
  <2> QED
    BY <2>3, HoldsAccounts
<1> QED
  BY <1>1, MergeInvHolds, LinkInvHolds, PTL

(* When a rollback is over, no link its merge had recorded is left with    *)
(* the other seller, unless it is at home there, another decision accounts *)
(* for it, or it was written in a window: restoreSellerLinks goes through  *)
(* all that is recorded, and what comes to the other seller afterwards     *)
(* comes in the name of another decision.  Not so when the merge was       *)
(* rolled back before another that had moved the link on (untimely): the   *)
(* later rollback may then leave it with the other seller.                 *)
THEOREM RollbacksRestore == Spec => []RollbackRestores
<1>1. MergeInv /\ LinkInv => RollbackRestores
  <2> SUFFICES ASSUME SoundInv, LinkInv, NEW d \in Decisions \ contested,
                      decision[d].status = "rolled_back", NEW l \in Links,
                      audit[d][l] # "none", owner[l] = Matched(d), l \notin exposed,
                      <<l, Matched(d)>> \notin untimely, Matched(d) \notin Home(l)
               PROVE  \E e \in Decisions \ {d} : Matched(e) = Matched(d) /\ Accounts(e, l)
    BY DEF MergeInv, RollbackRestores
  <2>1. Matched(d) \in Sellers
    BY DecisionsOK
  <2>2. Settled(l, Matched(d), {})
    BY <2>1 DEF LinkInv, WorkInv, LinksSettled
  <2>3. PICK e \in Decisions : Matched(e) = Matched(d) /\ Holds(e, l)
    BY <2>2 DEF Settled
  <2>4. audit[d][l] # "open"
    BY DEF LinkInv, WorkInv, ClosedSound, Closed
  <2>5. e # d
    BY <2>3, <2>4 DEF Holds
  <2> QED
    BY <2>3, <2>5, HoldsAccounts
<1> QED
  BY <1>1, MergeInvHolds, LinkInvHolds, PTL

(* When the operator has merged a seller, and no rollback of it is on its  *)
(* way, no link is with it but those of the exceptions: reassignSellerLinks *)
(* goes through every table after listSellerLinks has, and what ingestion  *)
(* writes meanwhile, or afterwards, has found the merge or is in a window, *)
(* as everything is that a batch without a seller brings to it.            *)
THEOREM MergesComplete == Spec => []MergeComplete
<1>1. LinkInv => MergeComplete
  <2> SUFFICES ASSUME LinkInv, NEW d \in Decisions \ (contested \cup halted),
                      decision[d] = [status |-> "merged", action |-> "review_queue"],
                      ~RollingBack(d), NEW l \in Links, owner[l] = Candidate(d)
               PROVE  l \in exposed \/ Returned(d, l)
    BY DEF MergeComplete, Returned
  <2>1. Cleared(d, l)
    BY DEF Cleared, Orderly
  <2> QED
    BY <2>1 DEF LinkInv, WorkInv, MergedAway
<1> QED
  BY <1>1, LinkInvHolds, PTL
=============================================================================
