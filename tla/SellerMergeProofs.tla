------------------------- MODULE SellerMergeProofs -------------------------
(***************************************************************************)
(* What holds of duplicate sellers, for any sellers, links and batches,    *)
(* any number of operators and of batches at once, and any number of       *)
(* requests that fail half way.                                            *)
(*                                                                         *)
(* The inductive invariant MergeInv has three parts.  SoundInv says what   *)
(* a request may remember.  TraceInv says how far the decision a request   *)
(* works on has come, so that what is written in the name of a decision    *)
(* belongs to one that was merged.  HideInv gives each seller that is      *)
(* hidden the decision it is hidden for.                                   *)
(***************************************************************************)
EXTENDS SellerMerge, SequenceTheorems, TLAPS

(* The decision of a batch is about its seller.                            *)
Aimed(r) == r.decision \in Decisions /\ Candidate(r.decision) = Seller[r.batch]

(* What a request of ingestion has found out.                              *)
ImportSound(r) ==
  /\ r.pc = "look" =>
       Aimed(r) /\ r.kind # "none" /\ r.seen = "none" /\ ~Remapped(r) /\ r.at = 1
  /\ r.pc = "commit" =>
       /\ r.at \in 1..Len(Statements(r))
       /\ r.kind # "none" \/ r.seen # "none" \/ Remapped(r) => Aimed(r)
       /\ r.kind # "none" => r.seen = "none"
       /\ Remapped(r) <=> r.kind = "auto_merge" \/ r.seen = "merged"
       /\ Remapped(r) => r.owner = Matched(r.decision)

(* The points an action comes through.                                     *)
Points(action) ==
  CASE action = "merge"    -> {"list", "audit", "move", "redirect", "decide", "review", "log"}
    [] action = "rollback" -> {"recall", "restore", "reopen", "restore_rest", "activate",
                               "close", "unredirect", "decide", "review", "log"}
    [] OTHER               -> {"decide", "review", "log"}

OperatorSound(r) ==
  r.pc # "idle" => r.decision \in Decisions /\ r.action \in Actions /\ r.pc \in Points(r.action)

SoundInv ==
  /\ TypeOK
  /\ \A i \in Importers : ImportSound(importer[i])
  /\ \A p \in Operators : OperatorSound(operator[p])

(* A decision that no two requests worked on at once, and none failed over. *)
Orderly(d) == d \notin contested \cup halted

Worked(p, d) == operator[p].pc # "idle" /\ operator[p].decision = d

Alone ==
  \A d \in Decisions \ contested : \A p, q \in Operators :
    Worked(p, d) /\ Worked(q, d) => p = q

(* What the operator's request has read of its decision is still so.       *)
Stands(r) ==
  r.pc # "idle" =>
    /\ decision[r.decision].status # "none"
    /\ r.decision \notin contested =>
         decision[r.decision].status =
           IF r.pc \in {"review", "log"} THEN Expected(r.action)
           ELSE IF r.action = "rollback" THEN "merged" ELSE "pending"

Merged(d) == decision[d].status \in {"merged", "rolled_back"}

(* In the commit of r, the place of the statement for the decision.        *)
DecisionAt(r) == Len(Brings[r.batch].core) + 2

(* A commit writes nothing in the name of a merge that it has not found,   *)
(* or written down itself.                                                 *)
Decided(r) ==
  r.pc = "commit" /\ (r.seen = "merged" \/ (r.kind = "auto_merge" /\ r.at > DecisionAt(r))) =>
    r.decision \in contested \/ Merged(r.decision)

Touched(d) ==
  redirect[Candidate(d)].by = d \/ \E l \in Links : audit[d][l] # "none"

Merging(d) ==
  \E p \in Operators :
    Working(p, d, "merge") /\ operator[p].pc \in {"audit", "move", "redirect", "decide"}

Traced(d) == Orderly(d) /\ Touched(d) => Merged(d) \/ Merging(d)

TraceInv ==
  /\ Alone
  /\ \A d \in Decisions : decision[d].status = "none" => decision[d] = Undecided
  /\ \A p \in Operators : Stands(operator[p])
  /\ \A i \in Importers : Decided(importer[i])
  /\ \A d \in Decisions : Traced(d)

(* A rollback that has made the seller active for the last time.           *)
Restored(d) ==
  \E p \in Operators :
    Working(p, d, "rollback") /\ operator[p].pc \in {"close", "unredirect", "decide"}

(* A commit that has hidden the seller, and has not decided yet.           *)
Early(r) == r.pc = "commit" /\ r.kind = "auto_merge" /\ r.at \in 2..DecisionAt(r)

Deciding(d) == \E i \in Importers : Early(importer[i]) /\ importer[i].decision = d

Hides(d) ==
  \/ ~Orderly(d)
  \/ \E p \in Operators : Working(p, d, "merge")
  \/ ~Restored(d) /\ (decision[d].status = "merged" \/ Deciding(d))

HideInv ==
  \A s \in Sellers : status[s] = "merged" =>
    s \in veiled \/ \E d \in Decisions : Candidate(d) = s /\ Hides(d)

MergeInv == SoundInv /\ TraceInv /\ HideInv

-----------------------------------------------------------------------------
(* The statements of a commit.                                             *)

Deeds == {"seller", "link", "decision", "redirect", "audit", "review"}

AnyStatement == Deeds \X (Links \cup {NoLink})

(* Sequence s goes on from p with statements in T.                         *)
Continues(p, s, T) ==
  /\ s \in Seq(AnyStatement)
  /\ Len(s) >= Len(p)
  /\ \A k \in 1..Len(p) : s[k] = p[k]
  /\ \A k \in (Len(p) + 1)..Len(s) : s[k] \in T

LEMMA GoesOn ==
  ASSUME NEW p \in Seq(AnyStatement), NEW T \in SUBSET AnyStatement,
         NEW s, Continues(p, s, T), NEW t \in Seq(T)
  PROVE  Continues(p, s \o t, T)
<1>1. t \in Seq(AnyStatement)
  OBVIOUS
<1>2. /\ s \in Seq(AnyStatement) /\ s \o t \in Seq(AnyStatement)
      /\ Len(s \o t) = Len(s) + Len(t)
      /\ \A k \in 1..(Len(s) + Len(t)) :
           (s \o t)[k] = IF k <= Len(s) THEN s[k] ELSE t[k - Len(s)]
  BY <1>1, ConcatProperties DEF Continues
<1>3. Len(p) \in Nat /\ Len(s) \in Nat /\ Len(t) \in Nat
  BY <1>1, <1>2
<1>4. ASSUME NEW k \in (Len(p) + 1)..Len(s \o t)
      PROVE  (s \o t)[k] \in T
  <2>1. CASE k <= Len(s)
    BY <1>2, <1>3, <2>1 DEF Continues
  <2>2. CASE k > Len(s)
    <3>1. k - Len(s) \in 1..Len(t)
      BY <1>2, <1>3, <2>2
    <3>2. t[k - Len(s)] \in T
      BY <3>1
    <3> QED
      BY <1>2, <1>3, <2>2, <3>2
  <2> QED
    BY <1>2, <1>3, <2>1, <2>2
<1>5. ASSUME NEW k \in 1..Len(p)
      PROVE  (s \o t)[k] = p[k]
  BY <1>2, <1>3 DEF Continues
<1> QED
  BY <1>2, <1>3, <1>4, <1>5 DEF Continues

LEMMA WiderSeq ==
  ASSUME NEW S, NEW T, S \subseteq T, NEW s \in Seq(S)
  PROVE  s \in Seq(T)
<1>1. Len(s) \in Nat /\ s \in [1..Len(s) -> S]
  OBVIOUS
<1>2. s \in [1..Len(s) -> T]
  BY <1>1
<1> QED
  BY <1>1, <1>2, SeqDef

LEMMA EachOK ==
  ASSUME NEW seq \in Seq(Links), NEW do
  PROVE  /\ Each(do, seq) \in Seq({do} \X Links)
         /\ Len(Each(do, seq)) = Len(seq)
<1>1. Len(seq) \in Nat /\ DOMAIN seq = 1..Len(seq)
  OBVIOUS
<1>2. Each(do, seq) \in [1..Len(seq) -> {do} \X Links]
  BY <1>1 DEF Each
<1> QED
  BY <1>1, <1>2, SeqDef

(* What stands after the statement for the decision.                       *)
Later(r) ==
  {x \in AnyStatement :
    /\ x[1] \notin {"seller", "decision"}
    /\ x[1] \in {"link", "audit"} => x[2] \in Links
    /\ x[1] = "redirect" => r.kind = "auto_merge"
    /\ x[1] = "audit" => Remapped(r)
    /\ x[1] = "review" => r.kind = "review_queue"}

(* The commit up to there.                                                 *)
Front(r) ==
  << <<"seller", NoLink>> >> \o Each("link", Brings[r.batch].core)
    \o (IF r.kind # "none" THEN << <<"decision", NoLink>> >> ELSE <<>>)

LEMMA BringsOK ==
  ASSUME NEW b \in Batches
  PROVE  /\ Brings[b].core \in Seq(Links) /\ Brings[b].contacts \in Seq(Links)
         /\ Brings[b].operations \in Seq(Links) /\ Brings[b].history \in Seq(Links)
         /\ AllLinks(b) \in Seq(Links)
<1>1. Brings[b] \in [Databases -> Seq(Links)]
  BY ConstantsAssumption
<1> QED
  BY <1>1 DEF Databases, AllLinks

LEMMA FrontShape ==
  ASSUME NEW r, r.batch \in Batches
  PROVE  /\ Front(r) \in Seq(AnyStatement)
         /\ Len(Front(r)) = IF r.kind # "none" THEN DecisionAt(r) ELSE DecisionAt(r) - 1
         /\ DecisionAt(r) \in Nat /\ DecisionAt(r) >= 2
         /\ Front(r)[1] = <<"seller", NoLink>>
         /\ \A k \in 2..(DecisionAt(r) - 1) : Front(r)[k] \in {"link"} \X Links
         /\ r.kind # "none" => Front(r)[DecisionAt(r)] = <<"decision", NoLink>>
<1> DEFINE first == << <<"seller", NoLink>> >>
           each  == Each("link", Brings[r.batch].core)
           last  == IF r.kind # "none" THEN << <<"decision", NoLink>> >> ELSE <<>>
<1>1. each \in Seq({"link"} \X Links) /\ Len(each) = Len(Brings[r.batch].core)
  BY BringsOK, EachOK
<1>2. {"link"} \X Links \subseteq AnyStatement /\ Len(each) \in Nat
  BY <1>1 DEF AnyStatement, Deeds
<1>3. /\ first \in Seq(AnyStatement) /\ each \in Seq(AnyStatement)
      /\ last \in Seq(AnyStatement)
  <2>1. <<"seller", NoLink>> \in AnyStatement /\ <<"decision", NoLink>> \in AnyStatement
    BY DEF AnyStatement, Deeds
  <2>2. each \in Seq(AnyStatement)
    BY <1>1, <1>2, WiderSeq
  <2> QED
    BY <2>1, <2>2
<1>4. /\ Len(first) = 1 /\ first[1] = <<"seller", NoLink>>
      /\ Len(last) = IF r.kind # "none" THEN 1 ELSE 0
      /\ r.kind # "none" => last[1] = <<"decision", NoLink>>
  OBVIOUS
<1>5. Front(r) = (first \o each) \o last
  BY DEF Front
<1>6. \A k \in 1..Len(each) : each[k] \in {"link"} \X Links
  BY <1>1
<1>7. DecisionAt(r) = Len(each) + 2
  BY <1>1 DEF DecisionAt
<1> HIDE DEF first, each, last
<1>8. /\ first \o each \in Seq(AnyStatement)
      /\ Len(first \o each) = 1 + Len(each)
      /\ \A k \in 1..(1 + Len(each)) :
           (first \o each)[k] = IF k <= 1 THEN first[k] ELSE each[k - 1]
  <2>1. Len(first) = 1
    BY <1>4
  <2> QED
    BY <1>3, <2>1, ConcatProperties
<1>9. /\ Front(r) \in Seq(AnyStatement)
      /\ Len(Front(r)) = 1 + Len(each) + Len(last)
      /\ \A k \in 1..(1 + Len(each) + Len(last)) :
           Front(r)[k] = IF k <= 1 + Len(each) THEN (first \o each)[k]
                         ELSE last[k - (1 + Len(each))]
  <2> DEFINE both == first \o each
  <2>1. both \in Seq(AnyStatement) /\ Len(both) = 1 + Len(each) /\ Front(r) = both \o last
    BY <1>5, <1>8
  <2> HIDE DEF both
  <2>2. /\ both \o last \in Seq(AnyStatement)
        /\ Len(both \o last) = Len(both) + Len(last)
        /\ \A k \in 1..(Len(both) + Len(last)) :
             (both \o last)[k] = IF k <= Len(both) THEN both[k] ELSE last[k - Len(both)]
    BY <1>3, <2>1, ConcatProperties
  <2> QED
    BY <2>1, <2>2 DEF both
<1>10. Front(r)[1] = <<"seller", NoLink>>
  BY <1>2, <1>4, <1>8, <1>9
<1>11. ASSUME NEW k \in 2..(DecisionAt(r) - 1)
       PROVE  Front(r)[k] \in {"link"} \X Links
  <2>1. k - 1 \in 1..Len(each) /\ Front(r)[k] = each[k - 1]
    BY <1>2, <1>4, <1>7, <1>8, <1>9
  <2> QED
    BY <1>6, <2>1
<1>12. r.kind # "none" => Front(r)[DecisionAt(r)] = <<"decision", NoLink>>
  BY <1>2, <1>4, <1>7, <1>9
<1> QED
  BY <1>2, <1>4, <1>7, <1>9, <1>10, <1>11, <1>12

(* The order of the statements: the seller, its links in the core          *)
(* database, the decision if one is taken, and the rest.                   *)
LEMMA StatementsShape ==
  ASSUME NEW r, r.batch \in Batches
  PROVE  Continues(Front(r), Statements(r), Later(r))
<1> DEFINE links == Brings[r.batch]
           Once(condition, do) == IF condition THEN << <<do, NoLink>> >> ELSE <<>>
           redirects  == Once(r.kind = "auto_merge", "redirect")
           audits     == Each("audit", IF Remapped(r) THEN AllLinks(r.batch) ELSE <<>>)
           contacts   == Each("link", links.contacts)
           operations == Each("link", links.operations)
           reviews    == Once(r.kind = "review_queue", "review")
           past       == Each("link", links.history)
<1>1. {"link"} \X Links \subseteq Later(r)
  BY DEF Later, AnyStatement, Deeds
<1>2. contacts \in Seq(Later(r)) /\ operations \in Seq(Later(r)) /\ past \in Seq(Later(r))
  <2>1. /\ contacts \in Seq({"link"} \X Links) /\ operations \in Seq({"link"} \X Links)
        /\ past \in Seq({"link"} \X Links)
    BY BringsOK, EachOK
  <2> HIDE DEF contacts, operations, past
  <2> QED
    BY <1>1, <2>1, WiderSeq
<1>3. audits \in Seq(Later(r))
  <2>1. CASE Remapped(r)
    <3>1. {"audit"} \X Links \subseteq Later(r)
      BY <2>1 DEF Later, AnyStatement, Deeds
    <3>2. audits \in Seq({"audit"} \X Links)
      BY <2>1, BringsOK, EachOK
    <3> HIDE DEF audits
    <3> QED
      BY <3>1, <3>2, WiderSeq
  <2>2. CASE ~Remapped(r)
    BY <2>2 DEF Each
  <2> QED
    BY <2>1, <2>2
<1>4. redirects \in Seq(Later(r)) /\ reviews \in Seq(Later(r))
  <2>1. r.kind = "auto_merge" => <<"redirect", NoLink>> \in Later(r)
    BY DEF Later, AnyStatement, Deeds
  <2>2. r.kind = "review_queue" => <<"review", NoLink>> \in Later(r)
    BY DEF Later, AnyStatement, Deeds
  <2> QED
    BY <2>1, <2>2
<1>5. Statements(r) = Front(r) \o redirects \o audits \o contacts \o operations
                        \o reviews \o past
  BY DEF Statements, Front
<1>6. Front(r) \in Seq(AnyStatement) /\ Later(r) \in SUBSET AnyStatement
  BY FrontShape DEF Later
<1> HIDE DEF redirects, audits, contacts, operations, reviews, past
<1>7. Continues(Front(r), Front(r), Later(r))
  BY <1>6 DEF Continues
<1>8. Continues(Front(r), Front(r) \o redirects, Later(r))
  BY <1>4, <1>6, <1>7, GoesOn
<1>9. Continues(Front(r), Front(r) \o redirects \o audits, Later(r))
  BY <1>3, <1>6, <1>8, GoesOn
<1>10. Continues(Front(r), Front(r) \o redirects \o audits \o contacts, Later(r))
  BY <1>2, <1>6, <1>9, GoesOn
<1>11. Continues(Front(r), Front(r) \o redirects \o audits \o contacts \o operations, Later(r))
  BY <1>2, <1>6, <1>10, GoesOn
<1>12. Continues(Front(r), Front(r) \o redirects \o audits \o contacts \o operations
                             \o reviews, Later(r))
  BY <1>4, <1>6, <1>11, GoesOn
<1> QED
  BY <1>2, <1>5, <1>6, <1>12, GoesOn

(* The statement that is due says where the commit is.                     *)
LEMMA DueAt ==
  ASSUME NEW r, r.batch \in Batches, NEW k \in 1..Len(Statements(r))
  PROVE  LET do == Statements(r)[k][1] IN
         /\ Len(Statements(r)) \in Nat
         /\ do = "seller" <=> k = 1
         /\ do \in {"link", "audit"} => Statements(r)[k][2] \in Links
         /\ do = "decision" <=> r.kind # "none" /\ k = DecisionAt(r)
         /\ do = "redirect" => r.kind = "auto_merge" /\ k > DecisionAt(r)
         /\ do = "audit" => Remapped(r) /\ (r.kind # "none" => k > DecisionAt(r))
         /\ do = "review" => r.kind = "review_queue"
         /\ do \in Deeds
<1> DEFINE s == Statements(r)
           x == s[k]
           n == Len(Front(r))
<1>1. Continues(Front(r), s, Later(r))
  BY StatementsShape
<1>2. /\ n = IF r.kind # "none" THEN DecisionAt(r) ELSE DecisionAt(r) - 1
      /\ DecisionAt(r) \in Nat /\ DecisionAt(r) >= 2
      /\ Front(r)[1] = <<"seller", NoLink>>
      /\ \A m \in 2..(DecisionAt(r) - 1) : Front(r)[m] \in {"link"} \X Links
      /\ r.kind # "none" => Front(r)[DecisionAt(r)] = <<"decision", NoLink>>
  BY FrontShape
<1>3. Len(s) \in Nat /\ Len(s) >= n /\ n \in Nat
  BY <1>1, <1>2 DEF Continues
<1>4. k \in 1..n => x = Front(r)[k]
  BY <1>1 DEF Continues
<1>5. k \in (n + 1)..Len(s) => x \in Later(r)
  BY <1>1 DEF Continues
<1> HIDE DEF s, x, n
<1>6. CASE k = 1
  BY <1>2, <1>3, <1>4, <1>6 DEF s, x, Deeds
<1>7. CASE k \in 2..(DecisionAt(r) - 1)
  <2>1. x[1] = "link" /\ x[2] \in Links
    BY <1>2, <1>3, <1>4, <1>7
  <2> QED
    BY <1>2, <1>3, <1>7, <2>1 DEF s, x, Deeds
<1>8. CASE k = DecisionAt(r) /\ r.kind # "none"
  BY <1>2, <1>3, <1>4, <1>8 DEF s, x, Deeds
<1>9. CASE k \in (n + 1)..Len(s)
  BY <1>2, <1>3, <1>5, <1>9 DEF s, x, Later, AnyStatement, Deeds
<1> QED
  BY <1>2, <1>3, <1>6, <1>7, <1>8, <1>9 DEF s

(* A commit that decides comes to its decision.                            *)
LEMMA DecidesInside ==
  ASSUME NEW r, r.batch \in Batches
  PROVE  /\ Len(Statements(r)) \in Nat /\ Len(Statements(r)) >= 1
         /\ DecisionAt(r) \in Nat /\ DecisionAt(r) >= 2
         /\ r.kind # "none" => Len(Statements(r)) >= DecisionAt(r)
BY StatementsShape, FrontShape DEF Continues

-----------------------------------------------------------------------------
(* Type correctness.                                                       *)

(* The parts of the type invariant. *)
TablesOK ==
  /\ owner \in [Links -> Sellers \cup {NoSeller}]
  /\ status \in [Sellers -> {"absent", "active", "merged"}]
  /\ decision \in [Decisions -> Decision]
  /\ audit \in [Decisions -> [Links -> {"none", "open", "rolled_back"}]]
  /\ redirect \in [Sellers -> Redirect]
  /\ review \in [Decisions -> Statuses]
  /\ events \subseteq Decisions \X Actions

HistoryOK ==
  /\ contested \subseteq Decisions
  /\ halted \subseteq Decisions
  /\ exposed \subseteq Links
  /\ veiled \subseteq Sellers
  /\ untimely \subseteq Links \X Sellers

CountsOK == requests \in Nat /\ batches \in Nat /\ faults \in Nat

ImportersOK ==
  importer \in [Importers -> Import] /\ \A i \in Importers : ImportSound(importer[i])

OperatorsOK ==
  operator \in [Operators -> OperatorRequest] /\ \A p \in Operators : OperatorSound(operator[p])

LEMMA SoundParts ==
  /\ SoundInv <=> TablesOK /\ HistoryOK /\ CountsOK /\ ImportersOK /\ OperatorsOK
  /\ SoundInv' <=> TablesOK' /\ HistoryOK' /\ CountsOK' /\ ImportersOK' /\ OperatorsOK'
BY DEF SoundInv, TypeOK, TablesOK, HistoryOK, CountsOK, ImportersOK, OperatorsOK

LEMMA DecisionsOK ==
  ASSUME NEW d \in Decisions
  PROVE  Candidate(d) \in Sellers /\ Matched(d) \in Sellers /\ Candidate(d) # Matched(d)
BY DEF Decisions, Candidate, Matched

LEMMA WaitingSound ==
  ASSUME NEW b \in Batches
  PROVE  Waiting(b) \in Import /\ ImportSound(Waiting(b)) /\ Waiting(b).pc = "idle"
<1>1. Seller[b] \in Sellers
  BY ConstantsAssumption
<1> QED
  BY <1>1 DEF Waiting, Import, ImportSound, Kinds, Statuses

LEMMA ImporterMoves ==
  ASSUME ImportersOK, NEW i \in Importers, NEW n \in Import, ImportSound(n), Importing(i, n)
  PROVE  /\ ImportersOK'
         /\ importer'[i] = n
         /\ \A j \in Importers : j # i => importer'[j] = importer[j]
<1>1. importer' = [importer EXCEPT ![i] = n] /\ importer \in [Importers -> Import]
  BY DEF ImportersOK, Importing
<1>2. \A j \in Importers : importer'[j] = IF j = i THEN n ELSE importer[j]
  BY <1>1
<1>3. \A j \in Importers : ImportSound(importer'[j])
  BY <1>2 DEF ImportersOK
<1>4. (\A j \in Importers : ImportSound(importer[j]))' <=> \A j \in Importers : ImportSound(importer'[j])
  BY DEF ImportSound, Aimed, Remapped, Statements
<1> QED
  BY <1>1, <1>2, <1>3, <1>4 DEF ImportersOK

LEMMA OperatorMoves ==
  ASSUME OperatorsOK, NEW p \in Operators, NEW n \in OperatorRequest, OperatorSound(n),
         Operating(p, n)
  PROVE  /\ OperatorsOK'
         /\ operator'[p] = n
         /\ \A q \in Operators : q # p => operator'[q] = operator[q]
<1>1. operator' = [operator EXCEPT ![p] = n] /\ operator \in [Operators -> OperatorRequest]
  BY DEF OperatorsOK, Operating
<1>2. \A q \in Operators : operator'[q] = IF q = p THEN n ELSE operator[q]
  BY <1>1
<1>3. \A q \in Operators : OperatorSound(operator'[q])
  BY <1>2 DEF OperatorsOK
<1>4. (\A q \in Operators : OperatorSound(operator[q]))' <=> \A q \in Operators : OperatorSound(operator'[q])
  BY DEF OperatorSound, Points
<1> QED
  BY <1>1, <1>2, <1>3, <1>4 DEF OperatorsOK

(* What becomes of a request of ingestion after a statement.               *)
Done(r) == IF r.at < Len(Statements(r)) THEN [r EXCEPT !.at = @ + 1] ELSE Waiting(r.batch)

LEMMA DoneSound ==
  ASSUME NEW r \in Import, ImportSound(r), r.pc = "commit"
  PROVE  Done(r) \in Import /\ ImportSound(Done(r))
<1>1. CASE r.at < Len(Statements(r))
  <2> DEFINE n == [r EXCEPT !.at = @ + 1]
  <2>1. n \in Import /\ n.pc = r.pc /\ n.batch = r.batch /\ n.decision = r.decision
        /\ n.kind = r.kind /\ n.seen = r.seen /\ n.owner = r.owner /\ n.at = r.at + 1
    BY DEF Import
  <2>2. (Remapped(n) <=> Remapped(r)) /\ (Aimed(n) <=> Aimed(r))
    BY <2>1 DEF Remapped, Aimed
  <2>3. Statements(n) = Statements(r)
    <3> HIDE DEF n
    <3> QED
      BY <2>1, Zenon DEF Statements, Remapped
  <2>4. r.at \in Nat /\ r.at >= 1 /\ Len(Statements(r)) \in Nat
    BY DecidesInside DEF ImportSound, Import
  <2> HIDE DEF n
  <2>5. ImportSound(n)
    BY <1>1, <2>1, <2>2, <2>3, <2>4 DEF ImportSound
  <2> QED
    BY <1>1, <2>1, <2>5 DEF Done, n
<1>2. CASE ~(r.at < Len(Statements(r)))
  BY <1>2, WaitingSound DEF Done, Import
<1> QED
  BY <1>1, <1>2

LEMMA OnwardSound ==
  ASSUME ImportersOK, NEW i \in Importers, importer[i].pc = "commit", Onward(i)
  PROVE  /\ ImportersOK'
         /\ importer'[i] = Done(importer[i])
         /\ \A j \in Importers : j # i => importer'[j] = importer[j]
<1> DEFINE r == importer[i]
<1>1. r \in Import /\ ImportSound(r)
  BY DEF ImportersOK
<1>2. Importing(i, Done(r))
  BY DEF Onward, Done
<1> QED
  BY <1>1, <1>2, DoneSound, ImporterMoves

LEMMA SoundInit == Init => SoundInv
<1> SUFFICES ASSUME Init PROVE SoundInv
  OBVIOUS
<1>1. TablesOK
  BY ConstantsAssumption
  DEF Init, TablesOK, Decision, Undecided, Statuses, Kinds, Redirect, NoRedirect
<1>2. (CHOOSE b \in Batches : TRUE) \in Batches
  BY ConstantsAssumption
<1>3. ImportersOK
  BY <1>2, WaitingSound DEF Init, ImportersOK
<1>4. Resting \in OperatorRequest /\ OperatorSound(Resting)
  BY DEF Resting, OperatorRequest, OperatorPoints, OperatorSound
<1>5. OperatorsOK
  BY <1>4 DEF Init, OperatorsOK
<1> QED
  BY <1>1, <1>3, <1>5, SoundParts DEF Init, HistoryOK, CountsOK

(* Find starts a commit, or looks up the decision about the best match.    *)
LEMMA FindSound ==
  ASSUME ImportersOK, NEW i \in Importers, NEW b \in Batches, Find(i, b)
  PROVE  /\ ImportersOK'
         /\ importer'[i].pc = "look" \/ importer'[i] = [Waiting(b) EXCEPT !.pc = "commit"]
         /\ \A j \in Importers : j # i => importer'[j] = importer[j]
<1> DEFINE s == Seller[b]
           near == {t \in Sellers \ {s} : status[t] = "active" /\ Likeness[s][t] # {}}
           commit == [Waiting(b) EXCEPT !.pc = "commit"]
           look(t, e) == [Waiting(b) EXCEPT !.pc = "look", !.decision = <<s, t>>,
                                            !.kind = Kind(Score(e))]
<1>1. Seller[b] \in Sellers /\ Waiting(b) \in Import
  BY ConstantsAssumption, WaitingSound
<1>2. commit \in Import /\ ImportSound(commit)
  <2>1. /\ commit \in Import /\ commit.batch = b /\ commit.kind = "none" /\ commit.at = 1
        /\ commit.seen = "none" /\ commit.owner = Seller[b] /\ commit.pc = "commit"
    BY <1>1 DEF Waiting, Import
  <2>2. Len(Statements(commit)) \in Nat /\ Len(Statements(commit)) >= 1 /\ ~Remapped(commit)
    BY <2>1, DecidesInside DEF Remapped
  <2> HIDE DEF commit
  <2> QED
    BY <2>1, <2>2 DEF ImportSound
<1>3. ASSUME NEW t \in near, NEW e
      PROVE  look(t, e) \in Import /\ ImportSound(look(t, e)) /\ look(t, e).pc = "look"
  <2>1. <<s, t>> \in Decisions /\ Candidate(<<s, t>>) = Seller[b]
    BY <1>1 DEF Decisions, Candidate
  <2>2. Kind(Score(e)) \in Kinds /\ Kind(Score(e)) # "none"
    BY DEF Kind, Kinds
  <2>3. Waiting(b).batch = b /\ Waiting(b).owner = Seller[b] /\ Waiting(b).at = 1
        /\ Waiting(b).seen = "none"
    BY DEF Waiting
  <2>4. /\ look(t, e) \in Import /\ look(t, e).pc = "look" /\ look(t, e).batch = b
        /\ look(t, e).decision = <<s, t>> /\ look(t, e).kind = Kind(Score(e))
        /\ look(t, e).seen = "none" /\ look(t, e).owner = Seller[b] /\ look(t, e).at = 1
    BY <1>1, <2>1, <2>2, <2>3 DEF Import
  <2> HIDE DEF look
  <2> QED
    BY <2>1, <2>2, <2>4 DEF ImportSound, Aimed, Remapped
<1>4. \/ Importing(i, commit)
      \/ \E t \in near : \E e : Importing(i, look(t, e))
  <2>1. CASE near = {} /\ Importing(i, commit)
    BY <2>1
  <2>2. ASSUME NEW t \in near, NEW found \in [near -> UNION {Likeness[s][u] : u \in near}],
               Importing(i, IF HasComponents(found[t])
                            THEN [Waiting(b) EXCEPT !.pc = "look", !.decision = <<s, t>>,
                                                    !.kind = Kind(Score(found[t]))]
                            ELSE commit)
        PROVE  \/ Importing(i, commit)
               \/ \E u \in near : \E e : Importing(i, look(u, e))
    BY <2>2
  <2> QED
    BY <2>1, <2>2 DEF Find
<1>5. CASE Importing(i, commit)
  BY <1>2, <1>5, ImporterMoves
<1>6. ASSUME NEW t \in near, NEW e, Importing(i, look(t, e))
      PROVE  /\ ImportersOK'
             /\ importer'[i].pc = "look"
             /\ \A j \in Importers : j # i => importer'[j] = importer[j]
  <2> HIDE DEF look, near
  <2> QED
    BY <1>3, <1>6, ImporterMoves
<1> QED
  BY <1>4, <1>5, <1>6

(* What LookUp goes on with. *)
LookedUp(r) ==
  LET d == r.decision IN
  [r EXCEPT !.pc = "commit", !.seen = decision[d].status,
            !.kind = IF decision[d].status = "none" THEN @ ELSE "none",
            !.owner = IF \/ decision[d].status = "merged"
                         \/ decision[d].status = "none" /\ r.kind = "auto_merge"
                      THEN Matched(d) ELSE @]

LEMMA LookUpSound ==
  ASSUME TablesOK, ImportersOK, NEW i \in Importers, LookUp(i)
  PROVE  /\ ImportersOK'
         /\ importer'[i] = LookedUp(importer[i])
         /\ \A j \in Importers : j # i => importer'[j] = importer[j]
<1> DEFINE r == importer[i]
           d == r.decision
           n == LookedUp(r)
<1>1. r \in Import /\ ImportSound(r) /\ r.pc = "look"
  BY DEF ImportersOK, LookUp
<1>2. d \in Decisions /\ Candidate(d) = Seller[r.batch] /\ r.kind # "none" /\ r.at = 1
      /\ r.seen = "none" /\ r.owner = Seller[r.batch] /\ r.batch \in Batches
  BY <1>1 DEF ImportSound, Aimed, Remapped, Import
<1>3. decision[d].status \in Statuses /\ Matched(d) \in Sellers /\ Matched(d) # Seller[r.batch]
  BY <1>2, DecisionsOK DEF TablesOK, Decision
<1>4. /\ n \in Import /\ n.pc = "commit" /\ n.batch = r.batch /\ n.decision = d /\ n.at = 1
      /\ n.seen = decision[d].status
      /\ n.kind = IF decision[d].status = "none" THEN r.kind ELSE "none"
      /\ n.owner = IF \/ decision[d].status = "merged"
                      \/ decision[d].status = "none" /\ r.kind = "auto_merge"
                   THEN Matched(d) ELSE r.owner
  BY <1>1, <1>2, <1>3 DEF Import, LookedUp, Kinds
<1>5. Importing(i, n)
  BY DEF LookUp, LookedUp
<1> HIDE DEF n
<1>6. Remapped(n) <=> n.kind = "auto_merge" \/ n.seen = "merged"
  BY <1>2, <1>3, <1>4 DEF Remapped
<1>7. Len(Statements(n)) \in Nat /\ Len(Statements(n)) >= 1
  BY <1>2, <1>4, DecidesInside
<1>8. Aimed(n)
  BY <1>2, <1>4 DEF Aimed
<1>9. ImportSound(n)
  BY <1>2, <1>3, <1>4, <1>6, <1>7, <1>8 DEF ImportSound
<1> QED
  BY <1>4, <1>5, <1>9, ImporterMoves DEF n

(* The request of a statement that is due is in its commit.                *)
LEMMA DueSound ==
  ASSUME ImportersOK, NEW i \in Importers, NEW do, Due(i, do)
  PROVE  LET r == importer[i] IN
         /\ r \in Import /\ ImportSound(r) /\ r.pc = "commit" /\ r.batch \in Batches
         /\ r.at \in 1..Len(Statements(r)) /\ Len(Statements(r)) \in Nat
         /\ do = "seller" <=> r.at = 1
         /\ do \in {"link", "audit"} => DueLink(i) \in Links
         /\ do = "decision" <=> r.kind # "none" /\ r.at = DecisionAt(r)
         /\ do = "redirect" => r.kind = "auto_merge" /\ r.at > DecisionAt(r)
         /\ do = "audit" => Remapped(r) /\ (r.kind # "none" => r.at > DecisionAt(r))
         /\ do = "review" => r.kind = "review_queue"
         /\ do \in {"decision", "redirect", "audit", "review"} => Aimed(r)
<1> DEFINE r == importer[i]
           k == r.at
<1>1. r \in Import /\ ImportSound(r) /\ r.pc = "commit" /\ r.batch \in Batches
  BY DEF ImportersOK, Due, Import
<1>2. k \in 1..Len(Statements(r)) /\ Statements(r)[k][1] = do /\ DueLink(i) = Statements(r)[k][2]
  BY <1>1 DEF ImportSound, Due, DueLink
<1> HIDE DEF r, k
<1>3. /\ Len(Statements(r)) \in Nat
      /\ do = "seller" <=> k = 1
      /\ do \in {"link", "audit"} => Statements(r)[k][2] \in Links
      /\ do = "decision" <=> r.kind # "none" /\ k = DecisionAt(r)
      /\ do = "redirect" => r.kind = "auto_merge" /\ k > DecisionAt(r)
      /\ do = "audit" => Remapped(r) /\ (r.kind # "none" => k > DecisionAt(r))
      /\ do = "review" => r.kind = "review_queue"
  BY <1>1, <1>2, DueAt
<1>4. do \in {"decision", "redirect", "audit", "review"} => Aimed(r)
  BY <1>1, <1>3 DEF ImportSound
<1> QED
  BY <1>1, <1>2, <1>3, <1>4 DEF r, k

(* A request of the operator with the same decision and action.            *)
LEMMA OperatorOnward ==
  ASSUME OperatorsOK, NEW p \in Operators, NEW n,
         LET r == operator[p] IN
           /\ r.pc # "idle"
           /\ n \in OperatorRequest /\ n.decision = r.decision /\ n.action = r.action
           /\ n.pc \in Points(r.action),
         Operating(p, n)
  PROVE  /\ OperatorsOK'
         /\ operator'[p] = n
         /\ \A q \in Operators : q # p => operator'[q] = operator[q]
<1>1. OperatorSound(n)
  BY DEF OperatorsOK, OperatorSound
<1> QED
  BY <1>1, OperatorMoves

LEMMA OperatorHere ==
  ASSUME OperatorsOK, NEW p \in Operators, operator[p].pc # "idle"
  PROVE  LET r == operator[p] IN
         /\ r \in OperatorRequest /\ r.decision \in Decisions /\ r.action \in Actions
         /\ r.pc \in Points(r.action)
         /\ Candidate(r.decision) \in Sellers /\ Matched(r.decision) \in Sellers
         /\ r.action = "merge" =>
              r.pc \in {"list", "audit", "move", "redirect", "decide", "review", "log"}
         /\ r.action = "rollback" =>
              r.pc \in {"recall", "restore", "reopen", "restore_rest", "activate",
                        "close", "unredirect", "decide", "review", "log"}
         /\ r.action \notin {"merge", "rollback"} => r.pc \in {"decide", "review", "log"}
<1>1. operator[p] \in OperatorRequest /\ OperatorSound(operator[p])
  BY DEF OperatorsOK
<1>2. operator[p].decision \in Decisions /\ operator[p].action \in Actions
      /\ operator[p].pc \in Points(operator[p].action)
  BY <1>1 DEF OperatorSound
<1> QED
  BY <1>1, <1>2, DecisionsOK DEF Points, Actions

(* Go, and what else an action leads to.                                   *)
LEMMA GoSound ==
  ASSUME OperatorsOK, NEW p \in Operators, operator[p].pc # "idle",
         NEW point \in Points(operator[p].action), Go(p, point)
  PROVE  /\ OperatorsOK'
         /\ operator'[p].pc = point
         /\ operator'[p].decision = operator[p].decision
         /\ operator'[p].action = operator[p].action
         /\ \A q \in Operators : q # p => operator'[q] = operator[q]
<1> DEFINE n == [operator[p] EXCEPT !.pc = point, !.at = 1]
<1>1. operator[p] \in OperatorRequest /\ operator[p].action \in Actions
  BY OperatorHere
<1>2. point \in OperatorPoints
  BY <1>1 DEF Points, OperatorPoints, Actions
<1>3. n \in OperatorRequest /\ n.pc = point /\ n.decision = operator[p].decision
      /\ n.action = operator[p].action
  BY <1>1, <1>2 DEF OperatorRequest
<1>4. Operating(p, n)
  BY DEF Go
<1> HIDE DEF n
<1> QED
  BY <1>3, <1>4, OperatorOnward

(* Request p goes on with its action, to one of some points.               *)
Steps(p, points) ==
  /\ operator'[p].pc \in points
  /\ operator'[p].decision = operator[p].decision
  /\ operator'[p].action = operator[p].action
  /\ \A q \in Operators : q # p => operator'[q] = operator[q]

LEMMA ListSound ==
  ASSUME OperatorsOK, NEW p \in Operators, List(p)
  PROVE  OperatorsOK' /\ operator[p].action = "merge" /\ Steps(p, {"list", "audit", "move"})
<1> DEFINE r == operator[p]
           found == r.links \cup {l \in Links : Table[l] = ListOrder[r.at]
                                                /\ owner[l] = Candidate(r.decision)}
           more == [r EXCEPT !.links = found, !.at = @ + 1]
           last == [r EXCEPT !.links = found, !.at = 1,
                             !.pc = IF found = {} THEN "move" ELSE "audit"]
           n    == IF r.at < Len(ListOrder) THEN more ELSE last
<1>1. r.pc = "list" /\ r \in OperatorRequest /\ r.action = "merge"
  BY OperatorHere DEF List, At
<1>2. found \subseteq Links
  BY <1>1 DEF OperatorRequest
<1>3. Operating(p, n)
  BY DEF List
<1> HIDE DEF found
<1>4. /\ more \in OperatorRequest /\ more.decision = r.decision /\ more.action = r.action
      /\ more.pc = "list"
  <2>1. r.at + 1 \in Nat
    BY <1>1 DEF OperatorRequest
  <2> DEFINE k == r.at + 1
  <2>2. more = [r EXCEPT !.links = found, !.at = k]
    OBVIOUS
  <2> HIDE DEF k, more
  <2>3. k \in Nat
    BY <2>1 DEF k
  <2> QED
    BY <1>1, <1>2, <2>2, <2>3 DEF OperatorRequest
<1>5. /\ last \in OperatorRequest /\ last.decision = r.decision /\ last.action = r.action
      /\ last.pc \in {"move", "audit"}
  BY <1>1, <1>2 DEF OperatorRequest, OperatorPoints
<1> HIDE DEF more, last
<1>6. /\ n \in OperatorRequest /\ n.decision = r.decision /\ n.action = r.action
      /\ n.pc \in {"list", "audit", "move"} /\ n.pc \in Points(r.action)
  BY <1>1, <1>4, <1>5 DEF Points
<1> HIDE DEF n
<1> QED
  BY <1>1, <1>3, <1>6, OperatorOnward DEF Steps

LEMMA AuditSound ==
  ASSUME OperatorsOK, NEW p \in Operators, Audit(p)
  PROVE  OperatorsOK' /\ operator[p].action = "merge" /\ Steps(p, {"audit", "move"})
<1> DEFINE r == operator[p]
<1>1. r.pc = "audit" /\ r \in OperatorRequest /\ r.action = "merge"
  BY OperatorHere DEF Audit, At
<1>2. {"audit", "move"} \subseteq Points("merge")
  BY DEF Points
<1>3. PICK l \in r.links \ r.done :
        IF r.links = r.done \cup {l} THEN Go(p, "move")
        ELSE Operating(p, [r EXCEPT !.done = @ \cup {l}])
  BY DEF Audit
<1>4. CASE Go(p, "move")
  <2>1. "move" \in Points(operator[p].action)
    BY <1>1, <1>2
  <2> QED
    BY <1>1, <1>4, <2>1, GoSound DEF Steps
<1>5. CASE Operating(p, [r EXCEPT !.done = @ \cup {l}])
  <2> DEFINE n == [r EXCEPT !.done = @ \cup {l}]
  <2>1. n \in OperatorRequest /\ n.decision = r.decision /\ n.action = r.action
        /\ n.pc = "audit"
    BY <1>1 DEF OperatorRequest
  <2>2. Operating(p, n)
    BY <1>5
  <2> HIDE DEF n
  <2> QED
    BY <1>1, <1>2, <2>1, <2>2, OperatorOnward DEF Steps
<1> QED
  BY <1>3, <1>4, <1>5

LEMMA MoveSound ==
  ASSUME OperatorsOK, NEW p \in Operators, Move(p)
  PROVE  OperatorsOK' /\ operator[p].action = "merge" /\ Steps(p, {"move", "redirect"})
<1> DEFINE r == operator[p]
<1>1. r.pc = "move" /\ r \in OperatorRequest /\ r.action = "merge"
  BY OperatorHere DEF Move, At
<1>2. {"move", "redirect"} \subseteq Points("merge")
  BY DEF Points
<1>3. CASE r.at < Len(MoveOrder)
  <2> DEFINE n == [r EXCEPT !.at = @ + 1]
  <2>1. n \in OperatorRequest /\ n.decision = r.decision /\ n.action = r.action
        /\ n.pc = "move"
    BY <1>1 DEF OperatorRequest
  <2>2. Operating(p, n)
    BY <1>3 DEF Move
  <2> HIDE DEF n
  <2> QED
    BY <1>1, <1>2, <2>1, <2>2, OperatorOnward DEF Steps
<1>4. CASE ~(r.at < Len(MoveOrder))
  <2>1. "redirect" \in Points(operator[p].action) /\ Go(p, "redirect")
    BY <1>1, <1>2, <1>4 DEF Move
  <2> QED
    BY <1>1, <2>1, GoSound DEF Steps
<1> QED
  BY <1>3, <1>4

LEMMA RestoreSound ==
  ASSUME OperatorsOK, NEW p \in Operators, Restore(p)
  PROVE  /\ OperatorsOK' /\ operator[p].action = "rollback"
         /\ Steps(p, {"restore", "restore_rest", "reopen", "activate"})
<1> DEFINE r == operator[p]
           core == At(p, "restore")
           left == {l \in r.links \ r.done : InCore(l) = core}
<1>1. r.pc \in {"restore", "restore_rest"} /\ r \in OperatorRequest /\ r.action = "rollback"
  BY OperatorHere DEF Restore, At
<1>2. PICK l \in left :
        IF left # {l} THEN Operating(p, [r EXCEPT !.done = @ \cup {l}])
        ELSE Operating(p, [r EXCEPT !.done = @ \cup {l},
               !.pc = IF core THEN "reopen" ELSE "activate"])
  BY DEF Restore
<1>3. l \in Links
  BY <1>1 DEF OperatorRequest
<1> DEFINE more == [r EXCEPT !.done = @ \cup {l}]
           last == [r EXCEPT !.done = @ \cup {l}, !.pc = IF core THEN "reopen" ELSE "activate"]
           n    == IF left # {l} THEN more ELSE last
<1> HIDE DEF left, core
<1>4. more \in OperatorRequest /\ more.decision = r.decision /\ more.action = r.action
      /\ more.pc = r.pc
  BY <1>1, <1>3 DEF OperatorRequest
<1>5. last \in OperatorRequest /\ last.decision = r.decision /\ last.action = r.action
      /\ last.pc \in {"reopen", "activate"}
  BY <1>1, <1>3 DEF OperatorRequest, OperatorPoints
<1>6. Operating(p, n)
  BY <1>2
<1> HIDE DEF more, last
<1>7. /\ n \in OperatorRequest /\ n.decision = r.decision /\ n.action = r.action
      /\ n.pc \in {"restore", "restore_rest", "reopen", "activate"}
      /\ n.pc \in Points(r.action)
  BY <1>1, <1>4, <1>5 DEF Points
<1> HIDE DEF n
<1> QED
  BY <1>1, <1>6, <1>7, OperatorOnward DEF Steps

LEMMA RecallSound ==
  ASSUME OperatorsOK, NEW p \in Operators, Recall(p)
  PROVE  /\ OperatorsOK' /\ operator[p].action = "rollback"
         /\ Steps(p, {"restore", "reopen", "activate"})
<1> DEFINE r == operator[p]
           open == {l \in Links : audit[r.decision][l] = "open"}
           n == [r EXCEPT !.links = open,
                   !.pc = IF open = {} THEN "activate"
                          ELSE IF \E l \in open : InCore(l) THEN "restore" ELSE "reopen"]
<1>1. r.pc = "recall" /\ r \in OperatorRequest /\ r.action = "rollback"
  BY OperatorHere DEF Recall, At
<1>2. open \subseteq Links /\ Operating(p, n)
  BY DEF Recall
<1> HIDE DEF open
<1>3. /\ n \in OperatorRequest /\ n.decision = r.decision /\ n.action = r.action
      /\ n.pc \in {"restore", "reopen", "activate"}
  BY <1>1, <1>2 DEF OperatorRequest, OperatorPoints
<1>4. n.pc \in Points(r.action)
  BY <1>1, <1>3 DEF Points
<1> HIDE DEF n
<1> QED
  BY <1>1, <1>2, <1>3, <1>4, OperatorOnward DEF Steps

(* The actions that go from one point to the next.                         *)
LEMMA GoesSound ==
  ASSUME OperatorsOK, NEW p \in Operators
  PROVE  /\ AddRedirect(p) =>
              /\ OperatorsOK' /\ operator[p].pc = "redirect" /\ operator[p].action = "merge"
              /\ Steps(p, {"decide"})
         /\ Decide(p) => OperatorsOK' /\ operator[p].pc = "decide" /\ Steps(p, {"review"})
         /\ ResolveReview(p) => OperatorsOK' /\ operator[p].pc = "review" /\ Steps(p, {"log"})
         /\ CloseAudits(p) =>
              /\ OperatorsOK' /\ operator[p].pc = "close" /\ operator[p].action = "rollback"
              /\ Steps(p, {"unredirect"})
         /\ EndRedirect(p) =>
              /\ OperatorsOK' /\ operator[p].pc = "unredirect" /\ operator[p].action = "rollback"
              /\ Steps(p, {"decide"})
         /\ Activate(p) =>
              /\ OperatorsOK' /\ operator[p].pc \in {"reopen", "activate"}
              /\ operator[p].action = "rollback"
              /\ operator[p].pc = "reopen" => Steps(p, {"activate", "restore_rest"})
              /\ operator[p].pc = "activate" => Steps(p, {"close"})
<1> DEFINE r == operator[p]
<1>1. /\ Points("merge") = {"list", "audit", "move", "redirect", "decide", "review", "log"}
      /\ Points("rollback") = {"recall", "restore", "reopen", "restore_rest", "activate",
                               "close", "unredirect", "decide", "review", "log"}
      /\ {"decide", "review", "log"} \subseteq Points(r.action)
  BY DEF Points
<1>2. ASSUME NEW point \in Points(r.action), Go(p, point), r.pc # "idle"
      PROVE  OperatorsOK' /\ Steps(p, {point})
  BY <1>2, GoSound DEF Steps
<1>3. ASSUME AddRedirect(p)
      PROVE  OperatorsOK' /\ r.pc = "redirect" /\ r.action = "merge" /\ Steps(p, {"decide"})
  <2>1. r.pc = "redirect" /\ Go(p, "decide")
    BY <1>3 DEF AddRedirect, At
  <2>2. r.action = "merge"
    BY <2>1, OperatorHere
  <2> QED
    BY <1>1, <1>2, <2>1, <2>2
<1>4. ASSUME Decide(p) PROVE OperatorsOK' /\ r.pc = "decide" /\ Steps(p, {"review"})
  BY <1>1, <1>2, <1>4 DEF Decide, At
<1>5. ASSUME ResolveReview(p) PROVE OperatorsOK' /\ r.pc = "review" /\ Steps(p, {"log"})
  BY <1>1, <1>2, <1>5 DEF ResolveReview, At
<1>6. ASSUME CloseAudits(p)
      PROVE  OperatorsOK' /\ r.pc = "close" /\ r.action = "rollback" /\ Steps(p, {"unredirect"})
  <2>1. r.pc = "close" /\ Go(p, "unredirect")
    BY <1>6 DEF CloseAudits, At
  <2>2. r.action = "rollback"
    BY <2>1, OperatorHere
  <2>3. "unredirect" \in Points(r.action)
    BY <1>1, <2>2
  <2> QED
    BY <1>2, <2>1, <2>2, <2>3
<1>7. ASSUME EndRedirect(p)
      PROVE  OperatorsOK' /\ r.pc = "unredirect" /\ r.action = "rollback" /\ Steps(p, {"decide"})
  <2>1. r.pc = "unredirect" /\ Go(p, "decide")
    BY <1>7 DEF EndRedirect, At
  <2>2. r.action = "rollback"
    BY <2>1, OperatorHere
  <2> QED
    BY <1>1, <1>2, <2>1, <2>2
<1>8. ASSUME Activate(p)
      PROVE  /\ OperatorsOK' /\ r.pc \in {"reopen", "activate"} /\ r.action = "rollback"
             /\ r.pc = "reopen" => Steps(p, {"activate", "restore_rest"})
             /\ r.pc = "activate" => Steps(p, {"close"})
  <2> DEFINE point == IF r.pc = "activate" THEN "close"
                      ELSE IF r.links \subseteq r.done THEN "activate" ELSE "restore_rest"
  <2>1. r.pc \in {"reopen", "activate"} /\ Go(p, point)
    BY <1>8 DEF Activate, At
  <2>2. r.action = "rollback"
    BY <2>1, OperatorHere
  <2>3. /\ point \in Points(r.action)
        /\ r.pc = "reopen" => point \in {"activate", "restore_rest"}
        /\ r.pc = "activate" => point = "close"
    BY <1>1, <2>1, <2>2
  <2> HIDE DEF point
  <2>4. OperatorsOK' /\ Steps(p, {point})
    BY <1>2, <2>1, <2>3
  <2> QED
    BY <2>1, <2>2, <2>3, <2>4 DEF Steps
<1> QED
  BY <1>3, <1>4, <1>5, <1>6, <1>7, <1>8

(* A request that begins, and one that is over.                            *)
LEMMA BeginSound ==
  ASSUME OperatorsOK, NEW p \in Operators, NEW d \in Decisions, NEW action \in Actions,
         Begin(p, d, action)
  PROVE  LET n == operator'[p] IN
         /\ OperatorsOK'
         /\ operator[p].pc = "idle" /\ n.pc # "idle" /\ n.decision = d /\ n.action = action
         /\ n.pc = "log" => decision[d].status = Expected(action)
         /\ n.pc # "log" /\ action = "rollback" => n.pc = "recall" /\ decision[d].status = "merged"
         /\ n.pc # "log" /\ action # "rollback" =>
              n.pc \in {"list", "decide"} /\ decision[d].status = "pending"
         /\ \A q \in Operators : q # p => operator'[q] = operator[q]
<1> DEFINE now == decision[d].status
           n == [Resting EXCEPT !.decision = d, !.action = action,
                   !.pc = IF now = Expected(action) THEN "log"
                          ELSE IF action = "rollback" THEN "recall"
                          ELSE IF action = "merge" THEN "list" ELSE "decide"]
<1>1. /\ operator[p].pc = "idle" /\ Operating(p, n)
      /\ \/ now = Expected(action)
         \/ action = "rollback" /\ now = "merged"
         \/ action # "rollback" /\ now = "pending"
  BY DEF Begin, At
<1>2. /\ n \in OperatorRequest /\ n.decision = d /\ n.action = action
      /\ n.pc = IF now = Expected(action) THEN "log"
                ELSE IF action = "rollback" THEN "recall"
                ELSE IF action = "merge" THEN "list" ELSE "decide"
  BY DEF Resting, OperatorRequest, OperatorPoints, Actions
<1> HIDE DEF n, now
<1>3. n.pc \in Points(action) /\ n.pc # "idle"
  BY <1>2 DEF Points, Actions
<1>4. OperatorSound(n)
  BY <1>2, <1>3 DEF OperatorSound
<1>5. /\ OperatorsOK' /\ operator'[p] = n
      /\ \A q \in Operators : q # p => operator'[q] = operator[q]
  BY <1>1, <1>2, <1>4, OperatorMoves
<1> QED
  BY <1>1, <1>2, <1>3, <1>5 DEF now

LEMMA RestSound ==
  ASSUME OperatorsOK, NEW p \in Operators, Operating(p, Resting)
  PROVE  /\ OperatorsOK' /\ operator'[p].pc = "idle"
         /\ \A q \in Operators : q # p => operator'[q] = operator[q]
<1>1. Resting \in OperatorRequest /\ OperatorSound(Resting) /\ Resting.pc = "idle"
  BY DEF Resting, OperatorRequest, OperatorPoints, OperatorSound
<1> QED
  BY <1>1, OperatorMoves

(* Ingestion leaves the operator's requests alone, and the other way round. *)
LEMMA OthersKeep ==
  /\ OperatorsOK /\ operator' = operator => OperatorsOK'
  /\ ImportersOK /\ importer' = importer => ImportersOK'
  /\ TablesOK /\ UNCHANGED tables => TablesOK'
  /\ HistoryOK /\ UNCHANGED history => HistoryOK'
<1>1. ASSUME OperatorsOK, operator' = operator PROVE OperatorsOK'
  <2>1. \A p \in Operators : OperatorSound(operator[p])'
    BY <1>1 DEF OperatorsOK, OperatorSound, Points
  <2> QED
    BY <1>1, <2>1 DEF OperatorsOK
<1>2. ASSUME ImportersOK, importer' = importer PROVE ImportersOK'
  <2>1. \A i \in Importers : ImportSound(importer[i])'
    BY <1>2 DEF ImportersOK, ImportSound, Aimed, Remapped, Statements
  <2> QED
    BY <1>2, <2>1 DEF ImportersOK
<1> QED
  BY <1>1, <1>2 DEF TablesOK, HistoryOK, tables, history

LEMMA ImportStepSound ==
  ASSUME SoundInv, NEW i \in Importers,
         \/ \E b \in Batches : Find(i, b)
         \/ LookUp(i) \/ WriteSeller(i) \/ WriteLink(i) \/ WriteDecision(i)
         \/ WriteRedirect(i) \/ WriteAudit(i) \/ WriteReview(i) \/ FailImport(i)
  PROVE  SoundInv'
<1> DEFINE r == importer[i]
           d == r.decision
<1>1. TablesOK /\ HistoryOK /\ CountsOK /\ ImportersOK /\ OperatorsOK
  BY SoundParts
<1>2. OperatorsOK'
  BY <1>1, OthersKeep
  DEF Ingests, Find, LookUp, WriteSeller, WriteLink, WriteDecision, WriteRedirect, WriteAudit,
      WriteReview, FailImport
<1>3. CountsOK'
  <2>1. requests' = requests
    BY DEF Ingests, Find, LookUp, WriteSeller, WriteLink, WriteDecision, WriteRedirect,
           WriteAudit, WriteReview, FailImport
  <2>2. batches' = batches \/ batches' = batches + 1
    BY DEF Find, LookUp, WriteSeller, WriteLink, WriteDecision, WriteRedirect, WriteAudit,
           WriteReview, FailImport
  <2>3. faults' = faults \/ faults' = faults + 1
    BY DEF Find, LookUp, WriteSeller, WriteLink, WriteDecision, WriteRedirect, WriteAudit,
           WriteReview, FailImport
  <2> QED
    BY <1>1, <2>1, <2>2, <2>3 DEF CountsOK
<1> SUFFICES ImportersOK' /\ TablesOK' /\ HistoryOK'
  BY <1>2, <1>3, SoundParts
<1>4. r \in Import /\ r.owner \in Sellers /\ Seller[r.batch] \in Sellers
  BY <1>1, ConstantsAssumption DEF ImportersOK, Import
<1>5. CASE \E b \in Batches : Find(i, b)
  <2>1. PICK b \in Batches : Find(i, b)
    BY <1>5
  <2> QED
    BY <1>1, <2>1, FindSound, OthersKeep DEF Find
<1>6. CASE LookUp(i)
  BY <1>1, <1>6, LookUpSound, OthersKeep DEF LookUp
<1>7. CASE WriteSeller(i)
  <2>1. ImportersOK'
    BY <1>1, <1>7, DueSound, OnwardSound DEF WriteSeller
  <2>2. TablesOK'
    BY <1>1, <1>7 DEF TablesOK, WriteSeller
  <2>3. HistoryOK'
    BY <1>1, <1>4, <1>7 DEF HistoryOK, WriteSeller
  <2> QED
    BY <2>1, <2>2, <2>3
<1>8. CASE WriteLink(i)
  <2>1. ImportersOK' /\ DueLink(i) \in Links
    BY <1>1, <1>8, DueSound, OnwardSound DEF WriteLink
  <2>2. TablesOK'
    BY <1>1, <1>4, <1>8 DEF TablesOK, WriteLink
  <2>3. HistoryOK'
    BY <1>1, <1>8, <2>1 DEF HistoryOK, WriteLink, Expose
  <2> QED
    BY <2>1, <2>2, <2>3
<1>9. CASE WriteDecision(i)
  <2>1. ImportersOK' /\ d \in Decisions /\ r.kind # "none"
    BY <1>1, <1>9, DueSound, OnwardSound DEF WriteDecision, Aimed
  <2>2. FirstStatus(r.kind) \in Statuses /\ r.kind \in Kinds
    BY <1>4, <2>1 DEF FirstStatus, Statuses, Kinds, Import
  <2>3. [status |-> FirstStatus(r.kind), action |-> r.kind] \in Decision
    BY <2>2 DEF Decision
  <2>4. TablesOK'
    BY <1>1, <1>9, <2>3 DEF TablesOK, WriteDecision
  <2>5. HistoryOK'
    BY <1>1, <1>9, <2>1 DEF HistoryOK, WriteDecision
  <2> QED
    BY <2>1, <2>4, <2>5
<1>10. CASE WriteRedirect(i)
  <2>1. ImportersOK' /\ d \in Decisions
    BY <1>1, <1>10, DueSound, OnwardSound DEF WriteRedirect, Aimed
  <2>2. [to |-> r.owner, by |-> d, active |-> TRUE] \in Redirect
    BY <1>4, <2>1 DEF Redirect
  <2>3. TablesOK'
    BY <1>1, <1>10, <2>2 DEF TablesOK, WriteRedirect
  <2> QED
    BY <1>1, <1>10, <2>1, <2>3, OthersKeep DEF WriteRedirect
<1>11. CASE WriteAudit(i)
  <2>1. ImportersOK' /\ d \in Decisions /\ DueLink(i) \in Links
    BY <1>1, <1>11, DueSound, OnwardSound DEF WriteAudit, Aimed
  <2>2. TablesOK'
    BY <1>1, <1>11, <2>1 DEF TablesOK, WriteAudit, Audited
  <2>3. HistoryOK'
    BY <1>1, <1>11, <2>1 DEF HistoryOK, WriteAudit, Expose
  <2> QED
    BY <2>1, <2>2, <2>3
<1>12. CASE WriteReview(i)
  <2>1. ImportersOK' /\ d \in Decisions
    BY <1>1, <1>12, DueSound, OnwardSound DEF WriteReview, Aimed
  <2>2. TablesOK'
    BY <1>1, <1>12, <2>1 DEF TablesOK, WriteReview, Statuses
  <2> QED
    BY <1>1, <1>12, <2>1, <2>2, OthersKeep DEF WriteReview
<1>13. CASE FailImport(i)
  <2>1. Waiting(r.batch) \in Import /\ ImportSound(Waiting(r.batch))
    BY <1>4, WaitingSound DEF Import
  <2>2. Importing(i, Waiting(r.batch)) /\ UNCHANGED tables
    BY <1>13 DEF FailImport
  <2>3. ImportersOK'
    BY <1>1, <2>1, <2>2, ImporterMoves
  <2>4. HistoryOK'
    BY <1>1, <1>4, <1>13 DEF HistoryOK, FailImport, Expose
  <2> QED
    BY <1>1, <2>2, <2>3, <2>4, OthersKeep
<1> QED
  BY <1>5, <1>6, <1>7, <1>8, <1>9, <1>10, <1>11, <1>12, <1>13

(* One more link is audited, unless it was before.                         *)
LEMMA AuditOne ==
  ASSUME audit \in [Decisions -> [Links -> {"none", "open", "rolled_back"}]],
         NEW d \in Decisions, NEW l \in Links,
         audit' = [audit EXCEPT ![d][l] = Audited(@)]
  PROVE  /\ audit' \in [Decisions -> [Links -> {"none", "open", "rolled_back"}]]
         /\ \A e \in Decisions : \A m \in Links :
              audit'[e][m] = IF e = d /\ m = l THEN Audited(audit[d][l]) ELSE audit[e][m]
<1>1. Audited(audit[d][l]) \in {"none", "open", "rolled_back"}
  BY DEF Audited
<1> DEFINE v == Audited(audit[d][l])
<1>2. audit' = [audit EXCEPT ![d] = [audit[d] EXCEPT ![l] = v]]
  OBVIOUS
<1> HIDE DEF v
<1>3. v \in {"none", "open", "rolled_back"}
  BY <1>1 DEF v
<1>4. [audit[d] EXCEPT ![l] = v] \in [Links -> {"none", "open", "rolled_back"}]
  BY <1>3
<1> QED
  BY <1>2, <1>4 DEF v

LEMMA ClashingOK ==
  ASSUME OperatorsOK, NEW d \in Decisions
  PROVE  /\ Clashing(d) \subseteq Decisions
         /\ \A p \in Operators : Worked(p, d) => d \in Clashing(d)
<1> DEFINE busy   == {q \in Operators : operator[q].pc # "idle"}
           others == {operator[q].decision : q \in busy}
           clash  == {e \in others : {e[1], e[2]} \cap {d[1], d[2]} # {}}
<1>1. others \subseteq Decisions
  BY OperatorHere
<1>2. \A p \in Operators : Worked(p, d) => d \in clash
  BY DEF Worked
<1>3. Clashing(d) = IF clash = {} THEN {} ELSE clash \cup {d}
  BY DEF Clashing
<1> HIDE DEF others
<1> QED
  BY <1>1, <1>2, <1>3

LEMMA OperatorStepSound ==
  ASSUME SoundInv, NEW p \in Operators,
         \/ \E d \in Decisions, action \in Actions : Begin(p, d, action)
         \/ List(p) \/ Audit(p) \/ Move(p) \/ AddRedirect(p) \/ Decide(p)
         \/ ResolveReview(p) \/ Log(p)
         \/ Recall(p) \/ Restore(p) \/ Activate(p) \/ CloseAudits(p) \/ EndRedirect(p)
         \/ FailOperator(p)
  PROVE  SoundInv'
<1> DEFINE r == operator[p]
           d == r.decision
<1>1. TablesOK /\ HistoryOK /\ CountsOK /\ ImportersOK /\ OperatorsOK
  BY SoundParts
<1>2. ImportersOK'
  BY <1>1, OthersKeep
  DEF Operates, Begin, List, Audit, Move, AddRedirect, Decide, ResolveReview, Log, Recall,
      Restore, Activate, CloseAudits, EndRedirect, FailOperator
<1>3. CountsOK'
  <2>1. batches' = batches
    BY DEF Operates, Begin, List, Audit, Move, AddRedirect, Decide, ResolveReview, Log, Recall,
           Restore, Activate, CloseAudits, EndRedirect, FailOperator
  <2>2. requests' = requests \/ requests' = requests + 1
    BY DEF Begin, List, Audit, Move, AddRedirect, Decide, ResolveReview, Log, Recall, Restore,
           Activate, CloseAudits, EndRedirect, FailOperator
  <2>3. faults' = faults \/ faults' = faults + 1
    BY DEF Begin, List, Audit, Move, AddRedirect, Decide, ResolveReview, Log, Recall, Restore,
           Activate, CloseAudits, EndRedirect, FailOperator
  <2> QED
    BY <1>1, <2>1, <2>2, <2>3 DEF CountsOK
<1> SUFFICES OperatorsOK' /\ TablesOK' /\ HistoryOK'
  BY <1>2, <1>3, SoundParts
<1>4. r.pc # "idle" => r \in OperatorRequest /\ d \in Decisions /\ r.action \in Actions
                       /\ Candidate(d) \in Sellers /\ Matched(d) \in Sellers
  BY <1>1, OperatorHere
<1>5. CASE \E e \in Decisions, action \in Actions : Begin(p, e, action)
  <2>1. PICK e \in Decisions, action \in Actions : Begin(p, e, action)
    BY <1>5
  <2>2. OperatorsOK'
    BY <1>1, <2>1, BeginSound
  <2>3. UNCHANGED tables
    BY <2>1 DEF Begin
  <2>4. HistoryOK'
    BY <1>1, <2>1, ClashingOK DEF HistoryOK, Begin
  <2> QED
    BY <1>1, <2>2, <2>3, <2>4, OthersKeep
<1>6. CASE List(p)
  BY <1>1, <1>6, ListSound, OthersKeep DEF List
<1>7. CASE Audit(p)
  <2> PICK l \in r.links \ r.done : audit' = [audit EXCEPT ![d][l] = Audited(@)]
    BY <1>7 DEF Audit
  <2>1. d \in Decisions
    BY <1>4, <1>7 DEF Audit, At
  <2>2. l \in Links
    BY <1>4, <1>7 DEF Audit, At, OperatorRequest
  <2>3. TablesOK'
    BY <1>1, <1>7, <2>1, <2>2, AuditOne DEF TablesOK, Audit
  <2> QED
    BY <1>1, <1>7, <2>3, AuditSound, OthersKeep DEF Audit
<1>8. CASE Move(p)
  <2>1. TablesOK'
    <3>1. Candidate(d) \in Sellers /\ Matched(d) \in Sellers
      BY <1>4, <1>8 DEF Move, At
    <3> QED
      BY <1>1, <1>8, <3>1 DEF TablesOK, Move
  <2> QED
    BY <1>1, <1>8, <2>1, MoveSound, OthersKeep DEF Move
<1>9. CASE AddRedirect(p)
  <2>1. d \in Decisions /\ Candidate(d) \in Sellers /\ Matched(d) \in Sellers
    BY <1>4, <1>9 DEF AddRedirect, At
  <2>2. [to |-> Matched(d), by |-> d, active |-> TRUE] \in Redirect
    BY <2>1 DEF Redirect
  <2>3. TablesOK'
    BY <1>1, <1>9, <2>2 DEF TablesOK, AddRedirect
  <2> QED
    BY <1>1, <1>9, <2>3, GoesSound, OthersKeep DEF AddRedirect
<1>10. CASE Decide(p)
  <2>1. d \in Decisions /\ Expected(r.action) \in Statuses
    BY <1>4, <1>10 DEF Decide, At, Expected, Statuses, Actions
  <2>2. TablesOK'
    BY <1>1, <1>10, <2>1 DEF TablesOK, Decide, Decision
  <2> QED
    BY <1>1, <1>10, <2>2, GoesSound, OthersKeep DEF Decide
<1>11. CASE ResolveReview(p)
  <2>1. d \in Decisions /\ Expected(r.action) \in Statuses
    BY <1>4, <1>11 DEF ResolveReview, At, Expected, Statuses, Actions
  <2>2. TablesOK'
    BY <1>1, <1>11, <2>1 DEF TablesOK, ResolveReview
  <2> QED
    BY <1>1, <1>11, <2>2, GoesSound, OthersKeep DEF ResolveReview
<1>12. CASE Log(p)
  <2>1. d \in Decisions /\ r.action \in Actions
    BY <1>4, <1>12 DEF Log, At
  <2>2. TablesOK'
    BY <1>1, <1>12, <2>1 DEF TablesOK, Log
  <2> QED
    BY <1>1, <1>12, <2>2, RestSound, OthersKeep DEF Log
<1>13. CASE Recall(p)
  BY <1>1, <1>13, RecallSound, OthersKeep DEF Recall
<1>14. CASE Restore(p)
  <2>1. r \in OperatorRequest /\ Candidate(d) \in Sellers /\ Matched(d) \in Sellers
    BY <1>4, <1>14 DEF Restore, At
  <2>2. PICK l \in r.links :
          /\ owner' = [owner EXCEPT ![l] = IF @ = Matched(d) THEN Candidate(d) ELSE @]
          /\ untimely' = untimely \cup (IF MovedOn(d, l) THEN {<<l, Matched(d)>>} ELSE {})
    BY <1>14 DEF Restore
  <2>3. l \in Links
    BY <2>1 DEF OperatorRequest
  <2>4. TablesOK'
    BY <1>1, <1>14, <2>1, <2>2, <2>3 DEF TablesOK, Restore
  <2>5. HistoryOK'
    <3>1. <<l, Matched(d)>> \in Links \X Sellers
      BY <2>1, <2>3
    <3>2. untimely' \subseteq Links \X Sellers
      BY <1>1, <2>2, <3>1 DEF HistoryOK
    <3> QED
      BY <1>1, <1>14, <3>2 DEF HistoryOK, Restore
  <2> QED
    BY <1>1, <1>14, <2>4, <2>5, RestoreSound
<1>15. CASE Activate(p)
  <2>1. TablesOK'
    BY <1>1, <1>15 DEF TablesOK, Activate
  <2> QED
    BY <1>1, <1>15, <2>1, GoesSound, OthersKeep DEF Activate
<1>16. CASE CloseAudits(p)
  <2>1. d \in Decisions
    BY <1>4, <1>16 DEF CloseAudits, At
  <2>2. TablesOK'
    BY <1>1, <1>16, <2>1 DEF TablesOK, CloseAudits
  <2> QED
    BY <1>1, <1>16, <2>2, GoesSound, OthersKeep DEF CloseAudits
<1>17. CASE EndRedirect(p)
  <2>1. \A s \in Sellers : [redirect[s] EXCEPT !.active = FALSE] \in Redirect
    BY <1>1 DEF TablesOK, Redirect
  <2>2. TablesOK'
    BY <1>1, <1>17, <2>1 DEF TablesOK, EndRedirect
  <2> QED
    BY <1>1, <1>17, <2>2, GoesSound, OthersKeep DEF EndRedirect
<1>18. CASE FailOperator(p)
  <2>1. d \in Decisions /\ UNCHANGED tables /\ Operating(p, Resting)
    BY <1>4, <1>18 DEF FailOperator, At
  <2>2. HistoryOK'
    BY <1>1, <1>18, <2>1 DEF HistoryOK, FailOperator
  <2> QED
    BY <1>1, <2>1, <2>2, RestSound, OthersKeep
<1> QED
  BY <1>5, <1>6, <1>7, <1>8, <1>9, <1>10, <1>11, <1>12, <1>13, <1>14, <1>15, <1>16, <1>17,
     <1>18

(* A batch without a seller writes a source, and nothing else.             *)
LEMMA StoreSourceSound ==
  ASSUME SoundInv, NEW source \in Bare, StoreSource(source[1], source[2])
  PROVE  SoundInv'
<1>1. TablesOK /\ HistoryOK /\ CountsOK /\ ImportersOK /\ OperatorsOK
  BY SoundParts
<1>2. source[1] \in Sellers \cup {NoSeller} /\ source[2] \in Links
  BY ConstantsAssumption
<1>3. ImportersOK' /\ OperatorsOK'
  BY <1>1, OthersKeep DEF StoreSource, Ingests
<1>4. TablesOK'
  BY <1>1, <1>2 DEF TablesOK, StoreSource
<1>5. HistoryOK' /\ CountsOK'
  BY <1>1, <1>2 DEF HistoryOK, CountsOK, StoreSource, Expose, Ingests
<1> QED
  BY <1>3, <1>4, <1>5, SoundParts

LEMMA SoundStep ==
  ASSUME SoundInv, [Next]_vars
  PROVE  SoundInv'
<1>1. CASE UNCHANGED vars
  BY <1>1, SoundParts, OthersKeep DEF vars, CountsOK
<1>2. CASE Next
  BY <1>2, StoreSourceSound, ImportStepSound, OperatorStepSound DEF Next
<1> QED
  BY <1>1, <1>2

-----------------------------------------------------------------------------
(* What is written in the name of a decision.                              *)

(* A step of ingestion that leaves the decisions alone.                    *)
NoDecisionWritten == UNCHANGED <<decision, operator, contested, halted>>

(* Nothing new is written in the name of a decision that was not merged.   *)
TouchesMerged ==
  \A d \in Decisions : Orderly(d) /\ ~Touched(d) /\ Touched(d)' => Merged(d)

(* The other importers have decided as before.                             *)
LEMMA DecidedStays ==
  ASSUME NEW r, Decided(r),
         \A d : Merged(d) /\ d \notin contested' => Merged(d)',
         contested \subseteq contested'
  PROVE  Decided(r)'
BY DEF Decided, DecisionAt

LEMMA ImportKeepsTrace ==
  ASSUME SoundInv, TraceInv, NEW i \in Importers, NoDecisionWritten, TouchesMerged,
         \A j \in Importers : j # i => importer'[j] = importer[j],
         Decided(importer'[i])
  PROVE  TraceInv'
<1>1. /\ decision' = decision /\ operator' = operator /\ contested' = contested
      /\ halted' = halted
  BY DEF NoDecisionWritten
<1>2. Alone' /\ (\A d \in Decisions : decision'[d].status = "none" => decision'[d] = Undecided)
  BY <1>1 DEF TraceInv, Alone, Worked
<1>3. \A p \in Operators : Stands(operator[p])'
  BY <1>1 DEF TraceInv, Stands, Expected
<1>4. \A j \in Importers : Decided(importer[j])'
  <2> SUFFICES ASSUME NEW j \in Importers PROVE Decided(importer[j])'
    OBVIOUS
  <2>1. Decided(importer'[j])
    BY DEF TraceInv
  <2> QED
    BY <1>1, <2>1 DEF Decided, DecisionAt, Merged
<1>5. ASSUME NEW d \in Decisions PROVE Traced(d)'
  <2>1. /\ Orderly(d)' <=> Orderly(d)
        /\ Merged(d)' <=> Merged(d)
        /\ Merging(d)' <=> Merging(d)
    BY <1>1 DEF Orderly, Merged, Merging, Working
  <2>2. Traced(d)
    BY DEF TraceInv
  <2> QED
    BY <2>1, <2>2 DEF Traced, TouchesMerged
<1> QED
  BY <1>2, <1>3, <1>4, <1>5 DEF TraceInv

(* A commit that goes on has written nothing more for its decision: it     *)
(* leaves the statement of the decision behind only by writing it.         *)
LEMMA DoneDecided ==
  ASSUME NEW r \in Import, r.pc = "commit", Decided(r),
         r.kind # "none" => r.at # DecisionAt(r)
  PROVE  Decided(Done(r))
<1>1. CASE r.at < Len(Statements(r))
  <2> DEFINE n == [r EXCEPT !.at = @ + 1]
  <2>1. /\ n.pc = r.pc /\ n.batch = r.batch /\ n.decision = r.decision
        /\ n.kind = r.kind /\ n.seen = r.seen /\ n.at = r.at + 1
    BY DEF Import
  <2>2. r.at \in Nat /\ DecisionAt(r) \in Nat /\ DecisionAt(n) = DecisionAt(r)
    BY <2>1, DecidesInside DEF Import, DecisionAt
  <2> HIDE DEF n
  <2>3. Decided(n)
    BY <2>1, <2>2 DEF Decided
  <2> QED
    BY <1>1, <2>3 DEF Done, n
<1>2. CASE ~(r.at < Len(Statements(r)))
  BY <1>2, WaitingSound DEF Done, Import, Decided
<1> QED
  BY <1>1, <1>2

LEMMA FindKeepsTrace ==
  ASSUME SoundInv, TraceInv, NEW i \in Importers, NEW b \in Batches, Find(i, b)
  PROVE  TraceInv'
<1>1. /\ importer'[i].pc = "look" \/ importer'[i] = [Waiting(b) EXCEPT !.pc = "commit"]
      /\ \A j \in Importers : j # i => importer'[j] = importer[j]
  BY SoundParts, FindSound
<1>2. Decided(importer'[i])
  <2>1. CASE importer'[i].pc = "look"
    BY <2>1 DEF Decided
  <2>2. CASE importer'[i] = [Waiting(b) EXCEPT !.pc = "commit"]
    BY <2>2 DEF Waiting, Decided
  <2> QED
    BY <1>1, <2>1, <2>2
<1>3. NoDecisionWritten /\ TouchesMerged
  BY DEF Find, Ingests, NoDecisionWritten, TouchesMerged, Touched, tables, history
<1> QED
  BY <1>1, <1>2, <1>3, ImportKeepsTrace

LEMMA LookUpKeepsTrace ==
  ASSUME SoundInv, TraceInv, NEW i \in Importers, LookUp(i)
  PROVE  TraceInv'
<1> DEFINE r == importer[i]
           n == LookedUp(r)
<1>1. importer'[i] = n /\ \A j \in Importers : j # i => importer'[j] = importer[j]
  BY SoundParts, LookUpSound
<1>2. r \in Import /\ r.pc = "look" /\ r.at = 1
  BY DEF SoundInv, TypeOK, LookUp, ImportSound
<1>3. /\ n.seen = decision[r.decision].status /\ n.decision = r.decision /\ n.at = 1
      /\ n.batch \in Batches
  BY <1>2 DEF LookedUp, Import
<1>4. Decided(n)
  <2> HIDE DEF n
  <2>1. DecisionAt(n) \in Nat /\ DecisionAt(n) >= 2
    BY <1>3, DecidesInside
  <2> QED
    BY <1>3, <2>1 DEF Decided, Merged
<1>5. NoDecisionWritten /\ TouchesMerged
  BY DEF LookUp, Ingests, NoDecisionWritten, TouchesMerged, Touched, tables, history
<1> QED
  BY <1>1, <1>4, <1>5, ImportKeepsTrace

(* The statements of a commit but that of the decision.                    *)
LEMMA WriteKeepsTrace ==
  ASSUME SoundInv, TraceInv, NEW i \in Importers, NEW do, Due(i, do), do # "decision",
         Onward(i), NoDecisionWritten, TouchesMerged
  PROVE  TraceInv'
<1> DEFINE r == importer[i]
<1>1. /\ r \in Import /\ r.pc = "commit"
      /\ r.kind # "none" => r.at # DecisionAt(r)
  BY SoundParts, DueSound
<1>2. /\ importer'[i] = Done(r)
      /\ \A j \in Importers : j # i => importer'[j] = importer[j]
  BY <1>1, SoundParts, OnwardSound
<1>3. Decided(Done(r))
  BY <1>1, DoneDecided DEF TraceInv
<1> QED
  BY <1>2, <1>3, ImportKeepsTrace

LEMMA WriteDecisionKeepsTrace ==
  ASSUME SoundInv, TraceInv, NEW i \in Importers, WriteDecision(i)
  PROVE  TraceInv'
<1> DEFINE r == importer[i]
           d == r.decision
           first == FirstStatus(r.kind)
<1>1. /\ r \in Import /\ ImportSound(r) /\ r.pc = "commit" /\ r.kind # "none"
      /\ r.at = DecisionAt(r) /\ Aimed(r)
  BY SoundParts, DueSound DEF WriteDecision
<1>2. d \in Decisions /\ r.kind \in Kinds \ {"none"} /\ r.seen = "none"
  BY <1>1 DEF Aimed, Import, ImportSound
<1>3. first # "none" /\ (r.kind = "auto_merge" => first = "merged")
  BY <1>2 DEF FirstStatus, Kinds
<1>4. /\ operator' = operator /\ halted' = halted /\ redirect' = redirect /\ audit' = audit
      /\ contested' = IF decision[d].status \in {"none", first} THEN contested
                      ELSE contested \cup {d}
      /\ decision' = [decision EXCEPT ![d] =
           IF @ = Undecided THEN [status |-> first, action |-> r.kind] ELSE @]
  BY DEF WriteDecision, Ingests
<1> HIDE DEF first
<1>5. /\ decision[d].status = "none" => decision'[d] = [status |-> first, action |-> r.kind]
      /\ decision[d].status # "none" => decision'[d] = decision[d]
      /\ \A e \in Decisions : e # d => decision'[e] = decision[e]
  <2>1. decision[d].status = "none" <=> decision[d] = Undecided
    BY <1>2 DEF TraceInv, Undecided
  <2>2. decision \in [Decisions -> Decision]
    BY DEF SoundInv, TypeOK
  <2> QED
    BY <1>2, <1>4, <2>1, <2>2
<1>6. /\ \A e \in Decisions : decision[e].status # "none" => decision'[e] = decision[e]
      /\ contested \subseteq contested'
  BY <1>4, <1>5
<1>7. Alone'
  BY <1>4, <1>6 DEF TraceInv, Alone, Worked
<1>8. \A e \in Decisions : decision'[e].status = "none" => decision'[e] = Undecided
  BY <1>3, <1>5 DEF TraceInv
<1>9. ASSUME NEW p \in Operators PROVE Stands(operator[p])'
  <2>1. Stands(operator[p]) /\ (operator[p].pc # "idle" => operator[p].decision \in Decisions)
    BY SoundParts, OperatorHere DEF TraceInv
  <2> QED
    BY <1>4, <1>6, <2>1 DEF Stands, Expected
<1>10. \A e \in Decisions : Merged(e) => Merged(e)'
  BY <1>6 DEF Merged
<1>11. ASSUME NEW j \in Importers PROVE Decided(importer[j])'
  <2>1. /\ importer'[i] = Done(r)
        /\ \A k \in Importers : k # i => importer'[k] = importer[k]
    BY <1>1, SoundParts, OnwardSound DEF WriteDecision
  <2>2. CASE j # i
    <3>1. importer'[j] = importer[j] /\ Decided(importer[j])
      BY <2>1, <2>2 DEF TraceInv
    <3>2. importer[j].pc = "commit" /\ (importer[j].seen = "merged" \/ importer[j].kind = "auto_merge")
            => importer[j].decision \in Decisions
      BY SoundParts DEF ImportersOK, ImportSound, Aimed
    <3> QED
      BY <1>6, <1>10, <3>1, <3>2 DEF Decided, DecisionAt
  <2>3. CASE j = i /\ r.at < Len(Statements(r))
    <3>1. /\ importer'[j].decision = d /\ importer'[j].seen = "none"
          /\ importer'[j].kind = r.kind
      BY <1>1, <1>2, <2>1, <2>3 DEF Done, Import
    <3>2. r.kind = "auto_merge" => d \in contested' \/ decision'[d].status = "merged"
      BY <1>3, <1>4, <1>5
    <3> QED
      BY <3>1, <3>2 DEF Decided, Merged
  <2>4. CASE j = i /\ ~(r.at < Len(Statements(r)))
    <3>1. importer'[j].pc = "idle"
      BY <1>1, <2>1, <2>4, WaitingSound DEF Done, Import
    <3> QED
      BY <3>1 DEF Decided
  <2> QED
    BY <2>2, <2>3, <2>4
<1>12. ASSUME NEW e \in Decisions PROVE Traced(e)'
  <2>1. /\ Orderly(e)' => Orderly(e)
        /\ Touched(e)' <=> Touched(e)
        /\ Merging(e)' <=> Merging(e)
    BY <1>4, <1>6 DEF Orderly, Touched, Merging, Working
  <2>2. Traced(e)
    BY DEF TraceInv
  <2> QED
    BY <1>10, <2>1, <2>2 DEF Traced
<1> QED
  BY <1>7, <1>8, <1>9, <1>11, <1>12 DEF TraceInv

(* The seller and its links, the redirect, the audits, the review.         *)
LEMMA WritesKeepTrace ==
  ASSUME SoundInv, TraceInv, NEW i \in Importers,
         WriteSeller(i) \/ WriteLink(i) \/ WriteRedirect(i) \/ WriteAudit(i) \/ WriteReview(i)
  PROVE  TraceInv'
<1> DEFINE r == importer[i]
           d == r.decision
<1>1. NoDecisionWritten /\ Onward(i)
  BY DEF NoDecisionWritten, Ingests, WriteSeller, WriteLink, WriteRedirect, WriteAudit,
         WriteReview, history
<1>2. CASE WriteSeller(i) \/ WriteLink(i) \/ WriteReview(i)
  <2>1. TouchesMerged
    BY <1>2 DEF WriteSeller, WriteLink, WriteReview, TouchesMerged, Touched
  <2>2. PICK do : Due(i, do) /\ do # "decision"
    BY <1>2 DEF WriteSeller, WriteLink, WriteReview
  <2> QED
    BY <1>1, <2>1, <2>2, WriteKeepsTrace
<1>3. CASE WriteRedirect(i)
  <2>1. /\ r \in Import /\ ImportSound(r) /\ r.pc = "commit" /\ Aimed(r)
        /\ r.kind = "auto_merge" /\ r.at > DecisionAt(r) /\ Due(i, "redirect")
    BY <1>3, SoundParts, DueSound DEF WriteRedirect
  <2>2. d \in contested \/ Merged(d)
    BY <2>1 DEF TraceInv, Decided
  <2>3. TouchesMerged
    <3> SUFFICES ASSUME NEW e \in Decisions, Orderly(e), ~Touched(e), Touched(e)' PROVE Merged(e)
      BY DEF TouchesMerged
    <3>1. /\ audit' = audit /\ redirect \in [Sellers -> Redirect]
          /\ redirect' = [redirect EXCEPT ![Seller[r.batch]] =
               [to |-> r.owner, by |-> d, active |-> TRUE]]
      BY <1>3 DEF WriteRedirect, SoundInv, TypeOK
    <3>2. e = d
      BY <3>1, DecisionsOK DEF Touched
    <3> QED
      BY <2>2, <3>2 DEF Orderly
  <2> QED
    BY <1>1, <2>1, <2>3, WriteKeepsTrace
<1>4. CASE WriteAudit(i)
  <2>1. /\ r \in Import /\ ImportSound(r) /\ r.pc = "commit" /\ Aimed(r)
        /\ Remapped(r) /\ (r.kind # "none" => r.at > DecisionAt(r)) /\ Due(i, "audit")
        /\ DueLink(i) \in Links
    BY <1>4, SoundParts, DueSound DEF WriteAudit
  <2>2. r.seen = "merged" \/ (r.kind = "auto_merge" /\ r.at > DecisionAt(r))
    BY <2>1 DEF ImportSound
  <2>3. d \in contested \/ Merged(d)
    BY <2>1, <2>2 DEF TraceInv, Decided
  <2>4. TouchesMerged
    <3> SUFFICES ASSUME NEW e \in Decisions, Orderly(e), ~Touched(e), Touched(e)' PROVE Merged(e)
      BY DEF TouchesMerged
    <3>1. /\ redirect' = redirect
          /\ audit \in [Decisions -> [Links -> {"none", "open", "rolled_back"}]]
          /\ audit' = [audit EXCEPT ![d][DueLink(i)] = Audited(@)]
      BY <1>4 DEF WriteAudit, SoundInv, TypeOK
    <3>2. d \in Decisions
      BY <2>1 DEF Aimed
    <3>3. e = d
      BY <2>1, <3>1, <3>2, AuditOne DEF Touched
    <3> QED
      BY <2>3, <3>3 DEF Orderly
  <2> QED
    BY <1>1, <2>1, <2>4, WriteKeepsTrace
<1> QED
  BY <1>2, <1>3, <1>4

LEMMA FailImportKeepsTrace ==
  ASSUME SoundInv, TraceInv, NEW i \in Importers, FailImport(i)
  PROVE  TraceInv'
<1> DEFINE r == importer[i]
<1>1. r.batch \in Batches /\ importer \in [Importers -> Import]
  BY DEF SoundInv, TypeOK, Import
<1>2. /\ importer'[i] = Waiting(r.batch)
      /\ \A j \in Importers : j # i => importer'[j] = importer[j]
  BY <1>1 DEF FailImport, Importing
<1>3. Decided(importer'[i])
  BY <1>1, <1>2, WaitingSound DEF Decided
<1>4. NoDecisionWritten /\ TouchesMerged
  BY DEF FailImport, Ingests, NoDecisionWritten, TouchesMerged, Touched, tables
<1> QED
  BY <1>2, <1>3, <1>4, ImportKeepsTrace

(* The points at which a merge may have written something.                 *)
MergePoints == {"audit", "move", "redirect", "decide"}

(* A request of the operator between two statements of its action.         *)
LEMMA MidwayKeepsTrace ==
  ASSUME SoundInv, TraceInv, NEW p \in Operators, NEW points, Steps(p, points),
         UNCHANGED <<importer, decision, contested, halted>>,
         operator[p].pc # "idle",
         \A point \in points : /\ point # "idle"
                               /\ point \in {"review", "log"} <=> operator[p].pc \in {"review", "log"}
                               /\ operator[p].pc \in MergePoints => point \in MergePoints,
         \A e \in Decisions : ~Touched(e) /\ Touched(e)' =>
           Working(p, e, "merge") /\ operator[p].pc \in MergePoints
  PROVE  TraceInv'
<1>1. /\ importer' = importer /\ decision' = decision /\ contested' = contested
      /\ halted' = halted
  OBVIOUS
<1>2. /\ operator'[p].decision = operator[p].decision
      /\ operator'[p].action = operator[p].action
      /\ operator'[p].pc # "idle"
      /\ operator'[p].pc \in {"review", "log"} <=> operator[p].pc \in {"review", "log"}
      /\ operator[p].pc \in MergePoints => operator'[p].pc \in MergePoints
      /\ \A q \in Operators : q # p => operator'[q] = operator[q]
  BY DEF Steps
<1>3. Alone' /\ \A e \in Decisions : decision'[e].status = "none" => decision'[e] = Undecided
  BY <1>1, <1>2 DEF TraceInv, Alone, Worked
<1>4. ASSUME NEW q \in Operators PROVE Stands(operator[q])'
  <2>1. Stands(operator[q])
    BY DEF TraceInv
  <2>2. CASE q = p
    BY <1>1, <1>2, <2>1, <2>2 DEF Stands, Expected
  <2>3. CASE q # p
    BY <1>1, <1>2, <2>1, <2>3 DEF Stands, Expected
  <2> QED
    BY <2>2, <2>3
<1>5. ASSUME NEW i \in Importers PROVE Decided(importer[i])'
  <2>1. Decided(importer[i])
    BY DEF TraceInv
  <2> QED
    BY <1>1, <2>1 DEF Decided, DecisionAt, Merged
<1>6. ASSUME NEW e \in Decisions PROVE Traced(e)'
  <2>1. (Orderly(e)' <=> Orderly(e)) /\ (Merged(e)' <=> Merged(e))
    BY <1>1 DEF Orderly, Merged
  <2>2. ASSUME NEW q \in Operators, Working(q, e, "merge"), operator[q].pc \in MergePoints
        PROVE  Merging(e)'
    <3>1. /\ operator'[q].pc # "idle" /\ operator'[q].decision = e
          /\ operator'[q].action = "merge" /\ operator'[q].pc \in MergePoints
      BY <1>2, <2>2 DEF Working
    <3> QED
      BY <3>1 DEF Merging, Working, MergePoints
  <2>3. Merging(e) => Merging(e)'
    BY <2>2 DEF Merging, MergePoints
  <2>4. CASE ~Touched(e) /\ Touched(e)'
    BY <2>2, <2>4 DEF Traced
  <2>5. CASE Touched(e)' => Touched(e)
    BY <2>1, <2>3, <2>5 DEF TraceInv, Traced
  <2> QED
    BY <2>4, <2>5
<1> QED
  BY <1>3, <1>4, <1>5, <1>6 DEF TraceInv

LEMMA StatementKeepsTrace ==
  ASSUME SoundInv, TraceInv, NEW p \in Operators,
         \/ List(p) \/ Audit(p) \/ Move(p) \/ AddRedirect(p) \/ ResolveReview(p)
         \/ Recall(p) \/ Restore(p) \/ Activate(p) \/ CloseAudits(p) \/ EndRedirect(p)
  PROVE  TraceInv'
<1> DEFINE r == operator[p]
<1>1. UNCHANGED <<importer, decision, contested, halted>>
  BY DEF Operates, List, Audit, Move, AddRedirect, ResolveReview, Recall, Restore, Activate,
         CloseAudits, EndRedirect, tables, history
<1>2. OperatorsOK
  BY SoundParts
<1>3. CASE List(p) \/ Recall(p)
  <2>1. \A e \in Decisions : Touched(e)' <=> Touched(e)
    BY <1>3 DEF List, Recall, tables, Touched
  <2>2. CASE List(p)
    <3>1. r.pc = "list" /\ Steps(p, {"list", "audit", "move"})
      BY <1>2, <2>2, ListSound DEF List, At
    <3> QED
      BY <1>1, <2>1, <3>1, MidwayKeepsTrace DEF MergePoints
  <2>3. CASE Recall(p)
    <3>1. r.pc = "recall" /\ Steps(p, {"restore", "reopen", "activate"})
      BY <1>2, <2>3, RecallSound DEF Recall, At
    <3> QED
      BY <1>1, <2>1, <3>1, MidwayKeepsTrace DEF MergePoints
  <2> QED
    BY <1>3, <2>2, <2>3
<1>4. CASE Audit(p)
  <2>1. r.pc = "audit" /\ r.action = "merge" /\ Steps(p, {"audit", "move"})
    BY <1>2, <1>4, AuditSound DEF Audit, At
  <2>2. PICK l \in r.links \ r.done : audit' = [audit EXCEPT ![r.decision][l] = Audited(@)]
    BY <1>4 DEF Audit
  <2>3. /\ r.decision \in Decisions /\ l \in Links
        /\ audit \in [Decisions -> [Links -> {"none", "open", "rolled_back"}]]
    BY <1>2, <2>1, OperatorHere DEF OperatorRequest, SoundInv, TypeOK
  <2>4. \A e \in Decisions : ~Touched(e) /\ Touched(e)' => e = r.decision
    <3>1. redirect' = redirect
      BY <1>4 DEF Audit
    <3> QED
      BY <2>2, <2>3, <3>1, AuditOne DEF Touched
  <2> QED
    BY <1>1, <2>1, <2>4, MidwayKeepsTrace DEF MergePoints, Working
<1>5. CASE Move(p)
  <2>1. r.pc = "move" /\ Steps(p, {"move", "redirect"})
    BY <1>2, <1>5, MoveSound DEF Move, At
  <2>2. \A e \in Decisions : Touched(e)' <=> Touched(e)
    BY <1>5 DEF Move, Touched
  <2> QED
    BY <1>1, <2>1, <2>2, MidwayKeepsTrace DEF MergePoints
<1>6. CASE AddRedirect(p)
  <2>1. r.pc = "redirect" /\ r.action = "merge" /\ Steps(p, {"decide"})
    BY <1>2, <1>6, GoesSound
  <2>2. \A e \in Decisions : ~Touched(e) /\ Touched(e)' => e = r.decision
    <3>1. /\ audit' = audit /\ redirect \in [Sellers -> Redirect]
          /\ redirect' = [redirect EXCEPT ![Candidate(r.decision)] =
               [to |-> Matched(r.decision), by |-> r.decision, active |-> TRUE]]
      BY <1>6 DEF AddRedirect, SoundInv, TypeOK
    <3> QED
      BY <3>1, DecisionsOK DEF Touched
  <2> QED
    BY <1>1, <2>1, <2>2, MidwayKeepsTrace DEF MergePoints, Working
<1>7. CASE ResolveReview(p)
  <2>1. r.pc = "review" /\ Steps(p, {"log"})
    BY <1>2, <1>7, GoesSound
  <2>2. \A e \in Decisions : Touched(e)' <=> Touched(e)
    BY <1>7 DEF ResolveReview, Touched
  <2> QED
    BY <1>1, <2>1, <2>2, MidwayKeepsTrace DEF MergePoints
<1>8. CASE Restore(p)
  <2>1. r.pc \in {"restore", "restore_rest"}
        /\ Steps(p, {"restore", "restore_rest", "reopen", "activate"})
    BY <1>2, <1>8, RestoreSound DEF Restore, At
  <2>2. \A e \in Decisions : Touched(e)' <=> Touched(e)
    BY <1>8 DEF Restore, Touched
  <2> QED
    BY <1>1, <2>1, <2>2, MidwayKeepsTrace DEF MergePoints
<1>9. CASE Activate(p)
  <2>1. r.pc \in {"reopen", "activate"} /\ Steps(p, {"activate", "restore_rest", "close"})
    BY <1>2, <1>9, GoesSound DEF Steps
  <2>2. \A e \in Decisions : Touched(e)' <=> Touched(e)
    BY <1>9 DEF Activate, Touched
  <2> QED
    BY <1>1, <2>1, <2>2, MidwayKeepsTrace DEF MergePoints
<1>10. CASE CloseAudits(p)
  <2>1. r.pc = "close" /\ Steps(p, {"unredirect"})
    BY <1>2, <1>10, GoesSound
  <2>2. \A e \in Decisions : Touched(e)' => Touched(e)
    <3>1. /\ redirect' = redirect
          /\ audit \in [Decisions -> [Links -> {"none", "open", "rolled_back"}]]
          /\ audit' = [audit EXCEPT ![r.decision] =
               [l \in Links |-> IF @[l] = "open" THEN "rolled_back" ELSE @[l]]]
      BY <1>10 DEF CloseAudits, SoundInv, TypeOK
    <3>2. \A e \in Decisions : \A l \in Links : audit'[e][l] # "none" => audit[e][l] # "none"
      BY <3>1
    <3> QED
      BY <3>1, <3>2 DEF Touched
  <2> QED
    BY <1>1, <2>1, <2>2, MidwayKeepsTrace DEF MergePoints
<1>11. CASE EndRedirect(p)
  <2>1. r.pc = "unredirect" /\ Steps(p, {"decide"})
    BY <1>2, <1>11, GoesSound
  <2>2. \A e \in Decisions : Touched(e)' => Touched(e)
    <3>1. /\ audit' = audit /\ redirect \in [Sellers -> Redirect]
          /\ redirect' = [s \in Sellers |->
               IF redirect[s].by = r.decision THEN [redirect[s] EXCEPT !.active = FALSE]
               ELSE redirect[s]]
      BY <1>11 DEF EndRedirect, SoundInv, TypeOK
    <3>2. \A s \in Sellers : redirect'[s].by = redirect[s].by
      BY <3>1 DEF Redirect
    <3> QED
      BY <3>1, <3>2, DecisionsOK DEF Touched
  <2> QED
    BY <1>1, <2>1, <2>2, MidwayKeepsTrace DEF MergePoints
<1> QED
  BY <1>3, <1>4, <1>5, <1>6, <1>7, <1>8, <1>9, <1>10, <1>11

LEMMA DecideKeepsTrace ==
  ASSUME SoundInv, TraceInv, NEW p \in Operators, Decide(p)
  PROVE  TraceInv'
<1> PICK d, action : d = operator[p].decision /\ action = operator[p].action
  OBVIOUS
<1>1. OperatorsOK /\ operator[p].pc = "decide" /\ Steps(p, {"review"})
  BY SoundParts, GoesSound
<1>2. /\ operator'[p].pc = "review" /\ operator'[p].decision = d /\ operator'[p].action = action
      /\ \A q \in Operators : q # p => operator'[q] = operator[q]
  BY <1>1 DEF Steps
<1>3. d \in Decisions /\ action \in Actions
  BY <1>1, OperatorHere
<1>4. /\ decision' = [decision EXCEPT ![d].status = Expected(action)]
      /\ UNCHANGED <<importer, audit, redirect, contested, halted>>
  BY DEF Decide, Operates, history
<1>5. Expected(action) # "none"
      /\ (action = "rollback" => Expected(action) = "rolled_back")
      /\ (action = "merge" => Expected(action) = "merged")
  BY <1>3 DEF Expected, Actions
<1>6. /\ decision'[d].status = Expected(action)
      /\ \A e \in Decisions : e # d => decision'[e] = decision[e]
  BY <1>3, <1>4 DEF SoundInv, TypeOK, Decision
<1>7. d \notin contested =>
        decision[d].status = IF action = "rollback" THEN "merged" ELSE "pending"
  BY <1>1 DEF TraceInv, Stands
<1>8. \A q \in Operators : q # p /\ Worked(q, d) => d \in contested
  BY <1>1, <1>3 DEF TraceInv, Alone, Worked
<1>9. Alone' /\ \A e \in Decisions : decision'[e].status = "none" => decision'[e] = Undecided
  BY <1>1, <1>2, <1>4, <1>5, <1>6 DEF TraceInv, Alone, Worked
<1>10. ASSUME NEW q \in Operators PROVE Stands(operator[q])'
  <2>1. CASE q = p
    BY <1>2, <1>5, <1>6, <2>1 DEF Stands, Expected
  <2>2. CASE q # p
    <3>1. operator'[q] = operator[q] /\ Stands(operator[q])
      BY <1>2, <2>2 DEF TraceInv
    <3>2. operator[q].pc # "idle" => operator[q].decision \in Decisions
      BY <1>1, OperatorHere
    <3>3. CASE operator[q].pc # "idle" /\ operator[q].decision = d
      BY <1>4, <1>5, <1>6, <1>8, <2>2, <3>1, <3>3 DEF Stands, Worked
    <3>4. CASE operator[q].pc # "idle" /\ operator[q].decision # d
      BY <1>4, <1>6, <3>1, <3>2, <3>4 DEF Stands, Expected
    <3> QED
      BY <3>1, <3>3, <3>4 DEF Stands
  <2> QED
    BY <2>1, <2>2
<1>11. \A e \in Decisions : Merged(e) /\ e \notin contested => Merged(e)'
  BY <1>5, <1>6, <1>7 DEF Merged
<1>12. ASSUME NEW i \in Importers PROVE Decided(importer[i])'
  <2>1. Decided(importer[i]) /\ importer'[i] = importer[i] /\ contested' = contested
    BY <1>4 DEF TraceInv
  <2>2. importer[i].pc = "commit" /\ (importer[i].seen = "merged" \/ importer[i].kind = "auto_merge")
          => importer[i].decision \in Decisions
    BY SoundParts DEF ImportersOK, ImportSound, Aimed
  <2> QED
    BY <1>11, <2>1, <2>2 DEF Decided, DecisionAt
<1>13. ASSUME NEW e \in Decisions PROVE Traced(e)'
  <2> SUFFICES ASSUME Orderly(e)', Touched(e)' PROVE Merged(e)' \/ Merging(e)'
    BY DEF Traced
  <2>1. Orderly(e) /\ Touched(e) /\ e \notin contested
    BY <1>4 DEF Orderly, Touched
  <2>2. Merged(e) \/ Merging(e)
    BY <2>1 DEF TraceInv, Traced
  <2>3. CASE e = d
    <3>1. ASSUME Merging(e) PROVE action = "merge"
      <4>1. PICK q \in Operators : Working(q, e, "merge")
        BY <3>1 DEF Merging
      <4>2. q = p
        BY <1>8, <2>1, <2>3, <4>1 DEF Working, Worked
      <4> QED
        BY <4>1, <4>2 DEF Working
    <3>2. action = "merge" => decision'[e].status = "merged"
      BY <1>5, <1>6, <2>3
    <3> QED
      BY <1>11, <2>1, <2>2, <3>1, <3>2 DEF Merged
  <2>4. CASE e # d
    <3>1. Merging(e) => Merging(e)'
      <4> SUFFICES ASSUME NEW q \in Operators, Working(q, e, "merge"),
                          operator[q].pc \in {"audit", "move", "redirect", "decide"}
                   PROVE  Merging(e)'
        BY DEF Merging
      <4>1. q # p
        BY <2>4 DEF Working
      <4> QED
        BY <1>2, <4>1 DEF Merging, Working
    <3> QED
      BY <1>11, <2>1, <2>2, <3>1
  <2> QED
    BY <2>3, <2>4
<1> QED
  BY <1>9, <1>10, <1>12, <1>13 DEF TraceInv

LEMMA BeginKeepsTrace ==
  ASSUME SoundInv, TraceInv, NEW p \in Operators, NEW d \in Decisions, NEW action \in Actions,
         Begin(p, d, action)
  PROVE  TraceInv'
<1>1. OperatorsOK
  BY SoundParts
<1>2. /\ operator[p].pc = "idle" /\ operator'[p].pc # "idle" /\ operator'[p].decision = d
      /\ operator'[p].action = action
      /\ operator'[p].pc = "log" => decision[d].status = Expected(action)
      /\ operator'[p].pc # "log" /\ action = "rollback" =>
           operator'[p].pc = "recall" /\ decision[d].status = "merged"
      /\ operator'[p].pc # "log" /\ action # "rollback" =>
           operator'[p].pc \in {"list", "decide"} /\ decision[d].status = "pending"
      /\ \A q \in Operators : q # p => operator'[q] = operator[q]
  BY <1>1, BeginSound
<1>3. /\ contested' = contested \cup Clashing(d)
      /\ UNCHANGED <<importer, decision, audit, redirect, halted>>
  BY DEF Begin, Operates, tables
<1>4. \A q \in Operators : Worked(q, d) => d \in Clashing(d)
  BY <1>1, ClashingOK
<1>5. Alone'
  <2> SUFFICES ASSUME NEW e \in Decisions, e \notin contested', NEW q \in Operators,
                      NEW v \in Operators, Worked(q, e)', Worked(v, e)'
               PROVE  q = v
    BY DEF Alone
  <2>1. \A w \in Operators : w # p /\ Worked(w, e)' => Worked(w, e) /\ e \notin Clashing(d)
    BY <1>2, <1>3 DEF Worked
  <2>2. Worked(p, e)' => e = d
    BY <1>2 DEF Worked
  <2>3. \A w \in Operators : w # p /\ Worked(w, e)' => e # d
    BY <1>4, <2>1
  <2> QED
    BY <1>3, <2>1, <2>2, <2>3 DEF TraceInv, Alone
<1>6. Expected(action) # "none"
  BY DEF Expected, Actions
<1>7. ASSUME NEW q \in Operators PROVE Stands(operator[q])'
  <2>1. CASE q = p
    <3>1. decision'[d].status = decision[d].status /\ decision[d].status # "none"
      BY <1>2, <1>3, <1>6
    <3>2. CASE operator'[p].pc = "log"
      BY <1>2, <2>1, <3>1, <3>2 DEF Stands, Expected
    <3>3. CASE operator'[p].pc # "log" /\ action = "rollback"
      BY <1>2, <2>1, <3>1, <3>3 DEF Stands
    <3>4. CASE operator'[p].pc # "log" /\ action # "rollback"
      BY <1>2, <2>1, <3>1, <3>4 DEF Stands
    <3> QED
      BY <3>2, <3>3, <3>4
  <2>2. CASE q # p
    <3>1. Stands(operator[q]) /\ operator'[q] = operator[q]
      BY <1>2, <2>2 DEF TraceInv
    <3> QED
      BY <1>3, <3>1 DEF Stands, Expected
  <2> QED
    BY <2>1, <2>2
<1>8. ASSUME NEW i \in Importers PROVE Decided(importer[i])'
  <2>1. Decided(importer[i])
    BY DEF TraceInv
  <2> QED
    BY <1>3, <2>1 DEF Decided, DecisionAt, Merged
<1>9. ASSUME NEW e \in Decisions PROVE Traced(e)'
  <2>1. /\ Orderly(e)' => Orderly(e)
        /\ Touched(e)' <=> Touched(e)
        /\ Merged(e)' <=> Merged(e)
    BY <1>3 DEF Orderly, Touched, Merged
  <2>2. Merging(e) => Merging(e)'
    <3> SUFFICES ASSUME NEW q \in Operators, Working(q, e, "merge"),
                        operator[q].pc \in {"audit", "move", "redirect", "decide"}
                 PROVE  Merging(e)'
      BY DEF Merging
    <3>1. operator'[q] = operator[q]
      BY <1>2 DEF Working
    <3> QED
      BY <3>1 DEF Merging, Working
  <2> QED
    BY <2>1, <2>2 DEF TraceInv, Traced
<1> QED
  BY <1>3, <1>5, <1>7, <1>8, <1>9 DEF TraceInv

(* A request that is over, because it is done or has failed.               *)
LEMMA RestKeepsTrace ==
  ASSUME SoundInv, TraceInv, NEW p \in Operators, Log(p) \/ FailOperator(p)
  PROVE  TraceInv'
<1> PICK d : d = operator[p].decision
  OBVIOUS
<1>1. /\ operator'[p].pc = "idle"
      /\ \A q \in Operators : q # p => operator'[q] = operator[q]
  BY SoundParts, RestSound DEF Log, FailOperator
<1>2. /\ UNCHANGED <<importer, decision, audit, redirect, contested>>
      /\ halted \subseteq halted'
      /\ operator[p].pc = "log" \/ d \in halted'
  BY DEF Log, FailOperator, Operates, tables, history, At
<1>3. Alone' /\ \A e \in Decisions : decision'[e].status = "none" => decision'[e] = Undecided
  BY <1>1, <1>2 DEF TraceInv, Alone, Worked
<1>4. ASSUME NEW q \in Operators PROVE Stands(operator[q])'
  <2>1. Stands(operator[q])
    BY DEF TraceInv
  <2> QED
    BY <1>1, <1>2, <2>1 DEF Stands, Expected
<1>5. ASSUME NEW i \in Importers PROVE Decided(importer[i])'
  <2>1. Decided(importer[i])
    BY DEF TraceInv
  <2> QED
    BY <1>2, <2>1 DEF Decided, DecisionAt, Merged
<1>6. ASSUME NEW e \in Decisions PROVE Traced(e)'
  <2> SUFFICES ASSUME Orderly(e)' PROVE Traced(e)'
    BY DEF Traced
  <2>1. /\ Orderly(e) /\ e \notin halted'
        /\ Touched(e)' <=> Touched(e)
        /\ Merged(e)' <=> Merged(e)
    BY <1>2 DEF Orderly, Touched, Merged
  <2>2. Merging(e) => Merging(e)'
    <3> SUFFICES ASSUME NEW q \in Operators, Working(q, e, "merge"),
                        operator[q].pc \in {"audit", "move", "redirect", "decide"}
                 PROVE  Merging(e)'
      BY DEF Merging
    <3>1. q # p
      BY <1>2, <2>1 DEF Working
    <3> QED
      BY <1>1, <3>1 DEF Merging, Working
  <2> QED
    BY <2>1, <2>2 DEF TraceInv, Traced
<1> QED
  BY <1>2, <1>3, <1>4, <1>5, <1>6 DEF TraceInv

LEMMA TraceInit == Init => TraceInv
<1> SUFFICES ASSUME Init PROVE TraceInv
  OBVIOUS
<1>1. \A p \in Operators : operator[p].pc = "idle"
  BY DEF Init, Resting
<1>2. \A i \in Importers : importer[i].pc = "idle"
  BY DEF Init, Waiting
<1>3. ASSUME NEW d \in Decisions PROVE ~Touched(d)
  <2>1. Candidate(d) \in Sellers /\ d # NoDecision
    BY DecisionsOK, ConstantsAssumption DEF Decisions, NoDecision, NoSeller
  <2> QED
    BY <2>1 DEF Init, Touched, NoRedirect
<1> QED
  BY <1>1, <1>2, <1>3 DEF TraceInv, Alone, Worked, Stands, Decided, Traced, Init, Undecided

(* A step that writes nothing in the name of a decision, and nothing a     *)
(* request works with.                                                     *)
LEMMA TraceUnchanged ==
  ASSUME TraceInv,
         UNCHANGED <<decision, audit, redirect, operator, importer, contested, halted>>
  PROVE  TraceInv'
<1>1. Alone' /\ \A e \in Decisions : decision'[e].status = "none" => decision'[e] = Undecided
  BY DEF TraceInv, Alone, Worked
<1>2. ASSUME NEW p \in Operators PROVE Stands(operator[p])'
  <2>1. Stands(operator[p])
    BY DEF TraceInv
  <2> QED
    BY <2>1 DEF Stands, Expected
<1>3. ASSUME NEW i \in Importers PROVE Decided(importer[i])'
  <2>1. Decided(importer[i])
    BY DEF TraceInv
  <2> QED
    BY <2>1 DEF Decided, DecisionAt, Merged
<1>4. ASSUME NEW e \in Decisions PROVE Traced(e)'
  <2>1. Traced(e)
    BY DEF TraceInv
  <2> QED
    BY <2>1 DEF Traced, Orderly, Touched, Merged, Merging, Working
<1> QED
  BY <1>1, <1>2, <1>3, <1>4 DEF TraceInv

LEMMA TraceStep ==
  ASSUME SoundInv, TraceInv, [Next]_vars
  PROVE  TraceInv'
<1>1. CASE UNCHANGED vars \/ \E source \in Bare : StoreSource(source[1], source[2])
  <2>1. UNCHANGED <<decision, audit, redirect, operator, importer, contested, halted>>
    BY <1>1 DEF vars, tables, history, StoreSource, Ingests
  <2> QED
    BY <2>1, TraceUnchanged
<1>2. ASSUME NEW i \in Importers, NEW b \in Batches, Find(i, b) PROVE TraceInv'
  BY <1>2, FindKeepsTrace
<1>3. ASSUME NEW i \in Importers,
             \/ LookUp(i) \/ WriteSeller(i) \/ WriteLink(i) \/ WriteDecision(i)
             \/ WriteRedirect(i) \/ WriteAudit(i) \/ WriteReview(i) \/ FailImport(i)
      PROVE  TraceInv'
  BY <1>3, LookUpKeepsTrace, WriteDecisionKeepsTrace, WritesKeepTrace, FailImportKeepsTrace
<1>4. ASSUME NEW p \in Operators, NEW d \in Decisions, NEW action \in Actions,
             Begin(p, d, action)
      PROVE  TraceInv'
  BY <1>4, BeginKeepsTrace
<1>5. ASSUME NEW p \in Operators,
             \/ List(p) \/ Audit(p) \/ Move(p) \/ AddRedirect(p) \/ Decide(p)
             \/ ResolveReview(p) \/ Log(p)
             \/ Recall(p) \/ Restore(p) \/ Activate(p) \/ CloseAudits(p) \/ EndRedirect(p)
             \/ FailOperator(p)
      PROVE  TraceInv'
  BY <1>5, StatementKeepsTrace, DecideKeepsTrace, RestKeepsTrace
<1> QED
  BY <1>1, <1>2, <1>3, <1>4, <1>5 DEF Next

-----------------------------------------------------------------------------
(* What a seller is hidden for.                                            *)

(* A seller that is hidden was, or has a reason now.                       *)
NewlyHidden ==
  \A s \in Sellers : status'[s] = "merged" =>
    status[s] = "merged" \/ s \in veiled' \/ \E d \in Decisions : Candidate(d) = s /\ Hides(d)'

(* A reason stays one, unless the seller is in view again.                 *)
ReasonsStay ==
  \A d \in Decisions : Hides(d) /\ status'[Candidate(d)] = "merged" =>
    Candidate(d) \in veiled' \/ Hides(d)'

LEMMA HideKeeps ==
  ASSUME HideInv, NewlyHidden, ReasonsStay, veiled \subseteq veiled'
  PROVE  HideInv'
<1> SUFFICES ASSUME NEW s \in Sellers, status'[s] = "merged", s \notin veiled'
             PROVE  \E d \in Decisions : Candidate(d) = s /\ Hides(d)'
  BY DEF HideInv
<1>1. CASE status[s] = "merged"
  <2>1. PICK d \in Decisions : Candidate(d) = s /\ Hides(d)
    BY <1>1 DEF HideInv
  <2> QED
    BY <2>1 DEF ReasonsStay
<1>2. CASE status[s] # "merged"
  BY <1>2 DEF NewlyHidden
<1> QED
  BY <1>1, <1>2

(* A commit that goes on and has not decided yet.                          *)
LEMMA DoneEarly ==
  ASSUME NEW r \in Import, Early(r), r.at # DecisionAt(r)
  PROVE  Early(Done(r)) /\ Done(r).decision = r.decision
<1>1. /\ r.at \in Nat /\ Len(Statements(r)) \in Nat /\ DecisionAt(r) \in Nat
      /\ Len(Statements(r)) >= DecisionAt(r)
  BY DecidesInside DEF Import, Early
<1>2. r.at < Len(Statements(r)) /\ r.at + 1 \in 2..DecisionAt(r)
  BY <1>1 DEF Early
<1>3. Done(r) = [r EXCEPT !.at = @ + 1]
  BY <1>2 DEF Done
<1>4. /\ Done(r).pc = r.pc /\ Done(r).kind = r.kind /\ Done(r).batch = r.batch
      /\ Done(r).decision = r.decision /\ Done(r).at = r.at + 1
  BY <1>3 DEF Import
<1> QED
  BY <1>2, <1>4 DEF Early, DecisionAt

(* What ingestion must not take away: a merge that is decided, and the     *)
(* place of the commit before its decision.                                *)
LEMMA ImportKeepsReasons ==
  ASSUME SoundInv, NEW i \in Importers, UNCHANGED <<operator, halted>>,
         contested \subseteq contested',
         \A j \in Importers : j # i => importer'[j] = importer[j],
         \A d \in Decisions : decision[d].status = "merged" => decision'[d].status = "merged",
         LET r == importer[i]
             d == r.decision
         IN
         Early(r) =>
           \/ Candidate(d) \in veiled' \/ d \in contested' \/ decision'[d].status = "merged"
           \/ Early(importer'[i]) /\ importer'[i].decision = d
  PROVE  ReasonsStay
<1> SUFFICES ASSUME NEW d \in Decisions, Hides(d), Candidate(d) \notin veiled',
                    d \notin contested'
             PROVE  Hides(d)'
  BY DEF ReasonsStay, Hides, Orderly
<1>1. /\ \A p \in Operators : \A action : Working(p, d, action)' <=> Working(p, d, action)
      /\ Restored(d)' <=> Restored(d)
  BY DEF Working, Restored
<1>2. Deciding(d) => Deciding(d)' \/ decision'[d].status = "merged"
  <2> SUFFICES ASSUME NEW j \in Importers, Early(importer[j]), importer[j].decision = d
               PROVE  Deciding(d)' \/ decision'[d].status = "merged"
    BY DEF Deciding
  <2>1. ASSUME Early(importer'[j]), importer'[j].decision = d PROVE Deciding(d)'
    BY <2>1 DEF Deciding, Early, DecisionAt
  <2> QED
    BY <2>1
<1> QED
  BY <1>1, <1>2 DEF Hides, Orderly

LEMMA WriteKeepsHide ==
  ASSUME SoundInv, TraceInv, HideInv, NEW i \in Importers, NEW do, Due(i, do), do # "decision",
         Onward(i), UNCHANGED <<operator, decision, contested, halted>>,
         veiled \subseteq veiled', NewlyHidden
  PROVE  HideInv'
<1> DEFINE r == importer[i]
<1>1. /\ r \in Import /\ r.pc = "commit"
      /\ r.kind # "none" => r.at # DecisionAt(r)
  BY SoundParts, DueSound
<1>2. /\ importer'[i] = Done(r)
      /\ \A j \in Importers : j # i => importer'[j] = importer[j]
  BY <1>1, SoundParts, OnwardSound
<1>3. Early(r) => Early(importer'[i]) /\ importer'[i].decision = r.decision
  BY <1>1, <1>2, DoneEarly DEF Early
<1>4. ReasonsStay
  BY <1>2, <1>3, ImportKeepsReasons
<1> QED
  BY <1>4, HideKeeps

(* A commit hides the seller of its batch for the merge it has found, or   *)
(* the one it is about to decide.                                          *)
LEMMA WriteSellerKeepsHide ==
  ASSUME SoundInv, TraceInv, HideInv, NEW i \in Importers, WriteSeller(i)
  PROVE  HideInv'
<1> PICK r, d : r = importer[i] /\ d = r.decision
  OBVIOUS
<1>1. /\ Due(i, "seller") /\ Onward(i) /\ UNCHANGED <<operator, decision, contested, halted>>
      /\ status' = [status EXCEPT ![Seller[r.batch]] = IF Remapped(r) THEN "merged" ELSE "active"]
      /\ veiled' = IF Remapped(r) /\ Overtaken(d) THEN veiled \cup {Seller[r.batch]} ELSE veiled
  BY DEF WriteSeller, Ingests
<1>2. /\ r \in Import /\ ImportSound(r) /\ r.pc = "commit" /\ r.batch \in Batches /\ r.at = 1
      /\ importer'[i] = Done(r)
  BY <1>1, SoundParts, DueSound, OnwardSound
<1>3. NewlyHidden
  <2> SUFFICES ASSUME NEW s \in Sellers, status'[s] = "merged", status[s] # "merged",
                      s \notin veiled'
               PROVE  \E e \in Decisions : Candidate(e) = s /\ Hides(e)'
    BY DEF NewlyHidden
  <2>1. s = Seller[r.batch] /\ Remapped(r) /\ ~Overtaken(d)
    <3>1. status \in [Sellers -> {"absent", "active", "merged"}]
      BY DEF SoundInv, TypeOK
    <3>2. s = Seller[r.batch] /\ Remapped(r)
      BY <1>1, <3>1
    <3> QED
      BY <1>1, <3>2
  <2>2. d \in Decisions /\ Candidate(d) = s
    BY <1>2, <2>1 DEF ImportSound, Aimed
  <2>3. /\ decision[d].status \in {"none", "merged"}
        /\ ~RollingBack(d) /\ d \notin halted
    BY <2>1 DEF Overtaken
  <2>4. ~Restored(d)'
    BY <1>1, <2>3 DEF Restored, RollingBack, Working
  <2>5. CASE decision[d].status = "merged"
    BY <1>1, <2>2, <2>4, <2>5 DEF Hides
  <2>6. CASE decision[d].status = "none"
    <3>1. CASE r.seen = "merged"
      <4>1. d \in contested
        BY <1>2, <2>6, <3>1 DEF TraceInv, Decided, Merged
      <4> QED
        BY <1>1, <2>2, <4>1 DEF Hides, Orderly
    <3>2. CASE r.kind = "auto_merge"
      <4>1. /\ Len(Statements(r)) \in Nat /\ Len(Statements(r)) >= DecisionAt(r)
            /\ DecisionAt(r) \in Nat /\ DecisionAt(r) >= 2
        BY <1>2, <3>2, DecidesInside
      <4>2. Done(r) = [r EXCEPT !.at = @ + 1]
        BY <1>2, <4>1 DEF Done
      <4>3. /\ Done(r).pc = r.pc /\ Done(r).kind = r.kind /\ Done(r).batch = r.batch
            /\ Done(r).decision = d /\ Done(r).at = 2
        BY <1>2, <4>2 DEF Import
      <4>4. Early(Done(r))
        BY <1>2, <3>2, <4>1, <4>3 DEF Early, DecisionAt
      <4>5. Deciding(d)'
        BY <1>2, <4>3, <4>4 DEF Deciding, Early, DecisionAt
      <4> QED
        BY <2>2, <2>4, <4>5 DEF Hides
    <3> QED
      BY <1>2, <2>1, <3>1, <3>2 DEF ImportSound
  <2> QED
    BY <2>3, <2>5, <2>6
<1>4. veiled \subseteq veiled'
  BY <1>1
<1> QED
  BY <1>1, <1>3, <1>4, WriteKeepsHide

LEMMA WriteDecisionKeepsHide ==
  ASSUME SoundInv, TraceInv, HideInv, NEW i \in Importers, WriteDecision(i)
  PROVE  HideInv'
<1> PICK r, d : r = importer[i] /\ d = r.decision
  OBVIOUS
<1> DEFINE first == FirstStatus(r.kind)
<1>1. /\ r \in Import /\ r.pc = "commit" /\ d \in Decisions
      /\ \A j \in Importers : j # i => importer'[j] = importer[j]
  BY SoundParts, DueSound, OnwardSound DEF WriteDecision, Aimed
<1>2. /\ UNCHANGED <<operator, status, halted, veiled>>
      /\ contested' = IF decision[d].status \in {"none", first} THEN contested
                      ELSE contested \cup {d}
      /\ decision' = [decision EXCEPT ![d] =
           IF @ = Undecided THEN [status |-> first, action |-> r.kind] ELSE @]
  BY DEF WriteDecision, Ingests
<1>3. r.kind = "auto_merge" => first = "merged"
  BY DEF FirstStatus
<1> HIDE DEF first
<1>4. /\ decision[d].status = "none" => decision'[d].status = first
      /\ decision[d].status # "none" => decision'[d] = decision[d]
      /\ \A e \in Decisions : e # d => decision'[e] = decision[e]
  <2>1. decision[d].status = "none" <=> decision[d] = Undecided
    BY <1>1 DEF TraceInv, Undecided
  <2>2. decision \in [Decisions -> Decision]
    BY DEF SoundInv, TypeOK
  <2> QED
    BY <1>1, <1>2, <2>1, <2>2
<1>5. \A e \in Decisions : decision[e].status = "merged" => decision'[e].status = "merged"
  BY <1>4
<1>6. Early(r) => d \in contested' \/ decision'[d].status = "merged"
  BY <1>2, <1>3, <1>4 DEF Early
<1>7. ReasonsStay
  BY <1>1, <1>2, <1>5, <1>6, ImportKeepsReasons
<1>8. NewlyHidden
  BY <1>2 DEF NewlyHidden
<1> QED
  BY <1>2, <1>7, <1>8, HideKeeps

LEMMA FailImportKeepsHide ==
  ASSUME SoundInv, HideInv, NEW i \in Importers, FailImport(i)
  PROVE  HideInv'
<1> PICK r, d : r = importer[i] /\ d = r.decision
  OBVIOUS
<1>1. r \in Import /\ ImportSound(r) /\ importer \in [Importers -> Import]
  BY DEF SoundInv, TypeOK
<1>2. \A j \in Importers : j # i => importer'[j] = importer[j]
  BY <1>1 DEF FailImport, Importing
<1>3. /\ UNCHANGED <<operator, status, decision, contested, halted>>
      /\ veiled' = IF Remapped(r) /\ r.at > 1 THEN veiled \cup {Seller[r.batch]} ELSE veiled
  BY DEF FailImport, Ingests, tables
<1>4. Early(r) => Candidate(d) \in veiled'
  <2> SUFFICES ASSUME Early(r) PROVE Candidate(d) \in veiled'
    OBVIOUS
  <2>1. Remapped(r) /\ Aimed(r)
    BY <1>1 DEF Early, ImportSound
  <2>2. r.at > 1
    BY <1>1 DEF Early, Import
  <2> QED
    BY <1>3, <2>1, <2>2 DEF Aimed
<1>5. ReasonsStay
  BY <1>2, <1>3, <1>4, ImportKeepsReasons
<1>6. NewlyHidden /\ veiled \subseteq veiled'
  BY <1>3 DEF NewlyHidden
<1> QED
  BY <1>5, <1>6, HideKeeps

LEMMA ImportKeepsHide ==
  ASSUME SoundInv, TraceInv, HideInv, NEW i \in Importers,
         \/ \E b \in Batches : Find(i, b)
         \/ LookUp(i) \/ WriteLink(i) \/ WriteRedirect(i) \/ WriteAudit(i) \/ WriteReview(i)
  PROVE  HideInv'
<1>1. /\ UNCHANGED <<operator, status, decision, contested, halted, veiled>>
      /\ NewlyHidden
  BY DEF Find, LookUp, WriteLink, WriteRedirect, WriteAudit, WriteReview, Ingests, tables,
         history, NewlyHidden
<1>2. CASE WriteLink(i) \/ WriteRedirect(i) \/ WriteAudit(i) \/ WriteReview(i)
  <2>1. PICK do : Due(i, do) /\ do # "decision" /\ Onward(i)
    BY <1>2 DEF WriteLink, WriteRedirect, WriteAudit, WriteReview
  <2> QED
    BY <1>1, <2>1, WriteKeepsHide
<1>3. CASE LookUp(i) \/ \E b \in Batches : Find(i, b)
  <2>1. importer[i].pc # "commit"
    BY <1>3 DEF Find, LookUp
  <2>2. \A j \in Importers : j # i => importer'[j] = importer[j]
    BY <1>3, SoundParts, FindSound, LookUpSound
  <2>3. ReasonsStay
    BY <1>1, <2>1, <2>2, ImportKeepsReasons DEF Early
  <2> QED
    BY <1>1, <2>3, HideKeeps
<1> QED
  BY <1>2, <1>3

(* The operator's requests: a merge is a reason as long as it is worked    *)
(* on.                                                                     *)
LEMMA DecidingStays ==
  ASSUME importer' = importer, NEW d
  PROVE  Deciding(d)' <=> Deciding(d)
BY DEF Deciding, Early, DecisionAt

(* The points after a rollback has made the seller active.                 *)
LatePoints == {"close", "unredirect", "decide"}

LEMMA StepKeepsHide ==
  ASSUME SoundInv, HideInv, NEW p \in Operators, NEW points, Steps(p, points),
         operator[p].pc # "idle", "idle" \notin points,
         UNCHANGED <<importer, decision, contested, halted, veiled>>, NewlyHidden,
         operator[p].action = "rollback" /\ operator'[p].pc \in LatePoints =>
           \/ operator[p].pc \in LatePoints
           \/ status'[Candidate(operator[p].decision)] # "merged"
  PROVE  HideInv'
<1>1. /\ operator'[p].pc # "idle" /\ operator'[p].decision = operator[p].decision
      /\ operator'[p].action = operator[p].action
      /\ \A q \in Operators : q # p => operator'[q] = operator[q]
  BY DEF Steps
<1>2. \A q \in Operators : \A d, action : Working(q, d, action)' <=> Working(q, d, action)
  BY <1>1 DEF Working
<1>3. ASSUME NEW d \in Decisions, Restored(d)', status'[Candidate(d)] = "merged"
      PROVE  Restored(d)
  <2>1. PICK q \in Operators : Working(q, d, "rollback")' /\ operator'[q].pc \in LatePoints
    BY <1>3 DEF Restored, LatePoints
  <2>2. Working(q, d, "rollback")
    BY <1>2, <2>1
  <2>3. operator[q].pc \in LatePoints
    BY <1>1, <1>3, <2>1, <2>2 DEF Working
  <2> QED
    BY <2>2, <2>3 DEF Restored, LatePoints
<1>4. ReasonsStay
  BY <1>2, <1>3, DecidingStays DEF ReasonsStay, Hides, Orderly
<1> QED
  BY <1>4, HideKeeps

LEMMA StatementKeepsHide ==
  ASSUME SoundInv, HideInv, NEW p \in Operators,
         \/ List(p) \/ Audit(p) \/ Move(p) \/ AddRedirect(p) \/ ResolveReview(p)
         \/ Recall(p) \/ Restore(p) \/ Activate(p) \/ CloseAudits(p) \/ EndRedirect(p)
  PROVE  HideInv'
<1> DEFINE r == operator[p]
<1>1. UNCHANGED <<importer, decision, contested, halted, veiled>>
  BY DEF Operates, List, Audit, Move, AddRedirect, ResolveReview, Recall, Restore, Activate,
         CloseAudits, EndRedirect, tables, history
<1>2. OperatorsOK
  BY SoundParts
<1>3. status' = status => NewlyHidden
  BY DEF NewlyHidden
<1>4. CASE List(p)
  <2>1. r.pc = "list" /\ Steps(p, {"list", "audit", "move"}) /\ status' = status
    BY <1>2, <1>4, ListSound DEF List, At, tables
  <2> QED
    BY <1>1, <1>3, <2>1, StepKeepsHide DEF Steps, LatePoints
<1>5. CASE Audit(p)
  <2>1. r.pc = "audit" /\ Steps(p, {"audit", "move"}) /\ status' = status
    BY <1>2, <1>5, AuditSound DEF Audit, At
  <2> QED
    BY <1>1, <1>3, <2>1, StepKeepsHide DEF Steps, LatePoints
<1>6. CASE Move(p)
  <2> PICK d : d = r.decision
    OBVIOUS
  <2>1. r.pc = "move" /\ r.action = "merge" /\ d \in Decisions
    BY <1>2, <1>6, OperatorHere DEF Move, At, Actions
  <2>2. Steps(p, {"move", "redirect"})
    BY <1>2, <1>6, MoveSound
  <2>3. Working(p, d, "merge")'
    BY <2>1, <2>2 DEF Working, Steps
  <2>4. Hides(d)'
    BY <2>3 DEF Hides
  <2>5. NewlyHidden
    <3>1. \/ status' = status
          \/ status' = [status EXCEPT ![Candidate(d)] = "merged"]
      BY <1>6 DEF Move
    <3>2. status \in [Sellers -> {"absent", "active", "merged"}]
      BY DEF SoundInv, TypeOK
    <3> QED
      BY <2>1, <2>4, <3>1, <3>2 DEF NewlyHidden
  <2> QED
    BY <1>1, <2>1, <2>2, <2>5, StepKeepsHide DEF Steps, LatePoints
<1>7. CASE AddRedirect(p)
  <2>1. /\ r.pc = "redirect" /\ r.action = "merge" /\ Steps(p, {"decide"})
        /\ status' = status
    BY <1>2, <1>7, GoesSound DEF AddRedirect
  <2> QED
    BY <1>1, <1>3, <2>1, StepKeepsHide
<1>8. CASE ResolveReview(p)
  <2>1. r.pc = "review" /\ Steps(p, {"log"}) /\ status' = status
    BY <1>2, <1>8, GoesSound DEF ResolveReview
  <2> QED
    BY <1>1, <1>3, <2>1, StepKeepsHide DEF Steps, LatePoints
<1>9. CASE Recall(p)
  <2>1. /\ r.pc = "recall" /\ Steps(p, {"restore", "reopen", "activate"})
        /\ status' = status
    BY <1>2, <1>9, RecallSound DEF Recall, At, tables
  <2> QED
    BY <1>1, <1>3, <2>1, StepKeepsHide DEF Steps, LatePoints
<1>10. CASE Restore(p)
  <2>1. /\ r.pc \in {"restore", "restore_rest"} /\ status' = status
        /\ Steps(p, {"restore", "restore_rest", "reopen", "activate"})
    BY <1>2, <1>10, RestoreSound DEF Restore, At
  <2> QED
    BY <1>1, <1>3, <2>1, StepKeepsHide DEF Steps, LatePoints
<1>11. CASE Activate(p)
  <2>1. /\ r.pc \in {"reopen", "activate"} /\ r.decision \in Decisions
        /\ Steps(p, {"activate", "restore_rest", "close"})
    BY <1>2, <1>11, GoesSound, OperatorHere DEF Steps
  <2>2. /\ status' = [status EXCEPT ![Candidate(r.decision)] = "active"]
        /\ status \in [Sellers -> {"absent", "active", "merged"}]
    BY <1>11 DEF Activate, SoundInv, TypeOK
  <2>3. Candidate(r.decision) \in Sellers
    BY <2>1, DecisionsOK
  <2>4. NewlyHidden /\ status'[Candidate(r.decision)] # "merged"
    BY <2>2, <2>3 DEF NewlyHidden
  <2> QED
    BY <1>1, <2>1, <2>4, StepKeepsHide
<1>12. CASE CloseAudits(p)
  <2>1. r.pc = "close" /\ Steps(p, {"unredirect"}) /\ status' = status
    BY <1>2, <1>12, GoesSound DEF CloseAudits
  <2> QED
    BY <1>1, <1>3, <2>1, StepKeepsHide DEF LatePoints
<1>13. CASE EndRedirect(p)
  <2>1. r.pc = "unredirect" /\ Steps(p, {"decide"}) /\ status' = status
    BY <1>2, <1>13, GoesSound DEF EndRedirect
  <2> QED
    BY <1>1, <1>3, <2>1, StepKeepsHide DEF LatePoints
<1> QED
  BY <1>4, <1>5, <1>6, <1>7, <1>8, <1>9, <1>10, <1>11, <1>12, <1>13

(* A decision that was merged is another one only after its rollback.      *)
LEMMA DecideKeepsHide ==
  ASSUME SoundInv, TraceInv, HideInv, NEW p \in Operators, Decide(p)
  PROVE  HideInv'
<1> PICK d, action : d = operator[p].decision /\ action = operator[p].action
  OBVIOUS
<1>1. OperatorsOK /\ operator[p].pc = "decide" /\ Steps(p, {"review"})
  BY SoundParts, GoesSound
<1>2. /\ operator'[p].pc = "review" /\ operator'[p].decision = d /\ operator'[p].action = action
      /\ \A q \in Operators : q # p => operator'[q] = operator[q]
  BY <1>1 DEF Steps
<1>3. d \in Decisions /\ action \in Actions
  BY <1>1, OperatorHere
<1>4. /\ decision' = [decision EXCEPT ![d].status = Expected(action)]
      /\ UNCHANGED <<importer, status, contested, halted, veiled>>
  BY DEF Decide, Operates, history
<1>5. \A e \in Decisions : e # d => decision'[e] = decision[e]
  BY <1>3, <1>4
<1>6. \A q \in Operators : \A e : Working(q, e, "merge")' <=> Working(q, e, "merge")
  BY <1>1, <1>2 DEF Working
<1>7. \A e : Restored(e)' => Restored(e)
  <2> SUFFICES ASSUME NEW e, NEW q \in Operators, Working(q, e, "rollback")',
                      operator'[q].pc \in LatePoints
               PROVE  Restored(e)
    BY DEF Restored, LatePoints
  <2>1. operator'[q] = operator[q]
    BY <1>2 DEF LatePoints
  <2> QED
    BY <2>1 DEF Restored, Working, LatePoints
<1>8. ASSUME NEW e \in Decisions, Hides(e) PROVE Hides(e)'
  <2>1. CASE ~Orderly(e)
    BY <1>4, <2>1 DEF Hides, Orderly
  <2>2. CASE \E q \in Operators : Working(q, e, "merge")
    BY <1>6, <2>2 DEF Hides
  <2>3. CASE /\ Orderly(e) /\ ~Restored(e)
             /\ decision[e].status = "merged" \/ Deciding(e)
    <3>1. CASE e # d
      BY <1>4, <1>5, <1>7, <2>3, <3>1, DecidingStays DEF Hides
    <3>2. CASE e = d /\ action = "merge"
      BY <1>1, <1>6, <3>2 DEF Hides, Working
    <3>3. CASE e = d /\ action = "rollback"
      BY <1>1, <2>3, <3>3 DEF Restored, Working
    <3>4. CASE e = d /\ action \notin {"merge", "rollback"}
      <4>1. decision[d].status = "pending"
        BY <1>1, <2>3, <3>4 DEF TraceInv, Stands, Orderly
      <4> QED
        BY <1>4, <1>7, <2>3, <3>4, <4>1, DecidingStays DEF Hides
    <3> QED
      BY <3>1, <3>2, <3>3, <3>4
  <2> QED
    BY <1>8, <2>1, <2>2, <2>3 DEF Hides
<1>9. ReasonsStay
  BY <1>8 DEF ReasonsStay
<1>10. NewlyHidden
  BY <1>4 DEF NewlyHidden
<1> QED
  BY <1>4, <1>9, <1>10, HideKeeps

LEMMA BeginKeepsHide ==
  ASSUME SoundInv, HideInv, NEW p \in Operators, NEW d \in Decisions, NEW action \in Actions,
         Begin(p, d, action)
  PROVE  HideInv'
<1>1. /\ operator[p].pc = "idle"
      /\ action = "rollback" => operator'[p].pc \notin LatePoints
      /\ operator'[p].action = action
      /\ \A q \in Operators : q # p => operator'[q] = operator[q]
  BY SoundParts, BeginSound DEF LatePoints
<1>2. /\ contested \subseteq contested'
      /\ UNCHANGED <<importer, status, decision, halted, veiled>>
  BY DEF Begin, Operates, tables
<1>3. \A q \in Operators : \A e : Working(q, e, "merge") => Working(q, e, "merge")'
  BY <1>1 DEF Working
<1>4. \A e : Restored(e)' => Restored(e)
  <2> SUFFICES ASSUME NEW e, NEW q \in Operators, Working(q, e, "rollback")',
                      operator'[q].pc \in LatePoints
               PROVE  Restored(e)
    BY DEF Restored, LatePoints
  <2>1. operator'[q] = operator[q]
    BY <1>1 DEF Working
  <2> QED
    BY <2>1 DEF Restored, Working, LatePoints
<1>5. ReasonsStay
  BY <1>2, <1>3, <1>4, DecidingStays DEF ReasonsStay, Hides, Orderly
<1>6. NewlyHidden
  BY <1>2 DEF NewlyHidden
<1> QED
  BY <1>2, <1>5, <1>6, HideKeeps

(* A merge that is over has been decided, or has failed.                   *)
LEMMA RestKeepsHide ==
  ASSUME SoundInv, TraceInv, HideInv, NEW p \in Operators, Log(p) \/ FailOperator(p)
  PROVE  HideInv'
<1> PICK d : d = operator[p].decision
  OBVIOUS
<1>1. /\ operator'[p].pc = "idle"
      /\ \A q \in Operators : q # p => operator'[q] = operator[q]
  BY SoundParts, RestSound DEF Log, FailOperator
<1>2. /\ UNCHANGED <<importer, status, decision, contested, veiled>>
      /\ halted \subseteq halted'
      /\ operator[p].pc = "log" \/ d \in halted'
  BY DEF Log, FailOperator, Operates, tables, history, At
<1>3. \A q \in Operators : \A e, action :
        q # p /\ Working(q, e, action) => Working(q, e, action)'
  BY <1>1 DEF Working
<1>4. \A e : Restored(e)' => Restored(e)
  <2> SUFFICES ASSUME NEW e, NEW q \in Operators, Working(q, e, "rollback")',
                      operator'[q].pc \in LatePoints
               PROVE  Restored(e)
    BY DEF Restored, LatePoints
  <2>1. operator'[q] = operator[q]
    BY <1>1 DEF Working
  <2> QED
    BY <2>1 DEF Restored, Working, LatePoints
<1>5. ASSUME NEW e \in Decisions, Hides(e), Orderly(e)' PROVE Hides(e)'
  <2>1. Orderly(e) /\ e \notin halted'
    BY <1>2, <1>5 DEF Orderly
  <2>2. CASE Working(p, e, "merge")
    <3>1. e = d /\ operator[p].pc = "log"
      BY <1>2, <2>1, <2>2 DEF Working
    <3>2. decision[e].status = "merged"
      BY <2>1, <2>2, <3>1 DEF TraceInv, Stands, Orderly, Working, Expected
    <3>3. ~Restored(e)
      <4> SUFFICES ASSUME NEW q \in Operators, Working(q, e, "rollback") PROVE FALSE
        BY DEF Restored
      <4>1. q = p
        BY <2>1, <2>2 DEF TraceInv, Alone, Worked, Working, Orderly
      <4> QED
        BY <2>2, <4>1 DEF Working
    <3> QED
      BY <1>2, <1>4, <3>2, <3>3 DEF Hides
  <2>3. CASE \E q \in Operators : q # p /\ Working(q, e, "merge")
    BY <1>3, <2>3 DEF Hides
  <2>4. CASE ~Restored(e) /\ (decision[e].status = "merged" \/ Deciding(e))
    BY <1>2, <1>4, <2>4, DecidingStays DEF Hides
  <2> QED
    BY <1>5, <2>1, <2>2, <2>3, <2>4 DEF Hides
<1>6. ReasonsStay
  BY <1>5 DEF ReasonsStay, Hides
<1>7. NewlyHidden
  BY <1>2 DEF NewlyHidden
<1> QED
  BY <1>2, <1>6, <1>7, HideKeeps

LEMMA HideInit == Init => HideInv
BY DEF Init, HideInv

LEMMA HideStep ==
  ASSUME SoundInv, TraceInv, HideInv, [Next]_vars
  PROVE  HideInv'
<1>1. CASE UNCHANGED vars \/ \E source \in Bare : StoreSource(source[1], source[2])
  <2>1. UNCHANGED <<status, decision, operator, importer, contested, halted, veiled>>
    BY <1>1 DEF vars, tables, history, StoreSource, Ingests
  <2>2. \A d \in Decisions : Hides(d)' <=> Hides(d)
    BY <2>1, DecidingStays DEF Hides, Orderly, Working, Restored
  <2> QED
    BY <2>1, <2>2 DEF HideInv
<1>2. ASSUME NEW i \in Importers,
             \/ \E b \in Batches : Find(i, b)
             \/ LookUp(i) \/ WriteSeller(i) \/ WriteLink(i) \/ WriteDecision(i)
             \/ WriteRedirect(i) \/ WriteAudit(i) \/ WriteReview(i) \/ FailImport(i)
      PROVE  HideInv'
  BY <1>2, ImportKeepsHide, WriteSellerKeepsHide, WriteDecisionKeepsHide, FailImportKeepsHide
<1>3. ASSUME NEW p \in Operators, NEW d \in Decisions, NEW action \in Actions,
             Begin(p, d, action)
      PROVE  HideInv'
  BY <1>3, BeginKeepsHide
<1>4. ASSUME NEW p \in Operators,
             \/ List(p) \/ Audit(p) \/ Move(p) \/ AddRedirect(p) \/ Decide(p)
             \/ ResolveReview(p) \/ Log(p)
             \/ Recall(p) \/ Restore(p) \/ Activate(p) \/ CloseAudits(p) \/ EndRedirect(p)
             \/ FailOperator(p)
      PROVE  HideInv'
  BY <1>4, StatementKeepsHide, DecideKeepsHide, RestKeepsHide
<1> QED
  BY <1>1, <1>2, <1>3, <1>4 DEF Next

-----------------------------------------------------------------------------
(* The theorems.                                                           *)

(* MergeInv holds at all times: what the requests of ingestion and of the  *)
(* operator have read of a decision, what is written in its name, and what *)
(* a seller is hidden for.                                                 *)
THEOREM MergeInvHolds == Spec => []MergeInv
<1>1. Init => MergeInv
  BY SoundInit, TraceInit, HideInit DEF MergeInv
<1>2. MergeInv /\ [Next]_vars => MergeInv'
  BY SoundStep, TraceStep, HideStep DEF MergeInv
<1> QED
  BY <1>1, <1>2, PTL DEF Spec

(* Each row and each request has what the code can write there: a request  *)
(* goes through the statements of its own action only, and a commit stays  *)
(* within its statements.                                                  *)
THEOREM TypeCorrect == Spec => []TypeOK
<1>1. MergeInv => TypeOK
  BY DEF MergeInv, SoundInv
<1> QED
  BY <1>1, MergeInvHolds, PTL

(* A pair that is kept separate, ignored, or too unlike to merge has no    *)
(* audited link and no redirect to its name, unless two requests worked on *)
(* it at once or one failed half way: applyDuplicateDecision and the       *)
(* commit of a batch write these only for a merge.                         *)
THEOREM SeparatePairsUntouched == Spec => []SeparateStaysSeparate
<1>1. MergeInv => SeparateStaysSeparate
  <2> SUFFICES ASSUME MergeInv, NEW d \in Decisions, Orderly(d),
                      decision[d].status \in {"no_merge", "kept_separate", "ignored"}
               PROVE  ~Touched(d)
    BY DEF SeparateStaysSeparate, Orderly, Touched
  <2>1. ~Merged(d)
    BY DEF Merged
  <2>2. ~Merging(d)
    <3> SUFFICES ASSUME NEW p \in Operators, Working(p, d, "merge"),
                        operator[p].pc \in {"audit", "move", "redirect", "decide"}
                 PROVE  FALSE
      BY DEF Merging
    <3>1. decision[d].status = "pending"
      BY DEF MergeInv, TraceInv, Stands, Working, Orderly
    <3> QED
      BY <3>1
  <2> QED
    BY <2>1, <2>2 DEF MergeInv, TraceInv, Traced
<1> QED
  BY <1>1, MergeInvHolds, PTL

(* A seller with the status merged has a decision that says so, or one a   *)
(* request is about to merge, failed over or clashed on, or it was hidden  *)
(* in one of the windows of ingestion: a rollback makes its seller active  *)
(* before it gives up the decision.                                        *)
THEOREM HiddenSellersHaveReason == Spec => []HiddenForAReason
<1>1. MergeInv => HiddenForAReason
  <2> SUFFICES ASSUME MergeInv, NEW s \in Sellers, status[s] = "merged", s \notin veiled
               PROVE  \/ \E d \in Decisions : Candidate(d) = s
                           /\ \/ decision[d].status = "merged" \/ d \in contested \cup halted
                              \/ \E p \in Operators : Working(p, d, "merge")
                      \/ \E i \in Importers : /\ importer[i].pc = "commit"
                                              /\ Seller[importer[i].batch] = s
                                              /\ Remapped(importer[i])
    BY DEF HiddenForAReason
  <2>1. PICK d \in Decisions : Candidate(d) = s /\ Hides(d)
    BY DEF MergeInv, HideInv
  <2>2. CASE Deciding(d)
    <3>1. PICK i \in Importers : Early(importer[i]) /\ importer[i].decision = d
      BY <2>2 DEF Deciding
    <3>2. importer[i].pc = "commit" /\ Remapped(importer[i]) /\ Aimed(importer[i])
      BY <3>1 DEF MergeInv, SoundInv, ImportSound, Early
    <3> QED
      BY <2>1, <3>1, <3>2 DEF Aimed
  <2>3. CASE ~Deciding(d)
    BY <2>1, <2>3 DEF Hides, Orderly
  <2> QED
    BY <2>2, <2>3
<1> QED
  BY <1>1, MergeInvHolds, PTL
=============================================================================
