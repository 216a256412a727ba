--------------------------- MODULE ReadingProofs ---------------------------
(***************************************************************************)
(* Proofs about OciClient and Reading, for any resources, domains, VNICs,  *)
(* services, queries, texts and faults.                                    *)
(***************************************************************************)
EXTENDS Reading, ChunksProofs, FiniteSetTheorems, WellFoundedInduction

-----------------------------------------------------------------------------
(* The client *)

Steps == {"pages", "domains", "attachments", "vnics", "limits"} \cup Ended

CallType ==
  call \in [op : DOMAIN FirstStep \cup {"none"}, step : Steps,
            todo : Seq(Range(Domains) \cup {Compartment} \cup Vnics),
            got : Seq(Resources \cup Vnics), vnic : Vnics \cup {NoVnic},
            always : SUBSET Resources, ever : SUBSET Resources]

ClientType ==
  /\ CallType
  /\ existing \in SUBSET Resources /\ attached \in SUBSET Vnics
  /\ ads_cache \in {NoCache, Domains}

\* None of the first p VNICs is primary, and the loop has p of them behind it.
NoPrimaryYet(p) ==
  /\ p + Len(call.todo) = Len(call.got)
  /\ \A k \in 1 .. p : call.got[k] \notin Primary
  /\ \A k \in DOMAIN call.todo : call.todo[k] = call.got[p + k]
  /\ \A k \in DOMAIN call.got : call.got[k] \in Vnics
  /\ call.vnic = IF p = 0 THEN NoVnic ELSE call.got[1]

PrimaryFound ==
  /\ call.todo = <<>> /\ call.vnic \in Primary
  /\ \E k \in DOMAIN call.got : call.vnic = call.got[k]

\* What get_ip_info's loop has chosen so far.
LoopInv ==
  /\ call.step = "vnics" => call.op = "vnics"
  /\ call.op = "vnics" => call.step \in {"attachments", "vnics", "done", "failed", "raised"}
  /\ call.step = "attachments" => call.op = "vnics" /\ call.vnic = NoVnic
  /\ call.step = "done" => call.todo = <<>>
  /\ call.op = "vnics" /\ call.step \in {"vnics", "done"} =>
       PrimaryFound \/ \E p \in Nat : NoPrimaryYet(p)

ClientInv == ClientType /\ LoopInv

\* Sequences of the elements of a set have the elements of the set.
LEMMA SeqsOfSet ==
  ASSUME NEW S, IsFiniteSet(S)
  PROVE  SetToSeq(S) \in Seq(S) /\ \A s \in SetToSeqs(S) : s \in Seq(S)
<1>1. Cardinality(S) \in Nat /\ ExistsBijection(1 .. Cardinality(S), S)
  BY FS_CardinalityType
<1>2. \E f \in [1 .. Cardinality(S) -> S] : IsInjective(f)
  BY <1>1 DEF ExistsBijection, Bijection, Injection, IsInjective
<1>3. SetToSeq(S) \in [1 .. Cardinality(S) -> S]
  BY <1>2 DEF SetToSeq
<1>4. \A s \in SetToSeqs(S) : s \in [1 .. Cardinality(S) -> S]
  BY DEF SetToSeqs
<1>5. \A s \in [1 .. Cardinality(S) -> S] : s \in Seq(S)
  BY <1>1
<1> QED BY <1>3, <1>4, <1>5

LEMMA Finite ==
  ASSUME ClientType
  PROVE  /\ \A d : Within(d) \in SUBSET Resources /\ IsFiniteSet(Within(d))
         /\ IsFiniteSet(attached)
<1>1. \A d : Within(d) \in SUBSET Resources
  BY DEF Within, ClientType
<1>2. IsFiniteSet(Resources) /\ IsFiniteSet(Vnics)
  BY FiniteAssumption
<1>3. \A T : T \in SUBSET Resources => IsFiniteSet(T)
  BY <1>2, FS_Subset
<1>4. IsFiniteSet(attached)
  BY <1>2, FS_Subset DEF ClientType
<1> QED BY <1>1, <1>3, <1>4

LEMMA ClientInvInit == ASSUME ClientInit PROVE ClientInv
BY DEF ClientInit, ClientInv, ClientType, CallType, LoopInv, NoCall, Steps, Ended, FirstStep

LEMMA BeginKeeps == ASSUME ClientInv, NEW op \in DOMAIN FirstStep, Begin(op) PROVE ClientInv'
<1>1. /\ call' \in [op : DOMAIN FirstStep, step : {FirstStep[op]}, todo : {<<>>, <<Compartment>>},
                    got : {<<>>}, vnic : {NoVnic}, always : {existing}, ever : {existing}]
      /\ call'.op = op /\ call'.step = FirstStep[op]
      /\ existing' = existing /\ attached' = attached /\ ads_cache' = ads_cache
  BY DEF Begin, NoCall, ociVars
<1>2. FirstStep[op] \in {"pages", "domains", "attachments", "limits"}
      /\ (op = "vnics" => FirstStep[op] = "attachments")
  BY DEF FirstStep
<1>3. ClientType'
  <2>1. /\ <<Compartment>> \in Seq(Range(Domains) \cup {Compartment} \cup Vnics)
        /\ <<>> \in Seq(Range(Domains) \cup {Compartment} \cup Vnics)
        /\ <<>> \in Seq(Resources \cup Vnics)
    OBVIOUS
  <2>2. FirstStep[op] \in Steps
    BY <1>2 DEF Steps
  <2>3. existing \in SUBSET Resources /\ attached \in SUBSET Vnics /\ ads_cache \in {NoCache, Domains}
    BY DEF ClientInv, ClientType
  <2>4. CallType'
    BY <1>1, <2>1, <2>2, <2>3 DEF CallType
  <2> QED BY <1>1, <2>3, <2>4 DEF ClientType
<1>4. LoopInv'
  <2>1. call'.step \notin {"vnics", "done"} /\ call'.vnic = NoVnic
        /\ (op = "vnics" => call'.step = "attachments") /\ (call'.step = "attachments" => op = "vnics")
    BY <1>1, <1>2 DEF FirstStep
  <2> QED BY <2>1, <1>1 DEF LoopInv
<1> QED BY <1>3, <1>4 DEF ClientInv

LEMMA TakenKeeps == ASSUME ClientInv, Taken PROVE ClientInv'
BY DEF Taken, ociVars, ClientInv, ClientType, CallType, LoopInv, NoCall, Steps, Ended, FirstStep

\* One page, of a domain or of the compartment (oci_client.py:254-260).
LEMMA GetPageKeeps == ASSUME ClientInv, GetPage PROVE ClientInv'
<1>1. CallType /\ call.step = "pages" /\ call.todo # <<>>
  BY DEF GetPage, ClientInv, ClientType
<1> DEFINE new == SetToSeq(Within(Head(call.todo)))
<1>2. new \in Seq(Resources \cup Vnics)
  <2>1. new \in Seq(Within(Head(call.todo))) /\ Within(Head(call.todo)) \in SUBSET Resources
    BY SeqsOfSet, Finite DEF ClientInv
  <2> HIDE DEF new
  <2> QED BY <2>1
<1>3. call' = [call EXCEPT !.todo = Tail(@), !.got = @ \o new]
      /\ existing' = existing /\ attached' = attached /\ ads_cache' = ads_cache
  BY DEF GetPage, ociVars
<1> HIDE DEF new
<1>4. CallType'
  <2>1. /\ call.todo \in Seq(Range(Domains) \cup {Compartment} \cup Vnics)
        /\ call.got \in Seq(Resources \cup Vnics)
    BY <1>1 DEF CallType
  <2>2. /\ Tail(call.todo) \in Seq(Range(Domains) \cup {Compartment} \cup Vnics)
        /\ call.got \o new \in Seq(Resources \cup Vnics)
    BY <2>1, <1>1, <1>2
  <2>3. call' = [call EXCEPT !.todo = Tail(call.todo), !.got = call.got \o new]
    BY <1>3
  <2> QED BY <1>1, <2>2, <2>3 DEF CallType
<1>5. call'.step = "pages" /\ call'.op = call.op
  BY <1>1, <1>3 DEF CallType
<1>6. call.op # "vnics"
  BY <1>1 DEF ClientInv, LoopInv
<1>7. LoopInv'
  BY <1>5, <1>6 DEF LoopInv
<1> QED BY <1>3, <1>4, <1>7 DEF ClientInv, ClientType

LEMMA GetDomainsKeeps == ASSUME ClientInv, GetDomains PROVE ClientInv'
<1>1. CallType /\ call.step = "domains" /\ call.op # "vnics"
  BY DEF GetDomains, ClientInv, ClientType, LoopInv
<1>2. ads_cache' = Domains
  BY DEF GetDomains, ClientInv, ClientType
<1>3. call' = [call EXCEPT !.step = "pages", !.todo = Domains]
      /\ existing' = existing /\ attached' = attached
  BY <1>2 DEF GetDomains, ociVars
<1>4. Domains \in Seq(Range(Domains) \cup {Compartment} \cup Vnics)
  BY DomainsAssumption
<1>5. CallType'
  BY <1>1, <1>3, <1>4 DEF CallType, Steps
<1>6. call'.step = "pages" /\ call'.op = call.op
  BY <1>1, <1>3 DEF CallType
<1>7. LoopInv'
  BY <1>1, <1>6 DEF LoopInv
<1> QED BY <1>2, <1>3, <1>5, <1>7 DEF ClientInv, ClientType

\* The attachments, before the first get_vnic (oci_client.py:180-188).
LEMMA GetAttachmentsKeeps == ASSUME ClientInv, GetAttachments PROVE ClientInv'
<1>1. CallType /\ call.step = "attachments" /\ attached \in SUBSET Vnics
  BY DEF GetAttachments, ClientInv, ClientType
<1>2. PICK s \in SetToSeqs(attached) : call' = [call EXCEPT !.step = "vnics", !.todo = s, !.got = s]
  BY DEF GetAttachments
<1>3. s \in Seq(attached)
  BY SeqsOfSet, Finite DEF ClientInv
<1>4. s \in Seq(Vnics)
  BY <1>1, <1>3
<1>5. s \in Seq(Range(Domains) \cup {Compartment} \cup Vnics) /\ s \in Seq(Resources \cup Vnics)
      /\ Len(s) \in Nat
  BY <1>4
<1>6. existing' = existing /\ attached' = attached /\ ads_cache' = ads_cache
  BY DEF GetAttachments, ociVars
<1>7. CallType'
  BY <1>1, <1>2, <1>5 DEF CallType, Steps
<1>8. call'.step = "vnics" /\ call'.op = call.op /\ call'.todo = s /\ call'.got = s
      /\ call'.vnic = call.vnic
  BY <1>1, <1>2 DEF CallType
<1>9. call.op = "vnics" /\ call.vnic = NoVnic
  BY <1>1 DEF ClientInv, LoopInv
<1>10. NoPrimaryYet(0)'
  <2>1. \A k \in DOMAIN s : s[k] \in Vnics
    BY <1>4
  <2> QED BY <2>1, <1>5, <1>8, <1>9 DEF NoPrimaryYet
<1>11. LoopInv'
  BY <1>8, <1>9, <1>10 DEF LoopInv
<1> QED BY <1>1, <1>6, <1>7, <1>11 DEF ClientInv, ClientType

\* One VNIC (oci_client.py:192-199).
LEMMA GetVnicKeeps == ASSUME ClientInv, GetVnic PROVE ClientInv'
<1>1. /\ CallType /\ call.step = "vnics" /\ call.op = "vnics" /\ call.todo # <<>>
      /\ Head(call.todo) \in Vnics
  BY DEF GetVnic, ClientInv, ClientType, LoopInv
<1> DEFINE v == Head(call.todo)
           todo == IF v \in Primary THEN <<>> ELSE Tail(call.todo)
           vnic == IF v \in Primary \/ call.vnic = NoVnic THEN v ELSE call.vnic
<1>2. /\ call' = [call EXCEPT !.todo = todo, !.vnic = vnic]
      /\ existing' = existing /\ attached' = attached /\ ads_cache' = ads_cache
  BY DEF GetVnic, ociVars
<1>3. /\ todo \in Seq(Range(Domains) \cup {Compartment} \cup Vnics)
      /\ call.todo \in Seq(Range(Domains) \cup {Compartment} \cup Vnics)
      /\ call.got \in Seq(Resources \cup Vnics)
      /\ vnic \in Vnics \cup {NoVnic}
  BY <1>1 DEF CallType
<1>4. PICK p \in Nat : NoPrimaryYet(p)
  BY <1>1 DEF ClientInv, LoopInv, PrimaryFound
<1>5. /\ call'.todo = todo /\ call'.vnic = vnic /\ call'.got = call.got
      /\ call'.step = "vnics" /\ call'.op = "vnics"
  <2> HIDE DEF todo, vnic
  <2> QED BY <1>1, <1>2 DEF CallType
<1>6. CallType'
  <2> HIDE DEF todo, vnic
  <2> QED BY <1>1, <1>2, <1>3 DEF CallType
<1>7. /\ Len(call.todo) \in Nat /\ Len(call.todo) >= 1 /\ Len(call.got) \in Nat
      /\ p + Len(call.todo) = Len(call.got)
      /\ v = call.todo[1] /\ call.todo[1] = call.got[p + 1] /\ p + 1 \in 1 .. Len(call.got)
  <2>1. Len(call.todo) \in Nat /\ Len(call.todo) >= 1 /\ Len(call.got) \in Nat /\ v = call.todo[1]
        /\ 1 \in DOMAIN call.todo
    BY <1>1, <1>3
  <2> QED BY <2>1, <1>4 DEF NoPrimaryYet
<1>8. CASE v \in Primary
  <2>1. PrimaryFound'
    BY <1>3, <1>5, <1>7, <1>8 DEF PrimaryFound
  <2> QED BY <2>1, <1>1, <1>2, <1>5, <1>6 DEF LoopInv, ClientInv, ClientType
<1>9. CASE v \notin Primary
  <2>1. /\ todo = Tail(call.todo) /\ Len(todo) = Len(call.todo) - 1 /\ Len(todo) \in Nat
        /\ DOMAIN todo = 1 .. Len(todo) /\ DOMAIN call.todo = 1 .. Len(call.todo)
        /\ \A k \in DOMAIN todo : todo[k] = call.todo[k + 1] /\ k + 1 \in DOMAIN call.todo
    BY <1>3, <1>7, <1>9
  <2>2. (p + 1) + Len(todo) = Len(call.got)
    <3> DEFINE left == Len(call.todo)
               all == Len(call.got)
               after == Len(todo)
    <3>1. left \in Nat /\ all \in Nat /\ after \in Nat /\ p + left = all /\ after = left - 1
      BY <2>1, <1>7, Zenon
    <3> HIDE DEF left, all, after
    <3>2. (p + 1) + after = all
      BY <3>1
    <3> QED BY <3>2 DEF after, all
  <2>3. \A k \in DOMAIN todo : todo[k] = call.got[(p + 1) + k]
    <3>1. \A k \in DOMAIN call.todo : call.todo[k] = call.got[p + k]
      BY <1>4 DEF NoPrimaryYet
    <3>2. \A n \in Nat : \A k \in 1 .. n : p + (k + 1) = (p + 1) + k
      OBVIOUS
    <3>3. \A k \in DOMAIN todo : p + (k + 1) = (p + 1) + k
      <4> HIDE DEF todo
      <4> QED BY <3>2, <2>1, Zenon
    <3> HIDE DEF todo
    <3> QED BY <3>1, <3>3, <2>1, Zenon
  <2>4. \A k \in 1 .. p + 1 : call.got[k] \notin Primary
    BY <1>4, <1>7, <1>9 DEF NoPrimaryYet
  <2>5. vnic = call.got[1]
    <3>1. CASE p = 0
      BY <3>1, <1>4, <1>7 DEF NoPrimaryYet
    <3>2. CASE p # 0
      <4>1. call.vnic = call.got[1] /\ 1 \in 1 .. p
        BY <3>2, <1>4 DEF NoPrimaryYet
      <4>2. CASE call.vnic = NoVnic
        <5>1. 1 \in DOMAIN call.got
          BY <1>7, <1>3
        <5> QED BY <5>1, <4>1, <4>2, <1>4, MarkersAssumption DEF NoPrimaryYet
      <4>3. CASE call.vnic # NoVnic
        BY <4>1, <4>3, <1>9
      <4> QED BY <4>2, <4>3
    <3> QED BY <3>1, <3>2
  <2>6. NoPrimaryYet(p + 1)'
    <3>1. \A k \in DOMAIN call.got : call.got[k] \in Vnics
      BY <1>4 DEF NoPrimaryYet
    <3>2. p + 1 # 0
      OBVIOUS
    <3> HIDE DEF todo, vnic
    <3>3. (p + 1) + Len(call'.todo) = Len(call'.got)
      BY <1>5, <2>2, Zenon
    <3>4. \A k \in 1 .. p + 1 : call'.got[k] \notin Primary
      BY <1>5, <2>4, Zenon
    <3>5. \A k \in DOMAIN call'.todo : call'.todo[k] = call'.got[(p + 1) + k]
      BY <1>5, <2>3, Zenon
    <3>6. call'.vnic = IF p + 1 = 0 THEN NoVnic ELSE call'.got[1]
      BY <1>5, <2>5, <3>2, Zenon
    <3>7. \A k \in DOMAIN call'.got : call'.got[k] \in Vnics
      BY <1>5, <3>1, Zenon
    <3> QED BY <3>3, <3>4, <3>5, <3>6, <3>7, Zenon DEF NoPrimaryYet
  <2>7. p + 1 \in Nat
    OBVIOUS
  <2> QED BY <2>6, <2>7, <1>1, <1>2, <1>5, <1>6 DEF LoopInv, ClientInv, ClientType
<1> QED BY <1>8, <1>9

LEMMA ReturnKeeps == ASSUME ClientInv, Return PROVE ClientInv'
<1>1. CallType /\ call.step \in {"pages", "vnics", "limits"} /\ call.todo = <<>>
  BY DEF Return, ClientInv, ClientType
<1>2. call' = [call EXCEPT !.step = "done"]
      /\ existing' = existing /\ attached' = attached /\ ads_cache' = ads_cache
  BY DEF Return, ociVars
<1>3. CallType'
  BY <1>1, <1>2 DEF CallType, Steps, Ended
<1>4. call'.step = "done" /\ call'.op = call.op /\ call'.todo = <<>> /\ call'.got = call.got
      /\ call'.vnic = call.vnic
  BY <1>1, <1>2 DEF CallType
<1>5. call.op = "vnics" => PrimaryFound \/ \E p \in Nat : NoPrimaryYet(p)
  BY <1>1 DEF ClientInv, LoopInv
<1>6. ASSUME call.op = "vnics" PROVE PrimaryFound' \/ \E p \in Nat : NoPrimaryYet(p)'
  <2>1. CASE PrimaryFound
    BY <2>1, <1>4 DEF PrimaryFound
  <2>2. ASSUME NEW p \in Nat, NoPrimaryYet(p) PROVE NoPrimaryYet(p)'
    BY <2>2, <1>1, <1>4 DEF NoPrimaryYet
  <2> QED BY <2>1, <2>2, <1>5, <1>6
<1>7. LoopInv'
  BY <1>4, <1>6 DEF LoopInv
<1> QED BY <1>2, <1>3, <1>7 DEF ClientInv, ClientType

LEMMA FailsKeeps == ASSUME ClientInv, Fails PROVE ClientInv'
<1>1. CallType
  BY DEF ClientInv, ClientType
<1>2. PICK s \in {"failed", "raised"} : call' = [call EXCEPT !.step = s]
  BY DEF Fails
<1>3. existing' = existing /\ attached' = attached /\ ads_cache' = ads_cache
  BY DEF Fails, ociVars
<1>4. CallType'
  BY <1>1, <1>2 DEF CallType, Steps, Ended
<1>5. call'.step = s
  BY <1>1, <1>2 DEF CallType
<1>6. LoopInv'
  BY <1>5 DEF LoopInv
<1> QED BY <1>3, <1>4, <1>6 DEF ClientInv, ClientType

\* What OCI does meanwhile changes no choice already made.
LEMMA OciKeeps == ASSUME ClientInv, ResourcesChange \/ VnicsChange PROVE ClientInv'
<1>1. CallType /\ existing \in SUBSET Resources /\ attached \in SUBSET Vnics
  BY DEF ClientInv, ClientType
<1>2. CASE ResourcesChange
  <2>1. existing' \in SUBSET Resources /\ attached' = attached /\ ads_cache' = ads_cache
    BY <1>1, <1>2 DEF ResourcesChange
  <2>2. \/ call' = call
        \/ call' = [call EXCEPT !.always = call.always \cap existing',
                                !.ever = call.ever \cup existing']
    BY <1>2 DEF ResourcesChange
  <2>3. call.always \cap existing' \in SUBSET Resources /\ call.ever \cup existing' \in SUBSET Resources
    BY <1>1, <2>1 DEF CallType
  <2>4. CallType' /\ call'.op = call.op /\ call'.step = call.step /\ call'.todo = call.todo
        /\ call'.got = call.got /\ call'.vnic = call.vnic
    BY <1>1, <2>2, <2>3 DEF CallType
  <2>5. LoopInv'
    BY <2>4 DEF ClientInv, LoopInv, PrimaryFound, NoPrimaryYet
  <2> QED BY <2>1, <2>4, <2>5 DEF ClientInv, ClientType
<1>3. CASE VnicsChange
  <2>1. attached' \in SUBSET Vnics /\ existing' = existing /\ ads_cache' = ads_cache /\ call' = call
    BY <1>1, <1>3 DEF VnicsChange
  <2> QED BY <2>1 DEF ClientInv, ClientType, CallType, LoopInv, PrimaryFound, NoPrimaryYet
<1> QED BY <1>2, <1>3

LEMMA ClientInvNext == ASSUME ClientInv, [ClientNext]_clientVars PROVE ClientInv'
<1>1. CASE \E op \in DOMAIN FirstStep : Begin(op)
  BY <1>1, BeginKeeps
<1>2. CASE Working
  BY <1>2, GetDomainsKeeps, GetPageKeeps, GetAttachmentsKeeps, GetVnicKeeps, ReturnKeeps, FailsKeeps
  DEF Working
<1>3. CASE Taken
  BY <1>3, TakenKeeps
<1>4. CASE ResourcesChange \/ VnicsChange
  BY <1>4, OciKeeps
<1>5. CASE UNCHANGED clientVars
  BY <1>5 DEF clientVars, ociVars, ClientInv, ClientType, CallType, LoopInv, PrimaryFound, NoPrimaryYet
<1> QED BY <1>1, <1>2, <1>3, <1>4, <1>5 DEF ClientNext

LEMMA ClientAlways == ClientSpec => []ClientInv
BY ClientInvInit, ClientInvNext, PTL DEF ClientSpec

LEMMA InvImpliesPrimaryReported == ASSUME ClientInv PROVE PrimaryReported
<1> SUFFICES ASSUME call.op = "vnics", call.step = "done"
             PROVE  LET primaries == Range(call.got) \cap Primary
                    IN IF call.got = <<>> THEN call.vnic = NoVnic
                       ELSE IF primaries = {} THEN call.vnic = call.got[1]
                       ELSE call.vnic \in primaries
  BY DEF PrimaryReported
<1>1. call.got \in Seq(Resources \cup Vnics) /\ Len(call.got) \in Nat /\ call.todo = <<>>
  BY DEF ClientInv, ClientType, CallType, LoopInv
<1>2. CASE PrimaryFound
  <2>1. call.vnic \in Range(call.got) \cap Primary
    BY <1>2 DEF PrimaryFound, Range
  <2>2. call.got # <<>>
    BY <1>2 DEF PrimaryFound
  <2> QED BY <2>1, <2>2
<1>3. CASE \E p \in Nat : NoPrimaryYet(p)
  <2>1. PICK p \in Nat : NoPrimaryYet(p)
    BY <1>3
  <2>2. p = Len(call.got)
    BY <2>1, <1>1 DEF NoPrimaryYet
  <2>3. Range(call.got) \cap Primary = {}
    BY <2>1, <2>2, <1>1 DEF NoPrimaryYet, Range
  <2>4. p = 0 <=> call.got = <<>>
    BY <2>2, <1>1
  <2> QED BY <2>1, <2>3, <2>4 DEF NoPrimaryYet
<1> QED BY <1>2, <1>3 DEF ClientInv, LoopInv

-----------------------------------------------------------------------------

\* Whatever VNICs an instance has, and whichever come and go meanwhile, the one
\* reported is the primary one of those that were listed, or the first.
THEOREM ClientPrimaryReported == ClientSpec => []PrimaryReported
BY ClientAlways, InvImpliesPrimaryReported, PTL

-----------------------------------------------------------------------------
(* The handler *)

\* Whatever the handler and OCI do, the client is used by its methods only, and
\* the loop of chunk_message runs from its beginning to its end.
LEMMA ReadingStep ==
  ASSUME [ReadingNext]_vars
  PROVE  [ClientNext]_clientVars /\ [ChunksNext]_chunkVars
<1>1. CASE Commands
  <2>1. PICK cmd \in DOMAIN ListOf, q \in Queries \cup {NoQuery} : Command(cmd, q)
    BY <1>1 DEF Commands
  <2>2. ListOf[cmd] \in DOMAIN FirstStep
    BY DEF ListOf, FirstStep
  <2> QED BY <2>1, <2>2 DEF Command, ClientNext, chunkVars
<1>2. CASE ListFails \/ ListReturns \/ ItemReturns
  BY <1>2 DEF ListFails, ListReturns, ItemReturns, ClientNext, chunkVars
<1>3. CASE AskNext
  BY <1>3 DEF AskNext, ClientNext, FirstStep, chunkVars
<1>4. CASE Resolve \/ AllAsked \/ SendChunk \/ EmptyState \/ AllSent
  BY <1>4 DEF Resolve, AllAsked, SendChunk, EmptyState, AllSent, chunkVars
<1>5. CASE Format
  <2>1. PICK t \in Texts : BeginText(t)
    BY <1>5 DEF Format
  <2>2. t \in Text
    BY InputsAssumption
  <2> QED BY <1>5, <2>1, <2>2 DEF Format, ChunksNext
<1>6. CASE SplitText \/ TextSent \/ Leave
  BY <1>6 DEF SplitText, TextSent, Leave, ChunksNext
<1>7. CASE (Working \/ ResourcesChange \/ VnicsChange) /\ UNCHANGED handlerVars
  BY <1>7 DEF ClientNext, handlerVars
<1>8. CASE UNCHANGED vars
  BY <1>8 DEF vars, handlerVars
<1> QED BY <1>1, <1>2, <1>3, <1>4, <1>5, <1>6, <1>7, <1>8 DEF ReadingNext, Handler

THEOREM ReadingImplementsClient == ReadingSpec => ClientSpec
<1>1. ReadingInit => ClientInit
  BY DEF ReadingInit
<1> QED BY <1>1, ReadingStep, PTL DEF ReadingSpec, ClientSpec

\* In the running bot every text sent is split as ChunksSpec says.
THEOREM ReadingImplementsChunks == ReadingSpec => ChunksSpec
<1>1. ReadingInit => ChunksInit
  BY DEF ReadingInit
<1> QED BY <1>1, ReadingStep, PTL DEF ReadingSpec, ChunksSpec

\* So whatever a command answers, no line of it is lost or sent twice.
THEOREM ReadingNothingLost == ReadingSpec => []NothingLost
BY ReadingImplementsChunks, ChunksNothingLost, PTL

\* And whatever attachments change while /public_ip runs, it shows no VNIC but the
\* primary one or the first.
THEOREM ReadingPrimaryReported == ReadingSpec => []PrimaryReported
BY ReadingImplementsClient, ClientPrimaryReported, PTL

-----------------------------------------------------------------------------
(* A row for each target *)

Stages ==
  Over \cup {"idle", "listing", "matched", "asking", "item", "texts", "text", "empty"}

Shape(S, T, F, P) ==
  read \in [cmd : DOMAIN ListOf \cup {"none"}, stage : Stages, q : Query \cup {NoQuery},
            items : Seq(S), fit : F, left : Seq(S), rows : Seq(T), pages : P, sent : Nat]

\* Nothing is known before the list is, and what is asked about is left.
RowInv ==
  /\ \E S, T, F, P : Shape(S, T, F, P)
  /\ read.stage \in {"listing", "matched"} => read.rows = <<>> /\ read.left = <<>>
  /\ read.stage = "item" => read.left # <<>>
  /\ RowForEach

Targets == IF read.cmd = "quota" THEN QUOTA_SERVICES ELSE read.items

Aligned(rows, left, targets) ==
  /\ Len(rows) + Len(left) = Len(targets)
  /\ \A k \in DOMAIN rows : rows[k].of = targets[k]
  /\ \A k \in DOMAIN left : left[k] = targets[Len(rows) + k]

\* One more row, for the first of those left (instances.py:206-210).
LEMMA RowAdded ==
  ASSUME NEW S, NEW T, NEW rows \in Seq(T), NEW left \in Seq(S), NEW targets,
         Aligned(rows, left, targets), left # <<>>,
         NEW row, row.of = Head(left)
  PROVE  Aligned(Append(rows, row), Tail(left), targets)
<1>1. /\ Len(rows) \in Nat /\ Len(left) \in Nat /\ Len(left) >= 1
      /\ DOMAIN rows = 1 .. Len(rows) /\ DOMAIN left = 1 .. Len(left)
  OBVIOUS
<1>2. /\ Len(Append(rows, row)) = Len(rows) + 1 /\ DOMAIN Append(rows, row) = 1 .. Len(rows) + 1
      /\ \A k \in 1 .. Len(rows) : Append(rows, row)[k] = rows[k]
      /\ Append(rows, row)[Len(rows) + 1] = row
  OBVIOUS
<1>3. /\ Len(Tail(left)) = Len(left) - 1 /\ DOMAIN Tail(left) = 1 .. Len(left) - 1
      /\ \A k \in 1 .. Len(left) - 1 : Tail(left)[k] = left[k + 1]
  BY <1>1
<1>4. left[1] = targets[Len(rows) + 1] /\ Head(left) = left[1]
  BY <1>1 DEF Aligned
<1>5. Len(Append(rows, row)) + Len(Tail(left)) = Len(targets)
  <2>1. Len(rows) + Len(left) = Len(targets)
    BY DEF Aligned
  <2> QED BY <2>1, <1>1, <1>2, <1>3
<1>6. \A k \in 1 .. Len(rows) + 1 : Append(rows, row)[k].of = targets[k]
  <2>1. \A k \in 1 .. Len(rows) : rows[k].of = targets[k]
    BY <1>1 DEF Aligned
  <2>2. \A k \in 1 .. Len(rows) + 1 : k \in 1 .. Len(rows) \/ k = Len(rows) + 1
    BY <1>1
  <2> QED BY <2>1, <2>2, <1>2, <1>4
<1>7. \A k \in 1 .. Len(left) - 1 : Tail(left)[k] = targets[(Len(rows) + 1) + k]
  <2> TAKE k \in 1 .. Len(left) - 1
  <2>1. k + 1 \in 1 .. Len(left) /\ Len(rows) + (k + 1) = (Len(rows) + 1) + k
    BY <1>1
  <2>2. left[k + 1] = targets[Len(rows) + (k + 1)]
    BY <2>1, <1>1 DEF Aligned
  <2> QED BY <2>1, <2>2, <1>3
<1> QED BY <1>2, <1>3, <1>5, <1>6, <1>7 DEF Aligned

LEMMA RowForEachAligned ==
  RowForEach <=>
    (read.cmd \in ItemCommands /\ read.stage \in {"asking", "item", "texts", "text"}
       => Aligned(read.rows, read.left, Targets))
BY DEF RowForEach, Aligned, Targets

RowStages == {"asking", "item", "texts", "text"}

\* Steps that neither ask nor learn anything.
LEMMA OnlyMoves ==
  ASSUME RowInv, NEW s \in Stages \ {"listing", "matched"}, NEW p, NEW n \in Nat,
         read' = [read EXCEPT !.stage = s, !.pages = p, !.sent = n],
         s \in RowStages => read.stage \in RowStages,
         s = "item" => read.left # <<>>
  PROVE  RowInv'
<1>1. PICK S, T, F, P : Shape(S, T, F, P)
  BY DEF RowInv
<1>2. Shape(S, T, F, {p})'
  BY <1>1 DEF Shape
<1>3. /\ read'.stage = s /\ read'.cmd = read.cmd /\ read'.items = read.items
      /\ read'.rows = read.rows /\ read'.left = read.left
  BY <1>1 DEF Shape
<1>4. RowForEach'
  BY <1>3 DEF RowInv, RowForEach, RowStages
<1> QED BY <1>2, <1>3, <1>4 DEF RowInv

LEMMA StageMoves ==
  ASSUME RowInv, NEW s \in Stages \ {"listing", "matched"}, read' = [read EXCEPT !.stage = s],
         s \in RowStages => read.stage \in RowStages,
         s = "item" => read.left # <<>>
  PROVE  RowInv'
<1>1. PICK S, T, F, P : Shape(S, T, F, P)
  BY DEF RowInv
<1>2. read.sent \in Nat
  BY <1>1 DEF Shape
<1>3. read' = [read EXCEPT !.stage = s, !.pages = read.pages, !.sent = read.sent]
  BY <1>1 DEF Shape
<1> QED BY <1>2, <1>3, OnlyMoves

LEMMA Afresh ==
  ASSUME NEW cmd \in DOMAIN ListOf \cup {"none"}, NEW s \in {"idle", "listing"},
         NEW q \in Query \cup {NoQuery},
         read' = [Idle EXCEPT !.cmd = cmd, !.stage = s, !.q = q]
  PROVE  RowInv'
<1> DEFINE none == <<>>
<1>1. Shape({}, {}, {none}, {none})'
  <2>1. none \in Seq({}) /\ s \in Stages
    BY DEF Stages
  <2>2. read' = [cmd |-> cmd, stage |-> s, q |-> q, items |-> none, fit |-> none,
                 left |-> none, rows |-> none, pages |-> none, sent |-> 0]
    BY DEF Idle
  <2> HIDE DEF none
  <2> QED BY <2>1, <2>2 DEF Shape
<1>2. read'.stage = s /\ read'.rows = <<>> /\ read'.left = <<>>
  BY DEF Idle
<1>3. RowForEach'
  BY <1>2 DEF RowForEach
<1> QED BY <1>1, <1>2, <1>3 DEF RowInv

\* The list is there (instances.py:161-163, 205, quota.py:60-63).
LEMMA ContinuesKeeps ==
  ASSUME RowInv, read.stage \in {"listing", "matched"},
         NEW R, NEW items \in Seq(R), Continues(items)
  PROVE  RowInv'
<1>1. PICK S, T, F, P : Shape(S, T, F, P)
  BY DEF RowInv
<1>2. read.rows = <<>> /\ read.left = <<>>
  BY DEF RowInv
<1> DEFINE r == [read EXCEPT !.q = NoQuery, !.fit = <<>>, !.items = items]
<1>3. r \in [cmd : DOMAIN ListOf \cup {"none"}, stage : {"listing", "matched"}, q : {NoQuery},
             items : Seq(R), fit : {<<>>}, left : Seq(S), rows : Seq(T), pages : P, sent : Nat]
      /\ r.cmd = read.cmd /\ r.items = items /\ r.rows = <<>> /\ r.left = <<>>
  BY <1>1, <1>2 DEF Shape
<1>4. \/ read.cmd = "quota" /\ read' = [r EXCEPT !.stage = "asking", !.left = QUOTA_SERVICES]
      \/ read.cmd = "public_ip" /\ read' = [r EXCEPT !.stage = "asking", !.left = items]
      \/ read' = [r EXCEPT !.stage = "empty"]
      \/ read.cmd \notin ItemCommands /\ \E p : read' = [r EXCEPT !.stage = "texts", !.pages = p]
  <2>1. read' =
       CASE read.cmd = "quota" -> [r EXCEPT !.stage = "asking", !.left = QUOTA_SERVICES]
         [] read.cmd = "public_ip" /\ items = <<>> -> [r EXCEPT !.stage = "empty"]
         [] read.cmd = "public_ip" /\ items # <<>> -> [r EXCEPT !.stage = "asking", !.left = items]
         [] read.cmd = "instances" -> [r EXCEPT !.stage = "texts", !.pages = Paginate(items)]
         [] OTHER -> [r EXCEPT !.stage = "texts", !.pages = <<items>>]
    BY DEF Continues
  <2> HIDE DEF r
  <2>2. CASE read.cmd = "quota"
    BY <2>1, <2>2
  <2>3. CASE read.cmd = "public_ip"
    BY <2>1, <2>3
  <2>4. CASE read.cmd = "instances"
    BY <2>1, <2>4 DEF ItemCommands
  <2>5. CASE read.cmd \notin {"quota", "public_ip", "instances"}
    BY <2>1, <2>5 DEF ItemCommands
  <2> QED BY <2>2, <2>3, <2>4, <2>5
<1> HIDE DEF r
<1>5. CASE read.cmd = "quota" /\ read' = [r EXCEPT !.stage = "asking", !.left = QUOTA_SERVICES]
  <2>1. QUOTA_SERVICES \in Seq(Range(QUOTA_SERVICES))
    BY InputsAssumption
  <2>2. Shape(R \cup Range(QUOTA_SERVICES), T, {<<>>}, P)'
    <3>1. /\ QUOTA_SERVICES \in Seq(R \cup Range(QUOTA_SERVICES))
          /\ items \in Seq(R \cup Range(QUOTA_SERVICES))
      BY <2>1
    <3>2. r.items \in Seq(R \cup Range(QUOTA_SERVICES)) /\ "asking" \in Stages
      BY <1>3, <3>1 DEF Stages
    <3> QED BY <1>3, <1>5, <3>1, <3>2 DEF Shape
  <2>3. read'.stage = "asking" /\ read'.rows = <<>> /\ read'.left = QUOTA_SERVICES
        /\ read'.cmd = "quota"
    BY <1>3, <1>5
  <2>4. Aligned(<<>>, QUOTA_SERVICES, QUOTA_SERVICES)
    BY <2>1 DEF Aligned
  <2>5. RowForEach'
    BY <2>3, <2>4, RowForEachAligned DEF RowForEach, Aligned
  <2> QED BY <2>2, <2>3, <2>5 DEF RowInv
<1>6. CASE read.cmd = "public_ip" /\ read' = [r EXCEPT !.stage = "asking", !.left = items]
  <2>1. Shape(R, T, {<<>>}, P)'
    BY <1>3, <1>6 DEF Shape, Stages
  <2>2. read'.stage = "asking" /\ read'.rows = <<>> /\ read'.left = items /\ read'.items = items
        /\ read'.cmd = "public_ip"
    BY <1>3, <1>6
  <2>3. Aligned(<<>>, items, items)
    BY DEF Aligned
  <2>4. RowForEach'
    BY <2>2, <2>3 DEF RowForEach, Aligned
  <2> QED BY <2>1, <2>2, <2>4 DEF RowInv
<1>7. CASE read' = [r EXCEPT !.stage = "empty"]
  <2>1. Shape(R \cup S, T, {<<>>}, P)'
    BY <1>3, <1>7 DEF Shape, Stages
  <2>2. read'.stage = "empty"
    BY <1>3, <1>7
  <2> QED BY <2>1, <2>2 DEF RowInv, RowForEach
<1>8. CASE read.cmd \notin ItemCommands /\ \E p : read' = [r EXCEPT !.stage = "texts", !.pages = p]
  <2>1. PICK p : read' = [r EXCEPT !.stage = "texts", !.pages = p]
    BY <1>8
  <2>2. Shape(R \cup S, T, {<<>>}, {p})'
    <3>1. r.items \in Seq(R \cup S) /\ r.left \in Seq(R \cup S) /\ "texts" \in Stages
      BY <1>3 DEF Stages
    <3> QED BY <1>3, <2>1, <3>1 DEF Shape
  <2>3. read'.stage = "texts" /\ read'.cmd \notin ItemCommands
    BY <1>3, <1>8, <2>1
  <2> QED BY <2>2, <2>3 DEF RowInv, RowForEach
<1> QED BY <1>4, <1>5, <1>6, <1>7, <1>8

\* What match returns is one resource.
LEMMA FoundOne ==
  ASSUME NEW q, NEW resources, NEW fit, Match(q, resources, fit).outcome = "found"
  PROVE  \E r : Match(q, resources, fit).candidates = <<r>>
BY DEF Match

LEMMA ResolveKeeps == ASSUME RowInv, Resolve PROVE RowInv'
<1>1. read.stage = "matched"
  BY DEF Resolve
<1>2. CASE Matched.outcome = "found"
  <2>1. PICK r : Matched.candidates = <<r>>
    BY <1>2, FoundOne DEF Matched
  <2>2. <<r>> \in Seq({r})
    OBVIOUS
  <2>3. Continues(<<r>>)
    BY <1>2, <2>1 DEF Resolve
  <2> QED BY <1>1, <2>2, <2>3, ContinuesKeeps
<1>3. CASE Matched.outcome # "found"
  <2>1. \E s \in {"refused", "failed"} : read' = [read EXCEPT !.stage = s]
    BY <1>3 DEF Resolve, Ends
  <2> QED BY <2>1, StageMoves DEF Stages, Over, RowStages
<1> QED BY <1>2, <1>3

LEMMA ListReturnsKeeps == ASSUME RowInv, ClientInv, ListReturns PROVE RowInv'
<1>1. read.stage = "listing" /\ call.got \in Seq(Resources \cup Vnics)
  BY DEF ListReturns, ClientInv, ClientType, CallType
<1>2. CASE read.q = NoQuery
  BY <1>1, <1>2, ContinuesKeeps DEF ListReturns
<1>3. CASE read.q # NoQuery
  <2>1. PICK fit : read' = [read EXCEPT !.stage = "matched", !.items = call.got, !.fit = fit]
    BY <1>3 DEF ListReturns
  <2>2. PICK S, T, F, P : Shape(S, T, F, P)
    BY DEF RowInv
  <2>3. read.rows = <<>> /\ read.left = <<>>
    BY <1>1 DEF RowInv
  <2>4. Shape(S \cup Resources \cup Vnics, T, {fit}, P)'
    <3>1. call.got \in Seq(S \cup Resources \cup Vnics)
      BY <1>1
    <3>2. read.left \in Seq(S \cup Resources \cup Vnics)
      BY <2>3
    <3> QED BY <2>1, <2>2, <3>1, <3>2 DEF Shape, Stages
  <2>5. read'.stage = "matched" /\ read'.rows = <<>> /\ read'.left = <<>>
    BY <2>1, <2>2, <2>3 DEF Shape
  <2> QED BY <2>4, <2>5 DEF RowInv, RowForEach
<1> QED BY <1>2, <1>3

LEMMA ItemReturnsKeeps == ASSUME RowInv, ItemReturns PROVE RowInv'
<1>1. read.stage = "item" /\ read.left # <<>>
  BY DEF ItemReturns, RowInv
<1>2. CASE call.step = "raised"
  <2>1. read' = [read EXCEPT !.stage = "failed"]
    BY <1>2 DEF ItemReturns
  <2> QED BY <2>1, StageMoves DEF Stages, Over, RowStages
<1>3. CASE call.step # "raised"
  <2>1. PICK found : read' = [read EXCEPT !.stage = "asking", !.left = Tail(@),
                                !.rows = Append(@, [of |-> Head(read.left), vnic |-> found])]
    BY <1>3 DEF ItemReturns
  <2>0. PICK row : row = [of |-> Head(read.left), vnic |-> found]
    OBVIOUS
  <2>2. PICK S, T, F, P : Shape(S, T, F, P)
    BY DEF RowInv
  <2>3. read.rows \in Seq(T) /\ read.left \in Seq(S)
    BY <2>2 DEF Shape
  <2>4. row.of = Head(read.left)
    BY <2>0
  <2>5. read' = [read EXCEPT !.stage = "asking", !.left = Tail(read.left),
                             !.rows = Append(read.rows, row)]
    BY <2>0, <2>1
  <2>6. Append(read.rows, row) \in Seq(T \cup {row}) /\ Tail(read.left) \in Seq(S)
    BY <2>3, <1>1
  <2>7. Shape(S, T \cup {row}, F, P)'
    <3> DEFINE rows == Append(read.rows, row)
               left == Tail(read.left)
    <3>1. "asking" \in Stages /\ rows \in Seq(T \cup {row}) /\ left \in Seq(S)
      BY <2>6 DEF Stages
    <3>2. read' = [read EXCEPT !.stage = "asking", !.left = left, !.rows = rows]
      BY <2>5
    <3> HIDE DEF rows, left
    <3> QED BY <2>2, <3>1, <3>2 DEF Shape
  <2>8. /\ read'.stage = "asking" /\ read'.cmd = read.cmd /\ read'.items = read.items
        /\ read'.rows = Append(read.rows, row) /\ read'.left = Tail(read.left)
    BY <2>2, <2>5 DEF Shape
  <2>9. ASSUME read.cmd \in ItemCommands
        PROVE  Aligned(Append(read.rows, row), Tail(read.left), Targets)
    <3>1. Aligned(read.rows, read.left, Targets)
      BY <1>1, <2>9, RowForEachAligned DEF RowInv
    <3> QED BY <3>1, <1>1, <2>3, <2>4, RowAdded
  <2>10. RowForEach'
    BY <2>8, <2>9 DEF RowForEach, Aligned, Targets
  <2> QED BY <2>7, <2>8, <2>10 DEF RowInv
<1> QED BY <1>2, <1>3

LEMMA RowInvStutters == ASSUME RowInv, UNCHANGED read PROVE RowInv'
<1>1. PICK S, T, F, P : Shape(S, T, F, P)
  BY DEF RowInv
<1>2. Shape(S, T, F, P)'
  BY <1>1 DEF Shape
<1> QED BY <1>2 DEF RowInv, RowForEach

LEMMA AskNextKeeps == ASSUME RowInv, AskNext PROVE RowInv'
BY StageMoves DEF AskNext, Stages, RowStages

LEMMA AllAskedKeeps == ASSUME RowInv, AllAsked PROVE RowInv'
<1>1. read.sent \in Nat
  BY DEF RowInv, Shape
<1> DEFINE pages == <<read.rows>>
<1>2. read' = [read EXCEPT !.stage = "texts", !.pages = pages, !.sent = read.sent]
  BY DEF RowInv, Shape, AllAsked
<1>3. read.stage \in RowStages
  BY DEF AllAsked, RowStages
<1>4. "texts" \in Stages \ {"listing", "matched"} /\ "texts" # "item"
  BY DEF Stages
<1> HIDE DEF pages
<1> QED BY <1>1, <1>2, <1>3, <1>4, OnlyMoves

LEMMA SendChunkKeeps == ASSUME RowInv, SendChunk PROVE RowInv'
<1>1. read.sent \in Nat /\ read.stage = "text"
  BY DEF RowInv, Shape, SendChunk
<1>2. CASE read' = [read EXCEPT !.sent = @ + 1]
  <2>1. read' = [read EXCEPT !.stage = "text", !.pages = read.pages, !.sent = read.sent + 1]
    BY <1>1, <1>2 DEF RowInv, Shape
  <2>2. read.sent + 1 \in Nat
    BY <1>1
  <2> QED BY <1>1, <2>1, <2>2, OnlyMoves DEF Stages, RowStages
<1>3. CASE read' = [read EXCEPT !.stage = "failed"]
  BY <1>3, StageMoves DEF Stages, Over, RowStages
<1> QED BY <1>2, <1>3 DEF SendChunk

LEMMA TextSentKeeps == ASSUME RowInv, TextSent PROVE RowInv'
<1> DEFINE pages == Tail(read.pages)
<1>1. read.stage \in RowStages
  BY DEF TextSent, RowStages
<1>2. read' = [read EXCEPT !.stage = "texts", !.pages = pages, !.sent = 0]
  BY DEF TextSent
<1>3. "texts" \in Stages \ {"listing", "matched"} /\ "texts" # "item" /\ 0 \in Nat
  BY DEF Stages
<1> HIDE DEF pages
<1> QED BY <1>1, <1>2, <1>3, OnlyMoves

LEMMA AnswerKeeps ==
  ASSUME RowInv, ListFails \/ Format \/ EmptyState \/ AllSent
  PROVE  RowInv'
<1>1. CASE Format
  BY <1>1, StageMoves DEF Format, Stages, RowStages
<1>2. CASE ListFails \/ EmptyState \/ AllSent
  <2>1. \E s \in Over : read' = [read EXCEPT !.stage = s]
    BY <1>2 DEF ListFails, EmptyState, AllSent, Ends, Over
  <2> QED BY <2>1, StageMoves DEF Stages, Over, RowStages
<1> QED BY <1>1, <1>2

LEMMA CommandKeeps ==
  ASSUME NEW cmd \in DOMAIN ListOf, NEW q \in Queries \cup {NoQuery}, Command(cmd, q)
  PROVE  RowInv'
<1>1. q \in Query \cup {NoQuery}
  BY InputsAssumption
<1>2. read' = [Idle EXCEPT !.cmd = cmd, !.stage = "listing", !.q = q]
  BY DEF Command
<1>3. cmd \in DOMAIN ListOf \cup {"none"} /\ "listing" \in {"idle", "listing"}
  OBVIOUS
<1> QED BY <1>1, <1>2, <1>3, Afresh, ZenonT(30)

LEMMA LeaveKeeps == ASSUME Leave PROVE RowInv'
<1>1. Shape({}, {}, {<<>>}, {<<>>})'
  <2>1. <<>> \in Seq({}) /\ "idle" \in Stages /\ 0 \in Nat
    BY DEF Stages
  <2> QED BY <2>1 DEF Shape, Leave, Idle
<1>2. read'.stage = "idle"
  BY DEF Leave, Idle
<1> QED BY <1>1, <1>2 DEF RowInv, RowForEach

LEMMA RowInvInit == ASSUME ReadingInit PROVE RowInv
<1>1. Shape({}, {}, {<<>>}, {<<>>})
  <2>1. <<>> \in Seq({}) /\ "idle" \in Stages /\ 0 \in Nat
    BY DEF Stages
  <2> QED BY <2>1 DEF Shape, ReadingInit, Idle
<1>2. read.stage = "idle"
  BY DEF ReadingInit, Idle
<1> QED BY <1>1, <1>2 DEF RowInv, RowForEach

LEMMA RowInvNext == ASSUME RowInv, ClientInv, [ReadingNext]_vars PROVE RowInv'
<1>1. CASE Commands
  BY <1>1, CommandKeeps DEF Commands
<1>2. CASE Handler
  BY <1>2, AnswerKeeps, ListReturnsKeeps, ResolveKeeps, AskNextKeeps, ItemReturnsKeeps,
     AllAskedKeeps, SendChunkKeeps, TextSentKeeps, LeaveKeeps, RowInvStutters
  DEF Handler, SplitText
<1>3. CASE UNCHANGED read
  BY <1>3, RowInvStutters
<1> QED BY <1>1, <1>2, <1>3 DEF ReadingNext, vars, handlerVars

\* Whatever list there is and whichever of the calls fail, there is a row for
\* each instance or service, each in its place.
THEOREM ReadingRowForEach == ReadingSpec => []RowForEach
<1>1. RowInv => RowForEach
  BY DEF RowInv
<1>2. ReadingSpec => []ClientInv
  BY ReadingImplementsClient, ClientAlways, PTL
<1> QED BY <1>1, <1>2, RowInvInit, RowInvNext, PTL DEF ReadingSpec

-----------------------------------------------------------------------------
(* The listings *)

Lists == {"list", "volumes"}

Area(d) == {r \in Resources : d = Compartment \/ DomainOf[r] = d}

\* What a call of the SDK asks for is asked for once.
Disjoint(todo) ==
  \A j, k \in DOMAIN todo : j # k => Area(todo[j]) \cap Area(todo[k]) = {}

\* A resource that was there all the time was collected or is still to be asked
\* for, and none is both; what was collected did exist.
Collected(got, todo, always, ever) ==
  /\ IsInjective(got)
  /\ \A k \in DOMAIN got : got[k] \in ever
  /\ \A r \in always : (\E k \in DOMAIN got : got[k] = r) \/ (\E j \in DOMAIN todo : r \in Area(todo[j]))
  /\ \A k \in DOMAIN got, j \in DOMAIN todo : got[k] \notin Area(todo[j])

\* What a list method has collected so far, over the domains it has behind it.
CollectInv ==
  /\ call.op \in Lists => call.step \in {"domains", "pages", "done", "failed", "raised"}
  /\ call.step \in {"domains", "pages"} =>
       call.op \in Lists /\ call.always \subseteq existing /\ existing \subseteq call.ever
  /\ call.step = "domains" => call.got = <<>>
  /\ call.step = "pages" => Disjoint(call.todo)
  /\ call.op \in Lists /\ call.step \in {"pages", "done"} =>
       Collected(call.got, call.todo, call.always, call.ever)

\* A sequence of a finite set without repetitions and of its length has all of it.
LEMMA SeqIsOnto ==
  ASSUME NEW S, IsFiniteSet(S)
  PROVE  /\ SetToSeq(S) \in Seq(S) /\ IsInjective(SetToSeq(S))
         /\ \A r \in S : \E k \in DOMAIN SetToSeq(S) : SetToSeq(S)[k] = r
<1> DEFINE n == Cardinality(S)
<1>1. n \in Nat /\ ExistsBijection(1 .. n, S)
  BY FS_CardinalityType
<1>2. \E f \in [1 .. n -> S] : IsInjective(f)
  BY <1>1 DEF ExistsBijection, Bijection, Injection
<1>3. SetToSeq(S) \in [1 .. n -> S] /\ IsInjective(SetToSeq(S))
  BY <1>2 DEF SetToSeq
<1>4. SetToSeq(S) \in Injection(1 .. n, S)
  BY <1>3 DEF Injection
<1>5. Cardinality(1 .. n) = n
  BY <1>1, FS_Interval
<1>6. SetToSeq(S) \in Surjection(1 .. n, S)
  <2> HIDE DEF n
  <2> QED BY <1>4, <1>5, FS_Injection DEF n
<1>7. DOMAIN SetToSeq(S) = 1 .. n
  BY <1>3
<1> HIDE DEF n
<1> QED BY <1>1, <1>3, <1>6, <1>7, SeqsOfSet DEF Surjection

\* A sequence without repetitions is one of those of its elements.
LEMMA InjectiveIsOne ==
  ASSUME NEW T, NEW s \in Seq(T), IsInjective(s)
  PROVE  s \in SetToSeqs(Range(s))
<1> DEFINE n == Len(s)
<1>1. n \in Nat /\ DOMAIN s = 1 .. n
  OBVIOUS
<1>2. s \in [1 .. n -> Range(s)]
  BY <1>1 DEF Range
<1>3. s \in Bijection(1 .. n, Range(s))
  BY <1>1, <1>2 DEF Bijection, Injection, Surjection, Range
<1>4. Cardinality(Range(s)) = n
  <2>1. ExistsBijection(1 .. n, Range(s))
    BY <1>3 DEF ExistsBijection
  <2> HIDE DEF n
  <2> QED BY <1>1, <2>1, FS_CountingElements
<1>5. \A i, j \in 1 .. n : i # j => s[i] # s[j]
  BY <1>1 DEF IsInjective
<1> HIDE DEF n
<1> QED BY <1>2, <1>4, <1>5 DEF SetToSeqs

LEMMA CollectInvInit == ASSUME ClientInit PROVE CollectInv
BY DEF ClientInit, CollectInv, NoCall, Lists

LEMMA BeginCollects == ASSUME ClientInv, NEW op \in DOMAIN FirstStep, Begin(op) PROVE CollectInv'
<1>1. /\ call'.op = op /\ call'.step = FirstStep[op]
      /\ call'.todo = IF op = "list" THEN <<Compartment>> ELSE <<>>
      /\ call'.got = <<>> /\ call'.always = existing /\ call'.ever = existing
      /\ existing' = existing /\ existing \in SUBSET Resources
  BY DEF Begin, NoCall, ociVars, ClientInv, ClientType
<1>2. /\ op \in Lists <=> FirstStep[op] \in {"domains", "pages"}
      /\ FirstStep[op] = "pages" <=> op = "list"
      /\ FirstStep[op] # "done"
  BY DEF FirstStep, Lists
<1>3. ASSUME op = "list"
      PROVE  Disjoint(call'.todo) /\ Collected(call'.got, call'.todo, call'.always, call'.ever)
  <2>1. call'.todo = <<Compartment>> /\ DOMAIN call'.todo = {1} /\ call'.todo[1] = Compartment
    BY <1>1, <1>3
  <2>2. DOMAIN call'.got = {}
    BY <1>1
  <2>3. \A r \in call'.always : r \in Area(call'.todo[1])
    BY <1>1, <2>1 DEF Area
  <2> QED BY <2>1, <2>2, <2>3 DEF Disjoint, Collected, IsInjective
<1> QED BY <1>1, <1>2, <1>3 DEF CollectInv

\* The domains, from OCI or from the cache (oci_client.py:239-250).
LEMMA GetDomainsCollects == ASSUME ClientInv, CollectInv, GetDomains PROVE CollectInv'
<1>1. CallType /\ call.step = "domains" /\ existing \in SUBSET Resources
  BY DEF GetDomains, ClientInv, ClientType
<1>2. ads_cache' = Domains
  BY DEF GetDomains, ClientInv, ClientType
<1>3. /\ call'.op = call.op /\ call'.step = "pages" /\ call'.todo = Domains /\ call'.got = call.got
      /\ call'.always = call.always /\ call'.ever = call.ever /\ existing' = existing
  BY <1>1, <1>2 DEF GetDomains, ociVars, CallType
<1>4. /\ call.op \in Lists /\ call.got = <<>>
      /\ call.always \subseteq existing /\ existing \subseteq call.ever
  BY <1>1 DEF CollectInv
<1>5. Disjoint(Domains)
  BY DomainsAssumption, MarkersAssumption DEF Disjoint, Area, IsInjective, Range
<1>6. Collected(<<>>, Domains, call.always, call.ever)
  <2>1. ASSUME NEW r \in call.always PROVE \E j \in DOMAIN Domains : r \in Area(Domains[j])
    <3>1. r \in Resources
      BY <1>1, <1>4
    <3>2. PICK j \in DOMAIN Domains : Domains[j] = DomainOf[r]
      BY <3>1, DomainsAssumption DEF Range
    <3> QED BY <3>1, <3>2 DEF Area
  <2> QED BY <2>1 DEF Collected, IsInjective
<1> QED BY <1>3, <1>4, <1>5, <1>6 DEF CollectInv

\* Adding all there is of the first area to what was collected.
LEMMA PageAdded ==
  ASSUME NEW ex \in SUBSET Resources, NEW ever, NEW always,
         always \subseteq ex, ex \subseteq ever,
         NEW got \in Seq(Resources \cup Vnics), NEW T, NEW todo \in Seq(T), todo # <<>>,
         NEW new \in Seq(Resources \cup Vnics), IsInjective(new),
         \A k \in DOMAIN new : new[k] \in ex \cap Area(Head(todo)),
         \A r \in ex \cap Area(Head(todo)) : \E k \in DOMAIN new : new[k] = r,
         Disjoint(todo), Collected(got, todo, always, ever)
  PROVE  Disjoint(Tail(todo)) /\ Collected(got \o new, Tail(todo), always, ever)
<1> DEFINE all == got \o new
           rest == Tail(todo)
           n == Len(got)
           m == Len(new)
<1>1. /\ n \in Nat /\ m \in Nat /\ DOMAIN got = 1 .. n /\ DOMAIN new = 1 .. m
      /\ DOMAIN all = 1 .. n + m
      /\ \A k \in 1 .. n : all[k] = got[k]
      /\ \A k \in 1 .. m : all[n + k] = new[k]
  OBVIOUS
<1>2. /\ \A j \in DOMAIN rest : j + 1 \in DOMAIN todo /\ rest[j] = todo[j + 1] /\ j + 1 # 1
      /\ \A j, k \in DOMAIN rest : j # k => j + 1 # k + 1
      /\ \A j \in DOMAIN todo : j # 1 => j - 1 \in DOMAIN rest /\ rest[j - 1] = todo[j]
      /\ 1 \in DOMAIN todo /\ Head(todo) = todo[1]
  <2>1. /\ Len(todo) \in Nat /\ Len(todo) >= 1 /\ DOMAIN todo = 1 .. Len(todo)
        /\ DOMAIN rest = 1 .. Len(todo) - 1
        /\ \A j \in 1 .. Len(todo) - 1 : rest[j] = todo[j + 1]
    OBVIOUS
  <2> HIDE DEF rest
  <2> QED BY <2>1
<1>3. \A k \in 1 .. n + m : k \in 1 .. n \/ \E i \in 1 .. m : k = n + i
  <2> HIDE DEF n, m
  <2>1. ASSUME NEW k \in 1 .. n + m, k \notin 1 .. n PROVE k - n \in 1 .. m /\ k = n + (k - n)
    BY <1>1, <2>1
  <2> QED BY <2>1
<1> HIDE DEF all, rest, n, m
<1>0. /\ \A k \in 1 .. m : new[k] \in ever /\ new[k] \in Area(todo[1])
      /\ \A i, j \in 1 .. m : new[i] = new[j] => i = j
  BY <1>1, <1>2 DEF IsInjective
<1>4. Disjoint(rest)
  BY <1>2 DEF Disjoint
<1>5. \A k \in 1 .. n : got[k] \notin Area(todo[1])
  BY <1>1, <1>2 DEF Collected
<1>51. /\ \A k \in 1 .. n : all[k] \notin Area(todo[1])
       /\ \A k \in 1 .. m : all[n + k] \in Area(todo[1])
  BY <1>0, <1>1, <1>5
<1>6. IsInjective(all)
  <2> SUFFICES ASSUME NEW a \in 1 .. n + m, NEW b \in 1 .. n + m, all[a] = all[b] PROVE a = b
    BY <1>1 DEF IsInjective
  <2>1. CASE a \in 1 .. n /\ b \in 1 .. n
    BY <1>1, <2>1 DEF Collected, IsInjective
  <2>2. CASE a \in 1 .. n /\ b \notin 1 .. n
    BY <1>3, <1>51, <2>2
  <2>3. CASE a \notin 1 .. n /\ b \in 1 .. n
    BY <1>3, <1>51, <2>3
  <2>4. CASE a \notin 1 .. n /\ b \notin 1 .. n
    <3>1. PICK i \in 1 .. m, j \in 1 .. m : a = n + i /\ b = n + j
      BY <1>3, <2>4
    <3>2. i = j
      <4>1. all[a] = new[i] /\ all[b] = new[j]
        BY <3>1, <1>1
      <4> QED BY <4>1, <1>0, Zenon
    <3> QED BY <3>1, <3>2
  <2> QED BY <2>1, <2>2, <2>3, <2>4
<1>7. \A k \in DOMAIN all : all[k] \in ever
  <2> SUFFICES ASSUME NEW k \in 1 .. n + m PROVE all[k] \in ever
    BY <1>1
  <2>1. CASE k \in 1 .. n
    BY <2>1, <1>1 DEF Collected
  <2>2. CASE \E i \in 1 .. m : k = n + i
    BY <2>2, <1>0, <1>1
  <2> QED BY <2>1, <2>2, <1>3
<1>8. ASSUME NEW r \in always
      PROVE  (\E k \in DOMAIN all : all[k] = r) \/ (\E j \in DOMAIN rest : r \in Area(rest[j]))
  <2>1. CASE \E k \in DOMAIN got : got[k] = r
    <3>1. PICK k \in 1 .. n : got[k] = r
      BY <2>1, <1>1
    <3>2. k \in 1 .. n + m
      BY <1>1
    <3> QED BY <3>1, <3>2, <1>1
  <2>2. CASE r \in Area(todo[1])
    <3>1. PICK k \in 1 .. m : new[k] = r
      BY <2>2, <1>1, <1>2
    <3>2. n + k \in 1 .. n + m
      BY <1>1
    <3> QED BY <3>1, <3>2, <1>1
  <2>3. CASE \E j \in DOMAIN todo : j # 1 /\ r \in Area(todo[j])
    BY <2>3, <1>2
  <2> QED BY <2>1, <2>2, <2>3 DEF Collected
<1>9. ASSUME NEW k \in DOMAIN all, NEW j \in DOMAIN rest PROVE all[k] \notin Area(rest[j])
  <2>1. CASE k \in 1 .. n
    BY <2>1, <1>1, <1>2 DEF Collected
  <2>2. CASE \E i \in 1 .. m : k = n + i
    <3>1. all[k] \in Area(todo[1])
      BY <2>2, <1>51
    <3>2. Area(todo[1]) \cap Area(todo[j + 1]) = {}
      BY <1>2 DEF Disjoint
    <3> QED BY <3>1, <3>2, <1>2
  <2> QED BY <2>1, <2>2, <1>1, <1>3
<1>10. Collected(all, rest, always, ever)
  BY <1>6, <1>7, <1>8, <1>9 DEF Collected
<1> QED BY <1>4, <1>10 DEF all, rest

LEMMA GetPageCollects == ASSUME ClientInv, CollectInv, GetPage PROVE CollectInv'
<1>1. CallType /\ call.step = "pages" /\ call.todo # <<>> /\ existing \in SUBSET Resources
  BY DEF GetPage, ClientInv, ClientType
<1> DEFINE d == Head(call.todo)
           new == SetToSeq(Within(d))
<1>2. Within(d) = existing \cap Area(d)
  BY <1>1 DEF Within, Area
<1>3. IsFiniteSet(Within(d))
  BY Finite DEF ClientInv
<1>4. /\ new \in Seq(Within(d)) /\ IsInjective(new)
      /\ \A r \in Within(d) : \E k \in DOMAIN new : new[k] = r
  BY <1>3, SeqIsOnto
<1>5. /\ call'.op = call.op /\ call'.step = "pages" /\ call'.todo = Tail(call.todo)
      /\ call'.got = call.got \o new /\ call'.always = call.always /\ call'.ever = call.ever
      /\ existing' = existing
  <2>1. call' = [call EXCEPT !.todo = Tail(@), !.got = @ \o new] /\ existing' = existing
    BY DEF GetPage, ociVars
  <2> HIDE DEF new
  <2> QED BY <2>1, <1>1 DEF CallType
<1>6. /\ call.op \in Lists /\ call.always \subseteq existing /\ existing \subseteq call.ever
      /\ Disjoint(call.todo) /\ Collected(call.got, call.todo, call.always, call.ever)
  BY <1>1 DEF CollectInv
<1>7. /\ call.got \in Seq(Resources \cup Vnics)
      /\ call.todo \in Seq(Range(Domains) \cup {Compartment} \cup Vnics)
  BY <1>1 DEF CallType
<1> HIDE DEF new
<1>8. \A k \in DOMAIN new : new[k] \in existing \cap Area(d)
  <2>1. \A k \in DOMAIN new : new[k] \in Within(d)
    <3> HIDE DEF d
    <3> QED BY <1>4
  <2> QED BY <2>1, <1>2
<1>9. new \in Seq(Resources \cup Vnics)
  <2>1. Within(d) \subseteq Resources \cup Vnics
    BY <1>1, <1>2
  <2> HIDE DEF d
  <2> QED BY <1>4, <2>1
<1>10. \A r \in existing \cap Area(d) : \E k \in DOMAIN new : new[k] = r
  BY <1>2, <1>4
<1>11. IsInjective(new)
  BY <1>4
<1>12. Disjoint(Tail(call.todo)) /\ Collected(call.got \o new, Tail(call.todo), call.always, call.ever)
  BY <1>1, <1>6, <1>7, <1>8, <1>9, <1>10, <1>11, PageAdded
<1> QED BY <1>5, <1>6, <1>12 DEF CollectInv

\* Every other step of the client collects nothing.
LEMMA OthersCollect ==
  ASSUME ClientInv, CollectInv, GetAttachments \/ GetVnic \/ Return \/ Fails \/ Taken
  PROVE  CollectInv'
<1>1. CallType /\ existing' = existing
  BY DEF GetAttachments, GetVnic, Return, Fails, Taken, ClientInv, ClientType, ociVars
<1>2. CASE Taken
  BY <1>2 DEF Taken, CollectInv, NoCall, Lists
<1>3. CASE GetAttachments
  <2>1. call'.op = call.op /\ call'.step = "vnics" /\ call.step = "attachments"
    BY <1>1, <1>3 DEF GetAttachments, CallType
  <2> QED BY <2>1 DEF CollectInv
<1>4. CASE GetVnic
  <2>1. call'.op = call.op /\ call'.step = "vnics" /\ call.step = "vnics"
    BY <1>1, <1>4 DEF GetVnic, CallType
  <2> QED BY <2>1 DEF CollectInv
<1>5. CASE Return
  <2>1. /\ call'.op = call.op /\ call'.step = "done" /\ call.step \in {"pages", "vnics", "limits"}
        /\ call'.got = call.got /\ call'.todo = call.todo
        /\ call'.always = call.always /\ call'.ever = call.ever
    BY <1>1, <1>5 DEF Return, CallType
  <2>2. call.op \in Lists => call.step = "pages"
    BY <2>1 DEF CollectInv
  <2> QED BY <2>1, <2>2 DEF CollectInv
<1>6. CASE Fails
  <2>1. call'.op = call.op /\ call'.step \in {"failed", "raised"}
    BY <1>1, <1>6 DEF Fails, CallType
  <2> QED BY <2>1 DEF CollectInv
<1> QED BY <1>2, <1>3, <1>4, <1>5, <1>6

LEMMA ResourcesChangeCollects == ASSUME ClientInv, CollectInv, ResourcesChange PROVE CollectInv'
<1>1. CallType
  BY DEF ClientInv, ClientType
<1>2. CASE call.step \in Ended
  BY <1>2 DEF ResourcesChange, CollectInv, Ended
<1>3. CASE call.step \notin Ended
  <2>1. /\ call'.op = call.op /\ call'.step = call.step /\ call'.got = call.got /\ call'.todo = call.todo
        /\ call'.always = call.always \cap existing' /\ call'.ever = call.ever \cup existing'
    <3>1. call' = [call EXCEPT !.always = @ \cap existing', !.ever = @ \cup existing']
      BY <1>3 DEF ResourcesChange
    <3> QED BY <3>1, <1>1 DEF CallType
  <2>2. Collected(call.got, call.todo, call.always, call.ever) =>
        Collected(call.got, call.todo, call'.always, call'.ever)
    BY <2>1 DEF Collected
  <2>3. call'.always \subseteq existing' /\ existing' \subseteq call'.ever
    BY <2>1
  <2> QED BY <2>1, <2>2, <2>3 DEF CollectInv
<1> QED BY <1>2, <1>3

LEMMA CollectInvNext == ASSUME ClientInv, CollectInv, [ClientNext]_clientVars PROVE CollectInv'
<1>1. CASE \E op \in DOMAIN FirstStep : Begin(op)
  BY <1>1, BeginCollects
<1>2. CASE Working \/ Taken
  BY <1>2, GetDomainsCollects, GetPageCollects, OthersCollect DEF Working
<1>3. CASE ResourcesChange
  BY <1>3, ResourcesChangeCollects
<1>4. CASE VnicsChange \/ UNCHANGED clientVars
  BY <1>4 DEF VnicsChange, clientVars, ociVars, CollectInv
<1> QED BY <1>1, <1>2, <1>3, <1>4 DEF ClientNext

-----------------------------------------------------------------------------
(* ... which make it a ListingService *)

NoneAsked == [state |-> "none", always |-> {}, ever |-> {}, items |-> <<>>]

\* How a call of a list method looks to its caller.
Shows(state, items) ==
  [state |-> state, always |-> call.always, ever |-> call.ever, items |-> items]

LEMMA ListingIs ==
  /\ call.op \notin Lists => Listing = NoneAsked
  /\ call.op \in Lists /\ call.step \in {"domains", "pages"} => Listing = Shows("asked", <<>>)
  /\ call.op \in Lists /\ call.step = "done" => Listing = Shows("answered", call.got)
  /\ call.op \in Lists /\ call.step \in {"failed", "raised"} => Listing = Shows("refused", <<>>)
BY DEF Listing, NoneAsked, Shows, Lists, AbstractState

LEMMA ServiceStep ==
  ASSUME ClientInv, CollectInv, [ClientNext]_clientVars
  PROVE  [Service!ServiceNext]_(Service!serviceVars)
<1>1. CallType /\ existing \in SUBSET Resources
  BY DEF ClientInv, ClientType
<1> SUFFICES \/ Service!ServiceNext
             \/ Listing' = Listing /\ existing' = existing
  BY DEF Service!serviceVars
<1>2. ASSUME NEW op \in DOMAIN FirstStep, Begin(op)
      PROVE  Service!ServiceNext \/ (Listing' = Listing /\ existing' = existing)
  <2>1. /\ call'.op = op /\ call'.step = FirstStep[op] /\ existing' = existing
        /\ call'.always = existing /\ call'.ever = existing
    BY <1>2 DEF Begin, NoCall, ociVars
  <2>2. call.op \notin Lists
    BY <1>2 DEF Begin, CollectInv
  <2>3. Listing = NoneAsked
    BY <2>2, ListingIs
  <2>4. CASE op \in Lists
    <3>1. FirstStep[op] \in {"domains", "pages"}
      BY <2>4 DEF Lists, FirstStep
    <3>2. Listing' = [state |-> "asked", always |-> existing, ever |-> existing, items |-> <<>>]
      BY <2>1, <2>4, <3>1 DEF Listing, Lists, AbstractState
    <3> QED BY <2>1, <2>3, <3>2 DEF Service!ServiceNext, Service!Ask, NoneAsked
  <2>5. CASE op \notin Lists
    <3>1. Listing' = NoneAsked
      BY <2>1, <2>5 DEF Listing, Lists, NoneAsked
    <3> QED BY <2>1, <2>3, <3>1
  <2> QED BY <2>4, <2>5
<1>3. CASE GetDomains \/ GetPage
  <2>1. /\ call.step \in {"domains", "pages"} /\ call'.step = "pages" /\ call'.op = call.op
        /\ call'.always = call.always /\ call'.ever = call.ever /\ existing' = existing
    BY <1>1, <1>3 DEF GetDomains, GetPage, CallType, ociVars
  <2>2. call.op \in Lists
    BY <2>1 DEF CollectInv
  <2>3. Listing' = Listing
    BY <2>1, <2>2 DEF Listing, Lists, AbstractState
  <2> QED BY <2>1, <2>3
<1>4. CASE GetAttachments \/ GetVnic
  <2>1. /\ call.step \in {"attachments", "vnics"} /\ call'.op = call.op /\ existing' = existing
    BY <1>1, <1>4 DEF GetAttachments, GetVnic, CallType, ociVars
  <2>2. call.op \notin Lists
    BY <2>1 DEF CollectInv
  <2>3. Listing' = Listing
    BY <2>1, <2>2 DEF Listing, Lists
  <2> QED BY <2>1, <2>3
<1>5. CASE Return
  <2>1. /\ call.step \in {"pages", "vnics", "limits"} /\ call'.step = "done" /\ call'.op = call.op
        /\ call'.got = call.got /\ call.todo = <<>>
        /\ call'.always = call.always /\ call'.ever = call.ever /\ existing' = existing
    BY <1>1, <1>5 DEF Return, CallType, ociVars
  <2>2. CASE call.op \in Lists
    <3>1. call.step = "pages"
      BY <2>1, <2>2 DEF CollectInv
    <3>2. Collected(call.got, <<>>, call.always, call.ever)
      BY <2>1, <2>2, <3>1 DEF CollectInv
    <3>3. call.got \in SetToSeqs(Range(call.got))
      <4>1. call.got \in Seq(Resources \cup Vnics) /\ IsInjective(call.got)
        BY <1>1, <3>2 DEF CallType, Collected
      <4> QED BY <4>1, InjectiveIsOne
    <3>4. Range(call.got) \in SUBSET call.ever /\ call.always \subseteq Range(call.got)
      BY <3>2 DEF Collected, Range
    <3>5. Listing = Shows("asked", <<>>)
      BY <2>2, <3>1, ListingIs
    <3>6. Listing' = Shows("answered", call.got)
      BY <2>1, <2>2 DEF Listing, Lists, AbstractState, Shows
    <3>7. Service!Answer
      <4>1. /\ Listing.state = "asked" /\ Listing.ever = call.ever /\ Listing.always = call.always
            /\ Listing' = [Listing EXCEPT !.state = "answered", !.items = call.got]
        <5>1. Listing \in [state : {"asked"}, always : {call.always}, ever : {call.ever}, items : {<<>>}]
          BY <3>5 DEF Shows
        <5> DEFINE moved == [Listing EXCEPT !.state = "answered", !.items = call.got]
        <5>2. moved \in [state : {"answered"}, always : {call.always}, ever : {call.ever}, items : {call.got}]
          BY <5>1
        <5>3. Listing.state = "asked" /\ Listing.ever = call.ever /\ Listing.always = call.always
          BY <3>5 DEF Shows
        <5> HIDE DEF moved
        <5>4. moved = Shows("answered", call.got)
          BY <5>2 DEF Shows
        <5> QED BY <3>6, <5>3, <5>4 DEF moved
      <4>2. call.got \in Service!SetToSeqs(Range(call.got))
        BY <3>3, Zenon DEF SetToSeqs, Service!SetToSeqs, Cardinality, Service!Cardinality
      <4> QED BY <2>1, <3>4, <4>1, <4>2 DEF Service!Answer
    <3> QED BY <3>7 DEF Service!ServiceNext
  <2>3. CASE call.op \notin Lists
    <3>1. Listing' = Listing
      BY <2>1, <2>3 DEF Listing, Lists
    <3> QED BY <2>1, <3>1
  <2> QED BY <2>2, <2>3
<1>6. CASE Fails
  <2>1. /\ call'.op = call.op /\ call'.step \in {"failed", "raised"}
        /\ call'.always = call.always /\ call'.ever = call.ever /\ existing' = existing
        /\ call.step \in {"domains", "attachments", "limits", "pages", "vnics"}
    BY <1>1, <1>6 DEF Fails, Asking, Detached, CallType, ociVars
  <2>2. CASE call.op \in Lists
    <3>1. call.step \in {"domains", "pages"}
      BY <2>1, <2>2 DEF CollectInv
    <3>2. Listing = Shows("asked", <<>>)
      BY <2>2, <3>1, ListingIs
    <3>3. Listing' = Shows("refused", <<>>)
      BY <2>1, <2>2 DEF Listing, Lists, AbstractState, Shows
    <3> QED BY <2>1, <3>2, <3>3 DEF Shows, Service!Refuse, Service!ServiceNext
  <2>3. CASE call.op \notin Lists
    <3>1. Listing' = Listing
      BY <2>1, <2>3 DEF Listing, Lists
    <3> QED BY <2>1, <3>1
  <2> QED BY <2>2, <2>3
<1>7. CASE Taken
  <2>1. /\ call.step \in {"done", "failed", "raised"} /\ call'.op = "none" /\ existing' = existing
    BY <1>7 DEF Taken, Ended, NoCall, ociVars
  <2>2. Listing' = NoneAsked
    BY <2>1 DEF Listing, NoneAsked
  <2>3. CASE call.op \in Lists
    <3>1. Listing.state \in {"answered", "refused"}
      BY <2>1, <2>3, ListingIs DEF Shows
    <3> QED BY <2>1, <2>2, <3>1 DEF Service!Forget, Service!NoListing, Service!ServiceNext, NoneAsked
  <2>4. CASE call.op \notin Lists
    BY <2>1, <2>2, <2>4, ListingIs
  <2> QED BY <2>3, <2>4
<1>8. CASE ResourcesChange
  <2>1. existing' \in SUBSET Resources
    BY <1>1, <1>8 DEF ResourcesChange
  <2>2. CASE call.op \in Lists /\ call.step \in {"domains", "pages"}
    <3>1. Listing = Shows("asked", <<>>)
      BY <2>2, ListingIs
    <3>2. /\ call'.op = call.op /\ call'.step = call.step
          /\ call'.always = call.always \cap existing' /\ call'.ever = call.ever \cup existing'
      <4>1. call' = [call EXCEPT !.always = @ \cap existing', !.ever = @ \cup existing']
        BY <1>8, <2>2 DEF ResourcesChange, Ended
      <4> QED BY <4>1, <1>1 DEF CallType
    <3>3. Listing' = [Listing EXCEPT !.always = @ \cap existing', !.ever = @ \cup existing']
      <4>1. Listing' = [state |-> "asked", always |-> call.always \cap existing',
                        ever |-> call.ever \cup existing', items |-> <<>>]
        BY <2>2, <3>2 DEF Listing, Lists, AbstractState
      <4>2. Listing.always = call.always /\ Listing.ever = call.ever
        BY <3>1 DEF Shows
      <4>3. Listing \in [state : {"asked"}, always : {call.always}, ever : {call.ever}, items : {<<>>}]
        BY <3>1 DEF Shows
      <4> DEFINE al == call.always \cap existing'
                 ev == call.ever \cup existing'
                 moved == [Listing EXCEPT !.always = al, !.ever = ev]
      <4> HIDE DEF al, ev
      <4>4. moved \in [state : {"asked"}, always : {al}, ever : {ev}, items : {<<>>}]
        BY <4>3
      <4> HIDE DEF moved
      <4>5. moved = [state |-> "asked", always |-> al, ever |-> ev, items |-> <<>>]
        BY <4>4
      <4> QED BY <4>1, <4>2, <4>5 DEF moved, al, ev
    <3>4. Listing.state = "asked"
      BY <3>1 DEF Shows
    <3> QED BY <2>1, <3>3, <3>4 DEF Service!Change, Service!ServiceNext
  <2>3. CASE ~(call.op \in Lists /\ call.step \in {"domains", "pages"})
    <3>1. Listing' = Listing
      <4>1. CASE call.op \in Lists
        <5>1. call.step \in Ended
          BY <2>3, <4>1 DEF CollectInv, Ended
        <5>2. call' = call
          BY <1>8, <5>1 DEF ResourcesChange
        <5> QED BY <5>2 DEF Listing
      <4>2. CASE call.op \notin Lists
        <5>1. call'.op = call.op
          BY <1>1, <1>8 DEF ResourcesChange, CallType
        <5> QED BY <5>1, <4>2 DEF Listing, Lists
      <4> QED BY <4>1, <4>2
    <3>2. Listing.state # "asked"
      <4>1. call.op \notin Lists \/ call.step \in {"done", "failed", "raised"}
        BY <2>3 DEF CollectInv
      <4> QED BY <4>1, ListingIs DEF Shows, NoneAsked
    <3> QED BY <2>1, <3>1, <3>2 DEF Service!Change, Service!ServiceNext
  <2> QED BY <2>2, <2>3
<1>9. CASE VnicsChange \/ UNCHANGED clientVars
  BY <1>9 DEF VnicsChange, clientVars, ociVars, Listing
<1> QED BY <1>2, <1>3, <1>4, <1>5, <1>6, <1>7, <1>8, <1>9 DEF ClientNext, Working

\* Whatever resources come and go between the calls of one listing, and whichever
\* of the calls fail, a list method is what ListingService says: nothing that was
\* there all the time is missing and nothing is there twice (oci_client.py:251-263).
THEOREM ClientImplementsService == ClientSpec => ImplementsService
<1>1. ClientInit => Service!ServiceInit
  BY DEF ClientInit, NoCall, Listing, Service!ServiceInit, Service!NoListing
<1>2. ClientSpec => [](ClientInv /\ CollectInv)
  <2>1. ClientInit => CollectInv
    BY CollectInvInit
  <2>2. ClientInv /\ CollectInv /\ [ClientNext]_clientVars => CollectInv'
    BY CollectInvNext
  <2> QED BY <2>1, <2>2, ClientAlways, PTL DEF ClientSpec
<1>3. ClientInv /\ CollectInv /\ [ClientNext]_clientVars => [Service!ServiceNext]_(Service!serviceVars)
  BY ServiceStep
<1> QED BY <1>1, <1>2, <1>3, PTL DEF ClientSpec, ImplementsService, Service!ServiceSpec

\* And so it is for every read-only command.
THEOREM ReadingImplementsService == ReadingSpec => ImplementsService
BY ReadingImplementsClient, ClientImplementsService, PTL

-----------------------------------------------------------------------------
(* The library's induction theorems have an operator for a parameter; the   *)
(* existence of a least counterexample has none.                            *)

LEMMA Least ==
  ASSUME NEW T, T \subseteq Nat, T # {}
  PROVE  \E m \in T : \A k \in T : m <= k
<1>1. PICK m \in T : \A k \in T : <<k, m>> \notin OpToRel(<, Nat)
  BY NatLessThanWellFounded, WFMin
<1>2. \A k \in T : ~ (k < m)
  BY <1>1 DEF OpToRel
<1> QED BY <1>2

\* What FlattenSeq has made of the first sequences.
IsFlatten(f, s) == f = [i \in 1 .. Len(s) |-> IF i = 1 THEN s[i] ELSE f[i - 1] \o s[i]]

LEMMA FlattenExists ==
  ASSUME NEW S, NEW s \in Seq(Seq(S))
  PROVE  \E f \in [1 .. Len(s) -> Seq(S)] : IsFlatten(f, s)
<1> DEFINE n == Len(s)
           Done(m, f) == \A i \in 1 .. m : f[i] = IF i = 1 THEN s[i] ELSE f[i - 1] \o s[i]
           T == {m \in 0 .. n : ~ \E f \in [1 .. m -> Seq(S)] : Done(m, f)}
<1>1. n \in Nat /\ \A i \in 1 .. n : s[i] \in Seq(S)
  OBVIOUS
<1>2. T = {}
  <2> SUFFICES ASSUME T # {} PROVE FALSE
    OBVIOUS
  <2>0. T \subseteq 0 .. n /\ T \subseteq Nat
    BY <1>1
  <2>1. PICK m \in T : \A k \in T : m <= k
    <3> HIDE DEF T
    <3> QED BY Least, <2>0
  <2>2. CASE m = 0
    <3>1. <<>> \in [1 .. 0 -> Seq(S)] /\ Done(0, <<>>)
      OBVIOUS
    <3> QED BY <3>1, <2>1, <2>2
  <2>3. CASE m # 0
    <3>1. m - 1 \in 0 .. n /\ m - 1 \notin T /\ m \in 1 .. n
      <4> HIDE DEF T, n
      <4> QED BY <2>0, <2>1, <2>3, <1>1
    <3>2. PICK f \in [1 .. m - 1 -> Seq(S)] : Done(m - 1, f)
      BY <3>1
    <3> DEFINE last == IF m = 1 THEN s[m] ELSE f[m - 1] \o s[m]
               g == [i \in 1 .. m |-> IF i = m THEN last ELSE f[i]]
    <3>3. last \in Seq(S)
      <4>1. s[m] \in Seq(S)
        BY <3>1, <1>1
      <4>2. m # 1 => f[m - 1] \in Seq(S)
        BY <3>1
      <4> QED BY <4>1, <4>2
    <3>4. g \in [1 .. m -> Seq(S)]
      <4> HIDE DEF last
      <4> QED BY <3>1, <3>3
    <3>5. Done(m, g)
      <4> SUFFICES ASSUME NEW i \in 1 .. m PROVE g[i] = IF i = 1 THEN s[i] ELSE g[i - 1] \o s[i]
        OBVIOUS
      <4>1. CASE i = m
        <5>1. g[i] = last /\ (i # 1 => g[i - 1] = f[i - 1])
          BY <3>1, <4>1
        <5> QED BY <5>1, <4>1
      <4>2. CASE i # m
        <5>1. i \in 1 .. m - 1 /\ g[i] = f[i] /\ (i # 1 => g[i - 1] = f[i - 1])
          BY <3>1, <4>2
        <5> QED BY <5>1, <3>2
      <4> QED BY <4>1, <4>2
    <3> HIDE DEF g
    <3> QED BY <3>4, <3>5, <2>1
  <2> QED BY <2>2, <2>3
<1>3. n \in 0 .. n
  BY <1>1
<1>4. PICK f \in [1 .. n -> Seq(S)] : Done(n, f)
  BY <1>2, <1>3
<1>5. f = [i \in 1 .. n |-> IF i = 1 THEN s[i] ELSE f[i - 1] \o s[i]]
  BY <1>4
<1> QED BY <1>5 DEF IsFlatten

LEMMA FlattenUnique ==
  ASSUME NEW s, NEW f, NEW g, Len(s) \in Nat, IsFlatten(f, s), IsFlatten(g, s)
  PROVE  f = g
<1> DEFINE T == {i \in 1 .. Len(s) : f[i] # g[i]}
<1>1. /\ \A i \in 1 .. Len(s) : f[i] = IF i = 1 THEN s[i] ELSE f[i - 1] \o s[i]
      /\ \A i \in 1 .. Len(s) : g[i] = IF i = 1 THEN s[i] ELSE g[i - 1] \o s[i]
  BY DEF IsFlatten
<1>2. ASSUME T # {} PROVE FALSE
  <2>1. T \subseteq Nat
    OBVIOUS
  <2>2. PICK m \in T : \A k \in T : m <= k
    <3> HIDE DEF T
    <3> QED BY Least, <1>2, <2>1
  <2>3. CASE m = 1
    BY <1>1, <2>2, <2>3
  <2>4. CASE m # 1
    <3>1. m - 1 \in 1 .. Len(s) /\ m - 1 \notin T
      BY <2>2, <2>4
    <3> QED BY <1>1, <2>2, <2>4, <3>1
  <2> QED BY <2>3, <2>4
<1>3. \A i \in 1 .. Len(s) : f[i] = g[i]
  BY <1>2
<1> DEFINE D == 1 .. Len(s)
<1>4. /\ f = [i \in D |-> IF i = 1 THEN s[i] ELSE f[i - 1] \o s[i]]
      /\ g = [i \in D |-> IF i = 1 THEN s[i] ELSE g[i - 1] \o s[i]]
  BY Zenon DEF IsFlatten
<1>5. f = [i \in D |-> f[i]] /\ g = [i \in D |-> g[i]]
  <2> HIDE DEF D
  <2> QED BY <1>4
<1> QED BY <1>3, <1>5

\* FlattenSeq is what its last round has made.
LEMMA FlattenIs ==
  ASSUME NEW S, NEW s \in Seq(Seq(S)), s # <<>>
  PROVE  \E f \in [1 .. Len(s) -> Seq(S)] :
           /\ \A i \in 1 .. Len(s) : f[i] = IF i = 1 THEN s[i] ELSE f[i - 1] \o s[i]
           /\ FlattenSeq(s) = f[Len(s)]
<1> DEFINE h[i \in 1 .. Len(s)] == IF i = 1 THEN s[i] ELSE h[i - 1] \o s[i]
<1>1. Len(s) # 0 /\ Len(s) \in Nat
  OBVIOUS
<1>2. FlattenSeq(s) = h[Len(s)]
  BY <1>1, Zenon DEF FlattenSeq
<1>3. \E f : IsFlatten(f, s)
  BY FlattenExists
<1>4. IsFlatten(h, s)
  BY <1>3 DEF IsFlatten
<1> HIDE DEF h
<1>5. PICK f \in [1 .. Len(s) -> Seq(S)] : IsFlatten(f, s)
  BY FlattenExists
<1>6. h = f
  BY <1>1, <1>4, <1>5, FlattenUnique
<1> QED BY <1>2, <1>5, <1>6 DEF IsFlatten

\* The resources a comprehension has found among the first ones.
NextHits(f, k, s, fit, rule) ==
  IF k = 0 THEN <<>> ELSE IF fit[s[k]][rule] THEN Append(f[k - 1], s[k]) ELSE f[k - 1]

IsHits(f, s, fit, rule) == f = [k \in 0 .. Len(s) |-> NextHits(f, k, s, fit, rule)]

Found(h, m, s, fit, rule) ==
  \A x : (\E k \in DOMAIN h : h[k] = x) <=> (\E k \in 1 .. m : s[k] = x /\ fit[x][rule])

LEMMA AppendHas ==
  ASSUME NEW S, NEW s \in Seq(S), NEW e \in S
  PROVE  /\ Append(s, e) \in Seq(S)
         /\ \A x : (\E k \in DOMAIN Append(s, e) : Append(s, e)[k] = x)
                   <=> (\E k \in DOMAIN s : s[k] = x) \/ x = e
<1>1. /\ Append(s, e) \in Seq(S) /\ Len(s) \in Nat
      /\ DOMAIN s = 1 .. Len(s) /\ DOMAIN Append(s, e) = 1 .. Len(s) + 1
      /\ Append(s, e)[Len(s) + 1] = e
      /\ \A k \in 1 .. Len(s) : Append(s, e)[k] = s[k]
  OBVIOUS
<1>2. /\ \A k \in 1 .. Len(s) + 1 : k \in 1 .. Len(s) \/ k = Len(s) + 1
      /\ 1 .. Len(s) \subseteq 1 .. Len(s) + 1 /\ Len(s) + 1 \in 1 .. Len(s) + 1
  BY <1>1
<1> QED BY <1>1, <1>2, Zenon

LEMMA HitsExist ==
  ASSUME NEW S, NEW s \in Seq(S), NEW fit, NEW rule
  PROVE  \E f : IsHits(f, s, fit, rule)
<1> DEFINE n == Len(s)
           Done(m, f) == \A k \in 0 .. m : f[k] = NextHits(f, k, s, fit, rule)
           T == {m \in 0 .. n : ~ \E f \in [0 .. m -> Seq(S)] : Done(m, f)}
<1>1. n \in Nat /\ \A k \in 1 .. n : s[k] \in S
  OBVIOUS
<1>2. T = {}
  <2> SUFFICES ASSUME T # {} PROVE FALSE
    OBVIOUS
  <2>0. T \subseteq 0 .. n /\ T \subseteq Nat
    BY <1>1
  <2>1. PICK m \in T : \A k \in T : m <= k
    <3> HIDE DEF T
    <3> QED BY Least, <2>0
  <2>2. CASE m = 0
    <3> DEFINE g == [k \in 0 .. 0 |-> <<>>]
    <3>1. g \in [0 .. 0 -> Seq(S)] /\ Done(0, g)
      BY DEF NextHits
    <3> HIDE DEF g
    <3> QED BY <3>1, <2>1, <2>2
  <2>3. CASE m # 0
    <3>1. m - 1 \in 0 .. n /\ m - 1 \notin T /\ m \in 1 .. n
      <4> HIDE DEF T, n
      <4> QED BY <2>0, <2>1, <2>3, <1>1
    <3>2. PICK f \in [0 .. m - 1 -> Seq(S)] : Done(m - 1, f)
      BY <3>1
    <3> DEFINE last == NextHits(f, m, s, fit, rule)
               g == [k \in 0 .. m |-> IF k = m THEN last ELSE f[k]]
    <3>3. last \in Seq(S)
      <4>1. s[m] \in S /\ f[m - 1] \in Seq(S)
        BY <3>1, <1>1
      <4> QED BY <4>1, <3>1 DEF NextHits
    <3>4. g \in [0 .. m -> Seq(S)]
      <4> HIDE DEF last
      <4> QED BY <3>1, <3>3
    <3>5. Done(m, g)
      <4> SUFFICES ASSUME NEW k \in 0 .. m PROVE g[k] = NextHits(g, k, s, fit, rule)
        OBVIOUS
      <4>1. CASE k = m
        <5>1. g[k] = last /\ g[k - 1] = f[k - 1] /\ k # 0
          BY <3>1, <4>1
        <5> QED BY <5>1, <4>1 DEF NextHits
      <4>2. CASE k # m
        <5>1. k \in 0 .. m - 1 /\ g[k] = f[k] /\ (k # 0 => g[k - 1] = f[k - 1])
          BY <3>1, <4>2
        <5> QED BY <5>1, <3>2 DEF NextHits
      <4> QED BY <4>1, <4>2
    <3> HIDE DEF g
    <3> QED BY <3>4, <3>5, <2>1
  <2> QED BY <2>2, <2>3
<1>3. n \in 0 .. n
  BY <1>1
<1>4. PICK f \in [0 .. n -> Seq(S)] : Done(n, f)
  BY <1>2, <1>3
<1>5. f = [k \in 0 .. n |-> NextHits(f, k, s, fit, rule)]
  BY <1>4
<1> QED BY <1>5 DEF IsHits

LEMMA FoundMore ==
  ASSUME NEW S, NEW s \in Seq(S), NEW fit, NEW rule, NEW m \in 1 .. Len(s),
         NEW h \in Seq(S), Found(h, m - 1, s, fit, rule), fit[s[m]][rule]
  PROVE  Append(h, s[m]) \in Seq(S) /\ Found(Append(h, s[m]), m, s, fit, rule)
<1>1. /\ \A k \in 1 .. m : k = m \/ k \in 1 .. m - 1
      /\ 1 .. m - 1 \subseteq 1 .. m /\ m \in 1 .. m /\ s[m] \in S
  OBVIOUS
<1>2. PICK e \in S : e = s[m]
  BY <1>1
<1>3. /\ Append(h, e) \in Seq(S)
      /\ \A x : (\E k \in DOMAIN Append(h, e) : Append(h, e)[k] = x)
                <=> (\E k \in DOMAIN h : h[k] = x) \/ x = e
  BY AppendHas
<1>4. \A x : (\E k \in 1 .. m - 1 : s[k] = x /\ fit[x][rule]) \/ x = e
             <=> (\E k \in 1 .. m : s[k] = x /\ fit[x][rule])
  BY <1>1, <1>2, Zenon
<1>5. \A x : (\E k \in DOMAIN h : h[k] = x) <=> (\E k \in 1 .. m - 1 : s[k] = x /\ fit[x][rule])
  BY Zenon DEF Found
<1>6. Found(Append(h, e), m, s, fit, rule)
  BY <1>3, <1>4, <1>5, Zenon DEF Found
<1> QED BY <1>2, <1>3, <1>6

\* The resources a rule finds are those of the list that it fits
\* (resource_match.py:78-99).
LEMMA HitsAre ==
  ASSUME NEW S, NEW s \in Seq(S), NEW fit, NEW rule
  PROVE  Hits(rule, s, fit) \in Seq(S) /\ Found(Hits(rule, s, fit), Len(s), s, fit, rule)
<1>0. \E f : IsHits(f, s, fit, rule)
  BY HitsExist
<1> DEFINE n == Len(s)
           h[k \in 0 .. Len(s)] ==
             IF k = 0 THEN <<>>
             ELSE IF fit[s[k]][rule] THEN Append(h[k - 1], s[k]) ELSE h[k - 1]
           T == {k \in 0 .. n : ~ (h[k] \in Seq(S) /\ Found(h[k], k, s, fit, rule))}
<1>1. n \in Nat /\ \A k \in 1 .. n : s[k] \in S
  OBVIOUS
<1>2. Hits(rule, s, fit) = h[n]
  BY Zenon DEF Hits
<1>3. h = [k \in 0 .. n |-> NextHits(h, k, s, fit, rule)]
  <2>2. \E f : f = [k \in 0 .. Len(s) |->
                     IF k = 0 THEN <<>>
                     ELSE IF fit[s[k]][rule] THEN Append(f[k - 1], s[k]) ELSE f[k - 1]]
    BY <1>0, Zenon DEF NextHits, IsHits
  <2> QED BY <2>2, Zenon DEF NextHits
<1> HIDE DEF h
<1>4. \A k \in 0 .. n : h[k] = NextHits(h, k, s, fit, rule)
  BY <1>3
<1>5. T = {}
  <2> SUFFICES ASSUME T # {} PROVE FALSE
    OBVIOUS
  <2>0. T \subseteq 0 .. n /\ T \subseteq Nat
    BY <1>1
  <2>1. PICK m \in T : \A k \in T : m <= k
    <3> HIDE DEF T
    <3> QED BY Least, <2>0
  <2>2. CASE m = 0
    <3>1. h[0] = <<>>
      BY <1>1, <1>4 DEF NextHits
    <3>2. h[0] \in Seq(S) /\ Found(h[0], 0, s, fit, rule)
      BY <3>1 DEF Found
    <3> QED BY <3>2, <2>1, <2>2
  <2>3. CASE m # 0
    <3>1. m - 1 \in 0 .. n /\ m - 1 \notin T /\ m \in 1 .. n
      <4> HIDE DEF T, n
      <4> QED BY <2>0, <2>1, <2>3, <1>1
    <3>2. h[m - 1] \in Seq(S) /\ Found(h[m - 1], m - 1, s, fit, rule)
      BY <3>1
    <3>3. \A k \in 1 .. m : k = m \/ k \in 1 .. m - 1
      BY <3>1
    <3>4. 1 .. m - 1 \subseteq 1 .. m /\ m \in 1 .. m /\ s[m] \in S
      BY <3>1, <1>1
    <3>5. CASE fit[s[m]][rule]
      <4>1. h[m] = Append(h[m - 1], s[m])
        BY <1>4, <2>3, <3>1, <3>5 DEF NextHits
      <4>2. PICK found \in Seq(S) : found = h[m - 1] /\ Found(found, m - 1, s, fit, rule)
        BY <3>2
      <4>3. m \in 1 .. Len(s)
        BY <3>1
      <4>4. Append(found, s[m]) \in Seq(S) /\ Found(Append(found, s[m]), m, s, fit, rule)
        BY <3>5, <4>2, <4>3, FoundMore
      <4> QED BY <2>1, <4>1, <4>2, <4>4
    <3>6. CASE ~ fit[s[m]][rule]
      <4>1. h[m] = h[m - 1]
        BY <1>4, <2>3, <3>1, <3>6 DEF NextHits
      <4>2. Found(h[m], m, s, fit, rule)
        BY <3>2, <3>3, <3>4, <3>6, <4>1 DEF Found
      <4> QED BY <2>1, <3>2, <4>1, <4>2
    <3> QED BY <3>5, <3>6
  <2> QED BY <2>2, <2>3
<1>6. n \in 0 .. n /\ n \notin T
  <2> HIDE DEF T, n
  <2> QED BY <1>1, <1>5
<1> QED BY <1>2, <1>6

-----------------------------------------------------------------------------
(* Matching *)

\* What a rule fits, of a set of resources.
Fitting(rule, resources, fit) == {r \in resources : fit[r][rule]}

LEMMA HitsFit ==
  ASSUME NEW S, NEW s \in Seq(S), NEW fit, NEW rule
  PROVE  /\ Hits(rule, s, fit) \in Seq(S)
         /\ Range(Hits(rule, s, fit)) = Fitting(rule, Range(s), fit)
         /\ (Hits(rule, s, fit) = <<>>) <=> (Fitting(rule, Range(s), fit) = {})
<1>1. PICK h \in Seq(S) : h = Hits(rule, s, fit) /\ Found(h, Len(s), s, fit, rule)
  BY HitsAre
<1>2. Range(h) = Fitting(rule, Range(s), fit)
  BY <1>1 DEF Found, Range, Fitting
<1>3. Len(h) \in Nat /\ DOMAIN h = 1 .. Len(h) /\ ((h = <<>>) <=> (Len(h) = 0))
  OBVIOUS
<1>4. (h = <<>>) <=> (Range(h) = {})
  <2>1. CASE Len(h) = 0
    BY <1>3, <2>1 DEF Range
  <2>2. CASE Len(h) # 0
    <3>1. 1 \in DOMAIN h
      BY <1>3, <2>2
    <3> QED BY <1>3, <2>2, <3>1 DEF Range
  <2> QED BY <2>1, <2>2
<1> QED BY <1>1, <1>2, <1>4

\* The first rule that finds anything is the one that counts.
LEMMA FirstRule ==
  ASSUME NEW S, NEW hits \in Seq(Seq(S)), NEW one,
         one = SelectInSeq(hits, LAMBDA h : h # <<>>)
  PROVE  \/ one = 0 /\ \A k \in 1 .. Len(hits) : hits[k] = <<>>
         \/ /\ one \in 1 .. Len(hits) /\ hits[one] # <<>>
            /\ \A k \in 1 .. one - 1 : hits[k] = <<>>
<1> DEFINE I == {i \in 1 .. Len(hits) : hits[i] # <<>>}
<1>1. one = IF I # {} THEN Min(I) ELSE 0
  BY Zenon DEF SelectInSeq
<1>2. CASE I = {}
  BY <1>1, <1>2
<1>3. CASE I # {}
  <2>1. I \subseteq Nat
    OBVIOUS
  <2>2. \E m \in I : \A k \in I : m <= k
    <3> HIDE DEF I
    <3> QED BY <1>3, <2>1, Least
  <2>3. Min(I) \in I /\ \A k \in I : Min(I) <= k
    <3> HIDE DEF I
    <3> QED BY <2>2 DEF Min
  <2>4. one \in I /\ \A k \in I : one <= k
    BY <1>1, <1>3, <2>3
  <2> HIDE DEF I
  <2>5. one \in 1 .. Len(hits) /\ hits[one] # <<>>
    BY <2>4 DEF I
  <2>6. \A k \in 1 .. one - 1 : k \in 1 .. Len(hits) /\ k \notin I
    BY <2>4, <2>5
  <2>7. \A k \in 1 .. one - 1 : hits[k] = <<>>
    BY <2>6 DEF I
  <2> QED BY <2>5, <2>7
<1> QED BY <1>2, <1>3

\* The documented precedence, one rank after the other.
LEMMA MeantIs ==
  ASSUME NEW q \in Query, NEW R, NEW fit \in Fits(q, R)
  PROVE  LET F(rule) == Fitting(rule, R, fit)
         IN /\ q.blank => Meant(q, R, fit) = {}
            /\ ~q.blank /\ q.ocid /\ F("id") # {} => Meant(q, R, fit) = F("id")
            /\ ~q.blank /\ ~q.ocid =>
                 /\ F("name") # {} => Meant(q, R, fit) = F("name")
                 /\ F("name") = {} /\ F("prefix") # {} => Meant(q, R, fit) = F("prefix")
                 /\ F("name") = {} /\ F("prefix") = {} =>
                      Meant(q, R, fit) = IF q.short THEN F("suffix") ELSE {}
<1>1. \A r \in R : \E f \in Fit : f = fit[r] /\ (f.id => q.ocid)
  <2> DEFINE G == {f \in Fit : f.id => q.ocid}
  <2>1. fit \in [R -> G]
    BY Zenon DEF Fits
  <2>2. \A r \in R : \E f \in G : f = fit[r]
    <3> HIDE DEF G
    <3> QED BY <2>1
  <2> QED BY <2>2, Zenon
<1>2. \A r \in R : /\ fit[r].id \in BOOLEAN /\ fit[r].name \in BOOLEAN
                    /\ fit[r].prefix \in BOOLEAN /\ fit[r].suffix \in BOOLEAN
                    /\ (fit[r].name => fit[r].prefix) /\ (fit[r].id => fit[r].suffix)
  <2>1. \A f \in Fit : /\ f.id \in BOOLEAN /\ f.name \in BOOLEAN
                       /\ f.prefix \in BOOLEAN /\ f.suffix \in BOOLEAN
                       /\ (f.name => f.prefix) /\ (f.id => f.suffix)
    BY DEF Fit
  <2> SUFFICES ASSUME NEW r \in R
               PROVE  /\ fit[r].id \in BOOLEAN /\ fit[r].name \in BOOLEAN
                      /\ fit[r].prefix \in BOOLEAN /\ fit[r].suffix \in BOOLEAN
                      /\ (fit[r].name => fit[r].prefix) /\ (fit[r].id => fit[r].suffix)
    OBVIOUS
  <2>2. PICK f \in Fit : f = fit[r]
    BY <1>1
  <2> QED BY <2>1, <2>2
<1>3. q.blank \in BOOLEAN /\ q.ocid \in BOOLEAN /\ q.short \in BOOLEAN
  BY DEF Query
<1>4. q.blank => Meant(q, R, fit) = {}
  BY DEF Meant, Rank
<1>5. ASSUME ~q.blank, q.ocid, Fitting("id", R, fit) # {}
      PROVE  Meant(q, R, fit) = Fitting("id", R, fit)
  <2>1. PICK x \in R : fit[x].id
    BY <1>5 DEF Fitting
  <2>2. \A r \in R : Rank(q, fit[r]) \in {1, 2, 3, 4, 5} /\ (Rank(q, fit[r]) = 1 <=> fit[r].id)
    BY <1>2, <1>3, <1>5 DEF Rank
  <2> QED BY <2>1, <2>2 DEF Meant, Fitting
<1>6. ASSUME ~q.blank, ~q.ocid
      PROVE  \A r \in R : /\ Rank(q, fit[r]) \in {2, 3, 4, 5}
                           /\ (Rank(q, fit[r]) = 2 <=> fit[r].name)
                           /\ (Rank(q, fit[r]) = 3 <=> ~fit[r].name /\ fit[r].prefix)
                           /\ (Rank(q, fit[r]) = 4 <=> ~fit[r].prefix /\ q.short /\ fit[r].suffix)
  <2>1. \A r \in R : Rank(q, fit[r]) =
          IF fit[r].name THEN 2 ELSE IF fit[r].prefix THEN 3
          ELSE IF q.short /\ fit[r].suffix THEN 4 ELSE 5
    <3>1. \A r \in R : ~fit[r].id
      BY <1>1, <1>6, Zenon
    <3> QED BY <3>1, <1>6, Zenon DEF Rank
  <2> QED BY <2>1, <1>2, <1>3
<1>7. ASSUME ~q.blank, ~q.ocid, Fitting("name", R, fit) # {}
      PROVE  Meant(q, R, fit) = Fitting("name", R, fit)
  <2>1. PICK x \in R : fit[x].name
    BY <1>7 DEF Fitting
  <2> QED BY <2>1, <1>6, <1>7 DEF Meant, Fitting
<1>8. ASSUME ~q.blank, ~q.ocid, Fitting("name", R, fit) = {}, Fitting("prefix", R, fit) # {}
      PROVE  Meant(q, R, fit) = Fitting("prefix", R, fit)
  <2>1. PICK x \in R : fit[x].prefix
    BY <1>8 DEF Fitting
  <2>2. \A r \in R : ~fit[r].name
    BY <1>8 DEF Fitting
  <2> QED BY <2>1, <2>2, <1>6, <1>8 DEF Meant, Fitting
<1>9. ASSUME ~q.blank, ~q.ocid, Fitting("name", R, fit) = {}, Fitting("prefix", R, fit) = {}
      PROVE  Meant(q, R, fit) = IF q.short THEN Fitting("suffix", R, fit) ELSE {}
  <2>1. \A r \in R : ~fit[r].name /\ ~fit[r].prefix
    BY <1>9 DEF Fitting
  <2>2. \A r \in R : /\ Rank(q, fit[r]) \in {4, 5}
                      /\ (Rank(q, fit[r]) = 4 <=> q.short /\ fit[r].suffix)
    BY <2>1, <1>6, <1>9
  <2> QED BY <2>2, <1>3 DEF Meant, Fitting
<1> QED BY <1>4, <1>5, <1>7, <1>8, <1>9

\* What a user may rely on, whatever match makes of the list.
Means(m, meant, ocid, S) ==
  /\ m.outcome = "found" => meant = Range(m.candidates) /\ \E r \in S : m.candidates = <<r>>
  /\ m.outcome = "AmbiguousResource" => meant = Range(m.candidates) /\ Len(m.candidates) > 1
  /\ m.outcome = "ResourceNotFound" => ocid \/ meant = {}

\* match, against the precedence.
LEMMA MatchIsMeant ==
  ASSUME NEW S, NEW q \in Query, NEW s \in Seq(S), NEW fit \in Fits(q, Range(s)),
         NEW m, m = Match(q, s, fit)
  PROVE  Means(m, Meant(q, Range(s), fit), q.ocid, S)
<1> DEFINE F(rule) == Fitting(rule, Range(s), fit)
           meant == Meant(q, Range(s), fit)
           hits == [k \in DOMAIN Rules(q) |-> Hits(Rules(q)[k], s, fit)]
           one == SelectInSeq(hits, LAMBDA h : h # <<>>)
<1> SUFFICES Means(m, meant, q.ocid, S)
  OBVIOUS
<1>1. q.blank \in BOOLEAN /\ q.ocid \in BOOLEAN /\ q.short \in BOOLEAN /\ (q.blank => ~q.ocid)
  BY DEF Query
<1>2. m = IF one = 0 THEN [outcome |-> "ResourceNotFound", candidates |-> <<>>]
          ELSE IF q.ocid \/ Len(hits[one]) = 1
          THEN [outcome |-> "found", candidates |-> <<hits[one][1]>>]
          ELSE [outcome |-> "AmbiguousResource", candidates |-> hits[one]]
  BY Zenon DEF Match
<1>3. Rules(q) \in Seq({"id", "name", "prefix", "suffix"})
  <2> DEFINE T == {"id", "name", "prefix", "suffix"}
  <2>1. "id" \in T /\ "name" \in T /\ "prefix" \in T /\ "suffix" \in T
    OBVIOUS
  <2> HIDE DEF T
  <2>2. <<>> \in Seq(T) /\ (\A a, b \in Seq(T) : a \o b \in Seq(T))
    OBVIOUS
  <2>3. \A a, b \in T : <<a>> \in Seq(T) /\ <<a, b>> \in Seq(T)
    OBVIOUS
  <2>4. Rules(q) \in Seq(T)
    BY <2>1, <2>2, <2>3, Zenon DEF Rules
  <2> QED BY <2>4, Zenon DEF T
<1>4. /\ hits \in Seq(Seq(S)) /\ Len(hits) = Len(Rules(q)) /\ Len(hits) \in Nat
      /\ \A k \in 1 .. Len(hits) : /\ hits[k] \in Seq(S) /\ Range(hits[k]) = F(Rules(q)[k])
                                    /\ ((hits[k] = <<>>) <=> (F(Rules(q)[k]) = {}))
  <2>1. \A rule : /\ Hits(rule, s, fit) \in Seq(S) /\ Range(Hits(rule, s, fit)) = F(rule)
                  /\ ((Hits(rule, s, fit) = <<>>) <=> (F(rule) = {}))
    BY HitsFit
  <2>2. DOMAIN Rules(q) = 1 .. Len(Rules(q)) /\ Len(Rules(q)) \in Nat
    BY <1>3
  <2> HIDE DEF F
  <2>3. hits \in [1 .. Len(Rules(q)) -> Seq(S)]
    BY <2>1, <2>2
  <2>4. \A k \in 1 .. Len(Rules(q)) : hits[k] = Hits(Rules(q)[k], s, fit)
    BY <2>2
  <2> HIDE DEF hits
  <2>5. hits \in Seq(Seq(S)) /\ Len(hits) = Len(Rules(q))
    BY <2>2, <2>3
  <2> QED BY <2>1, <2>2, <2>4, <2>5
<1>5. \/ one = 0 /\ \A k \in 1 .. Len(hits) : hits[k] = <<>>
      \/ /\ one \in 1 .. Len(hits) /\ hits[one] # <<>>
         /\ \A k \in 1 .. one - 1 : hits[k] = <<>>
  <2>1. PICK n : n = one
    OBVIOUS
  <2> HIDE DEF hits
  <2> QED BY <1>4, <2>1, FirstRule
<1>6. /\ q.blank => meant = {}
      /\ ~q.blank /\ q.ocid /\ F("id") # {} => meant = F("id")
      /\ ~q.blank /\ ~q.ocid =>
           /\ F("name") # {} => meant = F("name")
           /\ F("name") = {} /\ F("prefix") # {} => meant = F("prefix")
           /\ F("name") = {} /\ F("prefix") = {} => meant = IF q.short THEN F("suffix") ELSE {}
  BY MeantIs
<1> HIDE DEF hits, one, meant
<1>7. CASE one = 0
  <2>1. \A k \in 1 .. Len(Rules(q)) : F(Rules(q)[k]) = {}
    <3> HIDE DEF F
    <3>1. \A k \in 1 .. Len(hits) : hits[k] = <<>>
      BY <1>5, <1>7
    <3> QED BY <1>4, <3>1, Zenon
  <2>2. q.ocid \/ meant = {}
    <3>1. CASE q.blank \/ q.ocid
      BY <3>1, <1>6
    <3>2. CASE ~q.blank /\ ~q.ocid
      <4>1. /\ Len(Rules(q)) >= 2 /\ Rules(q)[1] = "name" /\ Rules(q)[2] = "prefix"
            /\ q.short => Len(Rules(q)) = 3 /\ Rules(q)[3] = "suffix"
            /\ Len(Rules(q)) \in {2, 3}
        BY <3>2 DEF Rules
      <4>2. F("name") = {} /\ F("prefix") = {} /\ (q.short => F("suffix") = {})
        <5> HIDE DEF F
        <5>1. 1 \in 1 .. Len(Rules(q)) /\ 2 \in 1 .. Len(Rules(q)) /\ (q.short => 3 \in 1 .. Len(Rules(q)))
          BY <4>1
        <5> QED BY <2>1, <4>1, <5>1
      <4> QED BY <3>2, <4>2, <1>6
    <3> QED BY <3>1, <3>2
  <2> QED BY <1>2, <1>7, <2>2 DEF Means
<1>8. CASE one # 0
  <2>1. /\ one \in 1 .. Len(Rules(q)) /\ F(Rules(q)[one]) # {}
        /\ \A k \in 1 .. one - 1 : F(Rules(q)[k]) = {}
        /\ hits[one] \in Seq(S) /\ Range(hits[one]) = F(Rules(q)[one]) /\ hits[one] # <<>>
    <3> HIDE DEF F
    <3>1. one \in 1 .. Len(Rules(q)) /\ hits[one] # <<>> /\ \A k \in 1 .. one - 1 : hits[k] = <<>>
      BY <1>4, <1>5, <1>8
    <3>2. \A k \in 1 .. one - 1 : k \in 1 .. Len(Rules(q))
      BY <3>1, <1>4
    <3> QED BY <3>1, <3>2, <1>4
  <2>2. ~q.blank
    BY <2>1 DEF Rules
  <2>3. meant = F(Rules(q)[one])
    <3>1. CASE q.ocid
      <4>1. Rules(q) = <<"id">> /\ one = 1
        BY <2>1, <2>2, <3>1 DEF Rules
      <4> QED BY <2>1, <2>2, <3>1, <4>1, <1>6
    <3>2. CASE ~q.ocid
      <4>1. /\ Rules(q)[1] = "name" /\ Rules(q)[2] = "prefix"
            /\ Len(Rules(q)) = 3 => q.short /\ Rules(q)[3] = "suffix"
            /\ Len(Rules(q)) \in {2, 3}
        BY <2>2, <3>2, <1>1 DEF Rules
      <4>2. CASE one = 1
        BY <2>1, <2>2, <3>2, <4>1, <4>2, <1>6
      <4>3. CASE one = 2
        BY <2>1, <2>2, <3>2, <4>1, <4>3, <1>6
      <4>4. CASE one = 3
        BY <2>1, <2>2, <3>2, <4>1, <4>4, <1>6
      <4> QED BY <2>1, <4>1, <4>2, <4>3, <4>4
    <3> QED BY <3>1, <3>2
  <2>4. PICK h \in Seq(S) : h = hits[one] /\ Range(h) = meant /\ h # <<>>
    BY <2>1, <2>3
  <2>5. Len(h) \in Nat /\ Len(h) >= 1 /\ h[1] \in S /\ h[1] \in Range(h)
    BY <2>4 DEF Range
  <2>6. CASE q.ocid \/ Len(h) = 1
    <3>1. m = [outcome |-> "found", candidates |-> <<h[1]>>]
      BY <1>2, <1>8, <2>4, <2>6
    <3>2. Range(h) = {h[1]}
      <4>1. CASE Len(h) = 1
        BY <2>5, <4>1 DEF Range
      <4>2. CASE q.ocid
        <5>1. Rules(q) = <<"id">> /\ one = 1
          BY <2>1, <2>2, <4>2 DEF Rules
        <5>2. Range(h) = F("id")
          BY <2>3, <2>4, <5>1
        <5>3. \A x, y \in F("id") : x = y
          BY DEF Fits, Fitting
        <5> QED BY <2>5, <5>2, <5>3
      <4> QED BY <2>6, <4>1, <4>2
    <3>3. Range(<<h[1]>>) = {h[1]}
      BY DEF Range
    <3> QED BY <2>4, <2>5, <3>1, <3>2, <3>3 DEF Means
  <2>7. CASE ~(q.ocid \/ Len(h) = 1)
    <3>1. m = [outcome |-> "AmbiguousResource", candidates |-> h]
      BY <1>2, <1>8, <2>4, <2>7
    <3>2. Len(h) > 1
      <4>1. Len(h) \in Nat /\ Len(h) >= 1 /\ Len(h) # 1
        BY <2>5, <2>7, Zenon
      <4>2. \A k \in Nat : k >= 1 /\ k # 1 => k > 1
        OBVIOUS
      <4> QED BY <4>1, <4>2, Zenon
    <3> QED BY <2>4, <3>1, <3>2 DEF Means
  <2> QED BY <2>6, <2>7
<1> QED BY <1>7, <1>8

-----------------------------------------------------------------------------
(* Pages *)

\* Where the k-th page ends.
PageEnd(k, n) == IF k * PageSize <= n THEN k * PageSize ELSE n

LEMMA MinIs ==
  ASSUME NEW a \in Nat, NEW b \in Nat
  PROVE  Min({a, b}) = IF a <= b THEN a ELSE b
BY DEF Min

\* There is no page but the last that is not full, and the last is not empty.
LEMMA PageCount ==
  ASSUME NEW n \in Nat, PageSize > 0, NEW c, c = (n + PageSize - 1) \div PageSize
  PROVE  c \in Nat /\ c * PageSize >= n /\ \A k \in 1 .. c : (k - 1) * PageSize < n
<1>1. PageSize \in Nat /\ PageSize >= 1 /\ n + PageSize - 1 \in Nat
  BY PageSizeAssumption
<1>2. c \in Nat /\ PageSize * c <= n + PageSize - 1 /\ n + PageSize - 1 < PageSize * (c + 1)
  BY <1>1
<1>3. PageSize * (c + 1) = PageSize * c + PageSize /\ PageSize * c = c * PageSize /\ c * PageSize \in Nat
  BY <1>1, <1>2
<1>4. c * PageSize >= n
  BY <1>1, <1>2, <1>3
<1>5. ASSUME NEW k \in 1 .. c PROVE (k - 1) * PageSize < n
  <2>1. (k - 1) * PageSize <= (c - 1) * PageSize
    BY <1>1, <1>2
  <2>2. (c - 1) * PageSize = c * PageSize - PageSize
    BY <1>1, <1>2
  <2>3. (k - 1) * PageSize \in Nat
    BY <1>1
  <2> QED BY <1>1, <1>2, <1>3, <2>1, <2>2, <2>3
<1> QED BY <1>2, <1>4, <1>5

\* Each page goes on where the one before ended.
Paged(items, pages, n, c) ==
  /\ c * PageSize >= n
  /\ \A k \in 1 .. c :
       /\ (k - 1) * PageSize \in 0 .. n /\ PageEnd(k, n) \in Nat
       /\ (k - 1) * PageSize < PageEnd(k, n) /\ PageEnd(k, n) <= n
       /\ PageEnd(k, n) <= (k - 1) * PageSize + PageSize
       /\ PageEnd(k - 1, n) = (k - 1) * PageSize
       /\ pages[k] = SubSeq(items, (k - 1) * PageSize + 1, PageEnd(k, n))

LEMMA PagesAre ==
  ASSUME NEW S, NEW items \in Seq(S), PageSize > 0, NEW pages, pages = Paginate(items)
  PROVE  pages \in Seq(Seq(S)) /\ Paged(items, pages, Len(items), Len(pages))
<1> DEFINE n == Len(items)
<1>1. PageSize \in Nat /\ PageSize >= 1 /\ n \in Nat
  BY PageSizeAssumption
<1>2. PICK c : c = (n + PageSize - 1) \div PageSize
  OBVIOUS
<1>3. c \in Nat /\ c * PageSize >= n /\ \A k \in 1 .. c : (k - 1) * PageSize < n
  BY <1>1, <1>2, PageCount
<1>4. \A k \in 1 .. c : k * PageSize \in Nat /\ (k - 1) * PageSize \in Nat
                        /\ k * PageSize = (k - 1) * PageSize + PageSize
  BY <1>1
<1>5. \A k \in 1 .. c : Min({k * PageSize, n}) = PageEnd(k, n)
  BY <1>1, <1>4, MinIs DEF PageEnd
<1>6. pages = [k \in 1 .. c |-> SubSeq(items, (k - 1) * PageSize + 1, Min({k * PageSize, n}))]
  BY <1>1, <1>2 DEF Paginate
<1>7. ASSUME NEW k \in 1 .. c
      PROVE  /\ (k - 1) * PageSize \in 0 .. n /\ PageEnd(k, n) \in Nat
             /\ (k - 1) * PageSize < PageEnd(k, n) /\ PageEnd(k, n) <= n
             /\ PageEnd(k, n) <= (k - 1) * PageSize + PageSize
             /\ PageEnd(k - 1, n) = (k - 1) * PageSize
             /\ pages[k] = SubSeq(items, (k - 1) * PageSize + 1, PageEnd(k, n))
  <2>1. pages[k] = SubSeq(items, (k - 1) * PageSize + 1, PageEnd(k, n))
    BY <1>5, <1>6
  <2>2. PICK a \in Nat : a = (k - 1) * PageSize
    BY <1>4
  <2>3. a < n /\ k * PageSize = a + PageSize
    BY <1>3, <1>4, <2>2
  <2>4. PageEnd(k - 1, n) = a
    BY <1>1, <2>2, <2>3 DEF PageEnd
  <2>5. PageEnd(k, n) = IF a + PageSize <= n THEN a + PageSize ELSE n
    BY <2>3 DEF PageEnd
  <2>6. a \in 0 .. n /\ PageEnd(k, n) \in Nat /\ a < PageEnd(k, n) /\ PageEnd(k, n) <= n
        /\ PageEnd(k, n) <= a + PageSize
    BY <1>1, <2>3, <2>5
  <2> QED BY <2>1, <2>2, <2>4, <2>6, Zenon
<1>8. \A k \in 1 .. c : pages[k] \in Seq(S)
  <2> SUFFICES ASSUME NEW k \in 1 .. c PROVE pages[k] \in Seq(S)
    OBVIOUS
  <2>1. PICK a \in 0 .. n, b \in 0 .. n : pages[k] = SubSeq(items, a + 1, b)
    BY <1>1, <1>7
  <2> QED BY <2>1
<1>9. pages \in [1 .. c -> Seq(S)]
  BY <1>6, <1>8
<1>10. pages \in Seq(Seq(S)) /\ Len(pages) = c
  BY <1>3, <1>9
<1> QED BY <1>3, <1>7, <1>10 DEF Paged

\* No page is larger than the others.
LEMMA PagesSmall ==
  ASSUME NEW S, NEW items \in Seq(S), PageSize > 0
  PROVE  \A k \in DOMAIN Paginate(items) : Len(Paginate(items)[k]) <= PageSize
<1>1. PICK pages : pages = Paginate(items)
  OBVIOUS
<1>2. DOMAIN pages = 1 .. Len(pages)
  BY <1>1, PagesAre
<1> SUFFICES ASSUME NEW k \in 1 .. Len(pages) PROVE Len(pages[k]) <= PageSize
  BY <1>1, <1>2
<1>3. PICK a \in Nat, b \in Nat : /\ a <= b /\ b <= Len(items) /\ b <= a + PageSize
                                  /\ pages[k] = SubSeq(items, a + 1, b)
  <2>1. /\ (k - 1) * PageSize \in 0 .. Len(items) /\ PageEnd(k, Len(items)) \in Nat
        /\ (k - 1) * PageSize < PageEnd(k, Len(items)) /\ PageEnd(k, Len(items)) <= Len(items)
        /\ PageEnd(k, Len(items)) <= (k - 1) * PageSize + PageSize
        /\ pages[k] = SubSeq(items, (k - 1) * PageSize + 1, PageEnd(k, Len(items)))
    BY <1>1, PagesAre DEF Paged
  <2>2. PICK a, b : a = (k - 1) * PageSize /\ b = PageEnd(k, Len(items))
    OBVIOUS
  <2>3. a \in Nat /\ b \in Nat /\ a <= b
    BY <2>1, <2>2
  <2> QED BY <2>1, <2>2, <2>3, Zenon
<1>4. Len(pages[k]) = b - a
  BY <1>3
<1> QED BY <1>3, <1>4, PageSizeAssumption

-----------------------------------------------------------------------------
(* Putting sequences together *)

LEMMA Appending ==
  ASSUME NEW X, NEW s \in Seq(X), NEW x \in X
  PROVE  /\ Append(s, x) \in Seq(X) /\ Append(s, x) # <<>>
         /\ Len(s) \in Nat /\ Len(Append(s, x)) = Len(s) + 1 /\ Append(s, x)[Len(s) + 1] = x
         /\ \A i \in 1 .. Len(s) : Append(s, x)[i] = s[i]
OBVIOUS

LEMMA Beheaded ==
  ASSUME NEW X, NEW s \in Seq(X), s # <<>>
  PROVE  /\ Head(s) \in X /\ Tail(s) \in Seq(X) /\ <<Head(s)>> \in Seq(X)
         /\ s = <<Head(s)>> \o Tail(s)
OBVIOUS

LEMMA LastApart ==
  ASSUME NEW X, NEW s \in Seq(X), Len(s) # 0
  PROVE  \E t \in Seq(X), x \in X : s = Append(t, x) /\ Len(t) = Len(s) - 1
<1>1. PICK n \in Nat : n = Len(s)
  OBVIOUS
<1>2. n >= 1
  BY <1>1
<1>3. PICK t, x : t = SubSeq(s, 1, n - 1) /\ x = s[n]
  OBVIOUS
<1>4. t \in Seq(X) /\ x \in X /\ Len(t) = n - 1 /\ \A i \in 1 .. n - 1 : t[i] = s[i]
  BY <1>1, <1>2, <1>3
<1>5. s = Append(t, x)
  BY <1>1, <1>2, <1>3, <1>4
<1> QED BY <1>1, <1>4, <1>5, Zenon

LEMMA AppendLater ==
  ASSUME NEW X, NEW s \in Seq(X), NEW t \in Seq(X), NEW x \in X
  PROVE  s \o Append(t, x) = Append(s \o t, x) /\ s \o t \in Seq(X)
OBVIOUS

LEMMA NothingFlattened == FlattenSeq(<<>>) = <<>>
BY DEF FlattenSeq

LEMMA FlattenTyped ==
  ASSUME NEW S, NEW s \in Seq(Seq(S))
  PROVE  FlattenSeq(s) \in Seq(S)
<1>1. CASE s = <<>>
  <2>1. <<>> \in Seq(S)
    OBVIOUS
  <2> QED BY <1>1, <2>1, NothingFlattened, Zenon
<1>2. CASE s # <<>>
  <2>1. Len(s) \in 1 .. Len(s)
    BY <1>2
  <2> QED BY <1>2, <2>1, FlattenIs
<1> QED BY <1>1, <1>2

LEMMA FlattenOne ==
  ASSUME NEW S, NEW x \in Seq(S)
  PROVE  FlattenSeq(<<x>>) = x
<1>1. PICK s : s = <<x>>
  OBVIOUS
<1>2. s \in Seq(Seq(S)) /\ s # <<>> /\ Len(s) = 1 /\ s[1] = x
  BY <1>1
<1>3. FlattenSeq(s) = x
  BY <1>2, FlattenIs
<1> QED BY <1>1, <1>3

LEMMA FlattenMore ==
  ASSUME NEW S, NEW s \in Seq(Seq(S)), NEW x \in Seq(S)
  PROVE  FlattenSeq(Append(s, x)) = FlattenSeq(s) \o x
<1>1. CASE s = <<>>
  <2>1. Append(s, x) = <<x>> /\ <<>> \o x = x
    BY <1>1
  <2> QED BY <1>1, <2>1, FlattenOne, NothingFlattened
<1>2. CASE s # <<>>
  <2> DEFINE n == Len(s)
  <2>1. n \in Nat /\ n >= 1
    BY <1>2
  <2>2. PICK t \in Seq(Seq(S)) : t = Append(s, x)
    BY Appending
  <2>3. t # <<>> /\ Len(t) = n + 1 /\ t[n + 1] = x /\ \A i \in 1 .. n : t[i] = s[i]
    BY <2>2, Appending
  <2>4. PICK f \in [1 .. n -> Seq(S)] :
          /\ \A i \in 1 .. n : f[i] = IF i = 1 THEN s[i] ELSE f[i - 1] \o s[i]
          /\ FlattenSeq(s) = f[n]
    BY <1>2, FlattenIs
  <2>5. PICK g :
          /\ \A i \in 1 .. n + 1 : g[i] = IF i = 1 THEN t[i] ELSE g[i - 1] \o t[i]
          /\ FlattenSeq(t) = g[n + 1]
    <3>1. PICK g :
            /\ \A i \in 1 .. Len(t) : g[i] = IF i = 1 THEN t[i] ELSE g[i - 1] \o t[i]
            /\ FlattenSeq(t) = g[Len(t)]
      BY <2>3, FlattenIs, Zenon
    <3>2. Len(t) = n + 1
      BY <2>3, Zenon
    <3> QED BY <3>1, <3>2, Zenon
  <2>6. \A i \in 1 .. n : f[i] = g[i]
    <3> DEFINE T == {i \in 1 .. n : f[i] # g[i]}
    <3> SUFFICES ASSUME T # {} PROVE FALSE
      OBVIOUS
    <3>1. T \subseteq Nat
      OBVIOUS
    <3>2. PICK m \in T : \A k \in T : m <= k
      <4> HIDE DEF T
      <4> QED BY Least, <3>1
    <3>3. m \in 1 .. n /\ m \in 1 .. n + 1 /\ f[m] # g[m]
      BY <2>1
    <3>4. CASE m = 1
      BY <2>3, <2>4, <2>5, <3>3, <3>4
    <3>5. CASE m # 1
      <4>1. m - 1 \in 1 .. n /\ m - 1 \notin T
        <5> HIDE DEF T, n
        <5> QED BY <2>1, <3>1, <3>2, <3>3, <3>5
      <4>2. f[m - 1] = g[m - 1]
        BY <4>1
      <4>3. f[m] = f[m - 1] \o s[m] /\ g[m] = g[m - 1] \o t[m]
        <5> HIDE DEF n
        <5> QED BY <2>4, <2>5, <3>3, <3>5
      <4> QED BY <2>3, <3>3, <4>2, <4>3, Zenon
    <3> QED BY <3>4, <3>5
  <2>7. n \in 1 .. n /\ n + 1 \in 1 .. n + 1 /\ n + 1 # 1 /\ n + 1 - 1 = n
    BY <2>1
  <2>8. g[n + 1] = g[n] \o x
    <3>1. PICK k : k = n + 1 /\ k \in 1 .. n + 1 /\ k # 1 /\ k - 1 = n
      BY <2>7
    <3>2. g[k] = g[k - 1] \o t[k]
      BY <2>5, <3>1, Zenon
    <3> QED BY <2>3, <3>1, <3>2, Zenon
  <2> QED BY <2>2, <2>4, <2>5, <2>6, <2>7, <2>8
<1> QED BY <1>1, <1>2

LEMMA FlattenBoth ==
  ASSUME NEW S, NEW s \in Seq(Seq(S)), NEW t \in Seq(Seq(S))
  PROVE  FlattenSeq(s \o t) = FlattenSeq(s) \o FlattenSeq(t)
<1> DEFINE T == {m \in Nat : \E u \in Seq(Seq(S)) :
                   Len(u) = m /\ FlattenSeq(s \o u) # FlattenSeq(s) \o FlattenSeq(u)}
<1>0. \A a, b, c \in Seq(S) : (a \o b) \o c = a \o (b \o c)
  OBVIOUS
<1>1. T = {}
  <2> SUFFICES ASSUME T # {} PROVE FALSE
    OBVIOUS
  <2>1. T \subseteq Nat
    OBVIOUS
  <2>2. PICK m \in T : \A k \in T : m <= k
    <3> HIDE DEF T
    <3> QED BY Least, <2>1
  <2>3. PICK u \in Seq(Seq(S)) : Len(u) = m /\ FlattenSeq(s \o u) # FlattenSeq(s) \o FlattenSeq(u)
    BY <2>2
  <2>4. FlattenSeq(s) \in Seq(S)
    BY FlattenTyped
  <2>5. CASE m = 0
    <3>1. u = <<>> /\ s \o <<>> = s
      BY <2>3, <2>5
    <3>2. FlattenSeq(s) \o <<>> = FlattenSeq(s)
      BY <2>4
    <3> QED BY <2>3, <3>1, <3>2, NothingFlattened
  <2>6. CASE m # 0
    <3>1. PICK v \in Seq(Seq(S)), x \in Seq(S) : u = Append(v, x) /\ Len(v) = m - 1
      <4>1. Len(u) # 0
        BY <2>3, <2>6
      <4> QED BY <2>3, <4>1, LastApart
    <3>2. m - 1 \in Nat /\ m - 1 \notin T
      <4> HIDE DEF T
      <4> QED BY <2>1, <2>2, <2>6
    <3>3. FlattenSeq(s \o v) = FlattenSeq(s) \o FlattenSeq(v)
      BY <3>1, <3>2
    <3>4. s \o u = Append(s \o v, x) /\ s \o v \in Seq(Seq(S))
      <4>1. s \o Append(v, x) = Append(s \o v, x) /\ s \o v \in Seq(Seq(S))
        BY AppendLater, Zenon
      <4> QED BY <3>1, <4>1, Zenon
    <3>5. /\ FlattenSeq(s \o u) = FlattenSeq(s \o v) \o x
          /\ FlattenSeq(u) = FlattenSeq(v) \o x
      BY <3>1, <3>4, FlattenMore
    <3>6. FlattenSeq(v) \in Seq(S)
      BY FlattenTyped
    <3>7. (FlattenSeq(s) \o FlattenSeq(v)) \o x = FlattenSeq(s) \o (FlattenSeq(v) \o x)
      <4> QED BY <1>0, <2>4, <3>6, Zenon
    <3> QED BY <2>3, <3>3, <3>5, <3>7
  <2> QED BY <2>5, <2>6
<1>2. Len(t) \in Nat
  OBVIOUS
<1>3. Len(t) \notin T
  <2> HIDE DEF T
  <2> QED BY <1>1
<1> QED BY <1>2, <1>3, Zenon

\* The first of the sequences is the beginning of them all.
LEMMA FlattenRest ==
  ASSUME NEW S, NEW s \in Seq(Seq(S)), s # <<>>
  PROVE  /\ Head(s) \in Seq(S) /\ Tail(s) \in Seq(Seq(S))
         /\ FlattenSeq(s) = Head(s) \o FlattenSeq(Tail(s))
<1>1. PICK x \in Seq(S), t \in Seq(Seq(S)) : x = Head(s) /\ t = Tail(s)
  BY Beheaded
<1>2. s = <<x>> \o t /\ <<x>> \in Seq(Seq(S))
  BY <1>1, Beheaded
<1>3. FlattenSeq(s) = FlattenSeq(<<x>>) \o FlattenSeq(t)
  BY <1>2, FlattenBoth
<1> QED BY <1>1, <1>3, FlattenOne

LEMMA PrefixOf ==
  ASSUME NEW S, NEW a \in Seq(S), NEW b \in Seq(S)
  PROVE  IsPrefix(a, a \o b)
BY DEF IsPrefix

LEMMA Joins ==
  ASSUME NEW S, NEW s \in Seq(S), NEW a \in Nat, NEW b \in Nat, a <= b, b <= Len(s)
  PROVE  SubSeq(s, 1, a) \o SubSeq(s, a + 1, b) = SubSeq(s, 1, b)
OBVIOUS

LEMMA NoneLong == ASSUME NEW X, NEW s \in Seq(X), Len(s) = 0 PROVE s = <<>>
OBVIOUS

\* The pages have all the items, in their order (instances.py:58-71).
LEMMA PagesFlattened ==
  ASSUME NEW S, NEW items \in Seq(S)
  PROVE  Paginate(items) \in Seq(Seq(S)) /\ FlattenSeq(Paginate(items)) = items
<1>1. CASE PageSize = 0
  <2>1. Paginate(items) = <<items>> /\ <<items>> \in Seq(Seq(S))
    BY <1>1 DEF Paginate
  <2> QED BY <2>1, FlattenOne
<1>2. CASE PageSize # 0
  <2>1. PageSize > 0 /\ PageSize \in Nat
    BY <1>2, PageSizeAssumption
  <2>2. PICK pages, n, c : /\ pages = Paginate(items) /\ n = Len(items) /\ c = Len(pages)
                           /\ n \in Nat /\ c \in Nat
    <3>1. PICK pages : pages = Paginate(items)
      OBVIOUS
    <3>2. pages \in Seq(Seq(S))
      BY <2>1, <3>1, PagesAre
    <3>3. Len(pages) \in Nat /\ Len(items) \in Nat
      BY <3>2
    <3> QED BY <3>1, <3>3
  <2>3. /\ pages \in Seq(Seq(S)) /\ c * PageSize >= n
        /\ \A k \in 1 .. c :
              /\ (k - 1) * PageSize \in 0 .. n /\ PageEnd(k, n) \in Nat
              /\ (k - 1) * PageSize < PageEnd(k, n) /\ PageEnd(k, n) <= n
              /\ PageEnd(k - 1, n) = (k - 1) * PageSize
              /\ pages[k] = SubSeq(items, (k - 1) * PageSize + 1, PageEnd(k, n))
    <3>1. pages \in Seq(Seq(S)) /\ Paged(items, pages, Len(items), Len(pages))
      BY <2>1, <2>2, PagesAre
    <3>2. Paged(items, pages, n, c)
      BY <2>2, <3>1, Zenon
    <3> QED BY <3>1, <3>2 DEF Paged
  <2>4. \A k \in 1 .. c : \E a, b \in 0 .. n :
          /\ a = PageEnd(k - 1, n) /\ b = PageEnd(k, n) /\ a < b
          /\ pages[k] = SubSeq(items, a + 1, b)
    <3> SUFFICES ASSUME NEW k \in 1 .. c
                 PROVE  \E a, b \in 0 .. n :
                          /\ a = PageEnd(k - 1, n) /\ b = PageEnd(k, n) /\ a < b
                          /\ pages[k] = SubSeq(items, a + 1, b)
      OBVIOUS
    <3>1. PICK a, b : a = PageEnd(k - 1, n) /\ b = PageEnd(k, n)
      OBVIOUS
    <3>2. /\ a \in 0 .. n /\ b \in Nat /\ a < b /\ b <= n
          /\ pages[k] = SubSeq(items, a + 1, b)
      BY <2>3, <3>1
    <3>3. b \in 0 .. n
      BY <2>2, <3>2
    <3> QED BY <3>1, <3>2, <3>3
  <2>5. PageEnd(0, n) = 0 /\ PageEnd(c, n) = n
    <3>1. c * PageSize \in Nat /\ 0 * PageSize = 0
      BY <2>1, <2>2
    <3> QED BY <2>2, <2>3, <3>1 DEF PageEnd
  <2>6. CASE c = 0
    <3>1. pages = <<>> /\ items = <<>>
      <4>1. n = 0
        BY <2>5, <2>6
      <4>2. pages = <<>>
        BY <2>2, <2>3, <2>6, NoneLong, Zenon
      <4>3. items = <<>>
        BY <2>2, <4>1, NoneLong, Zenon
      <4> QED BY <4>2, <4>3
    <3> QED BY <2>2, <2>3, <3>1, NothingFlattened
  <2>7. CASE c # 0
    <3>1. pages # <<>>
      BY <2>2, <2>7
    <3>2. PICK f :
            /\ \A i \in 1 .. c : f[i] = IF i = 1 THEN pages[i] ELSE f[i - 1] \o pages[i]
            /\ FlattenSeq(pages) = f[c]
      <4>1. PICK f :
              /\ \A i \in 1 .. Len(pages) : f[i] = IF i = 1 THEN pages[i] ELSE f[i - 1] \o pages[i]
              /\ FlattenSeq(pages) = f[Len(pages)]
        BY <2>3, <3>1, FlattenIs, Zenon
      <4> QED BY <2>2, <4>1, Zenon
    <3> DEFINE T == {k \in 1 .. c : f[k] # SubSeq(items, 1, PageEnd(k, n))}
    <3>3. T = {}
      <4> SUFFICES ASSUME T # {} PROVE FALSE
        OBVIOUS
      <4>1. T \subseteq 1 .. c /\ T \subseteq Nat
        OBVIOUS
      <4>2. PICK m \in T : \A k \in T : m <= k
        <5> HIDE DEF T
        <5> QED BY Least, <4>1
      <4>3. m \in 1 .. c /\ f[m] # SubSeq(items, 1, PageEnd(m, n))
        OBVIOUS
      <4>4. PICK a, b \in 0 .. n :
              /\ a = PageEnd(m - 1, n) /\ b = PageEnd(m, n) /\ a < b
              /\ pages[m] = SubSeq(items, a + 1, b)
        BY <2>4, <4>3
      <4>5. SubSeq(items, 1, a) \o SubSeq(items, a + 1, b) = SubSeq(items, 1, b)
        <5>1. a \in Nat /\ b \in Nat /\ a <= b /\ b <= Len(items)
          BY <2>2, <4>4
        <5> QED BY <5>1, Joins
      <4>6. CASE m = 1
        <5>1. a = 0
          BY <2>5, <4>4, <4>6
        <5>2. pages[m] = SubSeq(items, 1, b) /\ f[m] = pages[m]
          BY <3>2, <4>3, <4>4, <4>6, <5>1
        <5> QED BY <4>3, <4>4, <5>2
      <4>7. CASE m # 1
        <5>1. m - 1 \in 1 .. c /\ m - 1 \notin T
          <6> HIDE DEF T
          <6> QED BY <2>2, <4>1, <4>2, <4>3, <4>7
        <5>2. f[m - 1] = SubSeq(items, 1, a)
          BY <4>4, <5>1
        <5>3. f[m] = f[m - 1] \o pages[m]
          BY <3>2, <4>3, <4>7
        <5> QED BY <4>3, <4>4, <4>5, <5>2, <5>3, Zenon
      <4> QED BY <4>6, <4>7
    <3>4. c \in 1 .. c /\ c \notin T
      <4> HIDE DEF T
      <4> QED BY <2>2, <2>7, <3>3
    <3>5. f[c] = SubSeq(items, 1, n)
      BY <2>5, <3>4
    <3>6. SubSeq(items, 1, n) = items
      BY <2>2
    <3> QED BY <2>2, <2>3, <3>2, <3>5, <3>6, Zenon
  <2> QED BY <2>6, <2>7
<1> QED BY <1>1, <1>2

-----------------------------------------------------------------------------
(* The types *)

Asked == Resources \cup Range(QUOTA_SERVICES)
Parts == Resources \cup Rows

Typed(F) ==
  read \in [cmd : DOMAIN ListOf \cup {"none"}, stage : Stages, q : Queries \cup {NoQuery},
            items : Seq(Resources), fit : F, left : Seq(Asked), rows : Seq(Rows),
            pages : Seq(Seq(Parts)), sent : Nat]

\* The handler awaits the client in two of its stages, and sends chunks in one.
Waits ==
  /\ (call.step # "idle") <=> (read.stage \in {"listing", "item"})
  /\ read.stage = "listing" => call.op \in Lists

Sends ==
  /\ read.stage \notin {"text", "failed"} => read.sent = 0
  /\ read.stage = "text" => read.pages # <<>>
  /\ read.sent <= Len(chunks)

TypeInv ==
  /\ \E F : Typed(F)
  /\ Waits /\ Sends
  /\ read.stage = "matched" => read.q \in Queries /\ read.fit \in Fits(read.q, Range(read.items))

LEMMA Fresh ==
  ASSUME NEW cmd \in DOMAIN ListOf \cup {"none"}, NEW s \in Stages, NEW q \in Queries \cup {NoQuery},
         NEW none, none = <<>>, NEW r,
         r = [cmd |-> cmd, stage |-> s, q |-> q, items |-> none, fit |-> none,
              left |-> none, rows |-> none, pages |-> none, sent |-> 0]
  PROVE  r \in [cmd : DOMAIN ListOf \cup {"none"}, stage : Stages, q : Queries \cup {NoQuery},
                items : Seq(Resources), fit : {<<>>}, left : Seq(Asked), rows : Seq(Rows),
                pages : Seq(Seq(Parts)), sent : Nat]
<1>1. /\ none \in Seq(Resources) /\ none \in Seq(Asked) /\ none \in Seq(Rows)
      /\ none \in Seq(Seq(Parts)) /\ none \in {<<>>}
  OBVIOUS
<1> QED BY <1>1

LEMMA TypeInvInit == ASSUME ReadingInit PROVE TypeInv
<1>1. Typed({<<>>})
  <2> DEFINE none == <<>>
  <2>1. read = [cmd |-> "none", stage |-> "idle", q |-> NoQuery, items |-> none, fit |-> none,
                  left |-> none, rows |-> none, pages |-> none, sent |-> 0]
    BY DEF ReadingInit, Idle
  <2>2. "idle" \in Stages
    BY DEF Stages
  <2> QED BY <2>1, <2>2, Fresh DEF Typed
<1>2. read.stage = "idle" /\ read.sent = 0
  BY DEF ReadingInit, Idle
<1>3. call.step = "idle" /\ Len(chunks) \in Nat
  BY DEF ReadingInit, ClientInit, NoCall, ChunksInit
<1> QED BY <1>1, <1>2, <1>3 DEF TypeInv, Waits, Sends

LEMMA CommandTyped ==
  ASSUME NEW cmd \in DOMAIN ListOf, NEW q \in Queries \cup {NoQuery}, Command(cmd, q), ChunksInv
  PROVE  TypeInv'
<1>1. read' = [Idle EXCEPT !.cmd = cmd, !.stage = "listing", !.q = q]
  BY DEF Command
<1>2. Typed({<<>>})'
  <2> DEFINE none == <<>>
  <2>1. read' = [cmd |-> cmd, stage |-> "listing", q |-> q, items |-> none, fit |-> none,
                  left |-> none, rows |-> none, pages |-> none, sent |-> 0]
    BY <1>1 DEF Idle
  <2>2. "listing" \in Stages
    BY DEF Stages
  <2> QED BY <2>1, <2>2, Fresh DEF Typed
<1>3. read'.stage = "listing" /\ read'.sent = 0
  BY <1>1 DEF Idle
<1>4. Len(chunks') \in Nat
  BY DEF Command, ChunksInv, ChunkTypes, chunkVars
<1>5. call'.step # "idle" /\ call'.op \in Lists
  <2>1. PICK op \in Lists : op = ListOf[cmd] /\ Begin(op)
    BY DEF Command, ListOf, Lists
  <2>2. call'.op = op /\ call'.step = FirstStep[op]
    BY <2>1 DEF Begin, NoCall
  <2> QED BY <2>1, <2>2 DEF FirstStep, Lists
<1> QED BY <1>2, <1>3, <1>4, <1>5 DEF TypeInv, Waits, Sends

LEMMA LeaveTyped == ASSUME TypeInv, Leave PROVE TypeInv'
<1>1. Typed({<<>>})'
  <2> DEFINE none == <<>>
  <2>1. read' = [cmd |-> "none", stage |-> "idle", q |-> NoQuery, items |-> none, fit |-> none,
                  left |-> none, rows |-> none, pages |-> none, sent |-> 0]
    BY DEF Leave, Idle
  <2>2. "idle" \in Stages
    BY DEF Stages
  <2> QED BY <2>1, <2>2, Fresh DEF Typed
<1>2. read'.stage = "idle" /\ read'.sent = 0
  BY DEF Leave, Idle
<1>3. call'.step = "idle" /\ Len(chunks') \in Nat
  BY DEF Leave, clientVars, ClearText, TypeInv, Waits, Over
<1> QED BY <1>1, <1>2, <1>3 DEF TypeInv, Waits, Sends

LEMMA ChunksLonger == ASSUME ChunksInv, Split PROVE Len(chunks) \in Nat /\ Len(chunks') \in Nat /\ Len(chunks) <= Len(chunks')
<1>1. chunks \in Seq(Nat \X Nat) /\ next \in Nat /\ first \in Nat
  BY DEF ChunksInv, ChunkTypes, BufferInv
<1>2. chunks' = chunks \/ chunks' = Append(chunks, <<first, next - 1>>)
  BY DEF Split, TakeLine, LastChunk
<1> QED BY <1>1, <1>2

\* Steps that neither ask nor learn anything.
LEMMA MoveTyped ==
  ASSUME TypeInv, NEW s \in Stages \ {"listing", "matched"}, NEW p \in Seq(Seq(Parts)), NEW n \in Nat,
         read' = [read EXCEPT !.stage = s, !.pages = p, !.sent = n],
         n <= Len(chunks'), s \notin {"text", "failed"} => n = 0, s = "text" => p # <<>>,
         (call'.step # "idle") <=> (s = "item")
  PROVE  TypeInv'
<1>1. PICK F : Typed(F)
  BY DEF TypeInv
<1>2. Typed(F)'
  BY <1>1 DEF Typed
<1>3. read'.stage = s /\ read'.pages = p /\ read'.sent = n
  BY <1>1 DEF Typed
<1>4. Waits' /\ Sends'
  BY <1>3 DEF Waits, Sends
<1> QED BY <1>2, <1>3, <1>4 DEF TypeInv

LEMMA StageTyped ==
  ASSUME TypeInv, NEW s \in Stages \ {"listing", "matched", "text"}, read' = [read EXCEPT !.stage = s],
         chunks' = chunks, s # "failed" => read.sent = 0,
         (call'.step # "idle") <=> (s = "item")
  PROVE  TypeInv'
<1>1. PICK F : Typed(F)
  BY DEF TypeInv
<1>2. PICK n, p : n = read.sent /\ p = read.pages
  OBVIOUS
<1>3. n \in Nat /\ p \in Seq(Seq(Parts)) /\ n <= Len(chunks')
  BY <1>1, <1>2 DEF TypeInv, Sends, Typed
<1>4. read' = [read EXCEPT !.stage = s, !.pages = p, !.sent = n]
  BY <1>1, <1>2 DEF Typed
<1> QED BY <1>2, <1>3, <1>4, MoveTyped

LEMMA TakenIdle == ASSUME Taken PROVE call'.step = "idle"
BY DEF Taken, NoCall

LEMMA ListFailsTyped == ASSUME TypeInv, ListFails PROVE TypeInv'
<1>1. PICK s \in {"refused", "failed"} : read' = [read EXCEPT !.stage = s]
  BY DEF ListFails, Ends
<1>2. s \in Stages \ {"listing", "matched", "text"} /\ s # "item"
  BY DEF Stages, Over
<1>3. read.sent = 0 /\ chunks' = chunks
  BY DEF ListFails, TypeInv, Sends, chunkVars
<1>4. call'.step = "idle"
  BY TakenIdle DEF ListFails
<1> QED BY <1>1, <1>2, <1>3, <1>4, StageTyped

\* What match finds is one of the list.
LEMMA FoundIn ==
  ASSUME TypeInv, read.stage = "matched", Matched.outcome = "found"
  PROVE  \E r \in Resources : Matched.candidates = <<r>>
<1>1. read.q \in Query /\ read.fit \in Fits(read.q, Range(read.items)) /\ read.items \in Seq(Resources)
  BY InputsAssumption DEF TypeInv, Typed
<1>2. PICK q, items, fit, m :
        /\ q = read.q /\ items = read.items /\ fit = read.fit /\ m = Match(q, items, fit)
        /\ q \in Query /\ fit \in Fits(q, Range(items)) /\ items \in Seq(Resources)
  BY <1>1
<1>3. m.outcome = "found" => \E r \in Resources : m.candidates = <<r>>
  <2>1. Means(m, Meant(q, Range(items), fit), q.ocid, Resources)
    BY <1>2, MatchIsMeant, Zenon
  <2> QED BY <2>1 DEF Means
<1> QED BY <1>2, <1>3 DEF Matched

\* The list is there (instances.py:161-163, 205, quota.py:60-63).
LEMMA ContinuesTyped ==
  ASSUME TypeInv, read.stage \in {"listing", "matched"}, NEW items \in Seq(Resources), Continues(items),
         call'.step = "idle", chunks' = chunks
  PROVE  TypeInv'
<1>1. PICK F : Typed(F)
  BY DEF TypeInv
<1> DEFINE r == [read EXCEPT !.q = NoQuery, !.fit = <<>>, !.items = items]
<1>2. r \in [cmd : DOMAIN ListOf \cup {"none"}, stage : Stages, q : Queries \cup {NoQuery},
             items : Seq(Resources), fit : {<<>>}, left : Seq(Asked), rows : Seq(Rows),
             pages : Seq(Seq(Parts)), sent : Nat]
      /\ r.sent = read.sent
  BY <1>1 DEF Typed
<1>3. /\ QUOTA_SERVICES \in Seq(Asked) /\ items \in Seq(Asked)
      /\ <<items>> \in Seq(Seq(Parts)) /\ Paginate(items) \in Seq(Seq(Parts))
  <2>1. QUOTA_SERVICES \in Seq(Asked)
    BY InputsAssumption DEF Asked
  <2>2. items \in Seq(Asked)
    BY DEF Asked
  <2>3. items \in Seq(Parts)
    BY DEF Parts
  <2> QED BY <2>1, <2>2, <2>3, PagesFlattened
<1>4. \/ \E l \in Seq(Asked) : read' = [r EXCEPT !.stage = "asking", !.left = l]
      \/ read' = [r EXCEPT !.stage = "empty"]
      \/ \E p \in Seq(Seq(Parts)) : read' = [r EXCEPT !.stage = "texts", !.pages = p]
  <2>1. read' =
       CASE read.cmd = "quota" -> [r EXCEPT !.stage = "asking", !.left = QUOTA_SERVICES]
         [] read.cmd = "public_ip" /\ items = <<>> -> [r EXCEPT !.stage = "empty"]
         [] read.cmd = "public_ip" /\ items # <<>> -> [r EXCEPT !.stage = "asking", !.left = items]
         [] read.cmd = "instances" -> [r EXCEPT !.stage = "texts", !.pages = Paginate(items)]
         [] OTHER -> [r EXCEPT !.stage = "texts", !.pages = <<items>>]
    BY DEF Continues
  <2> HIDE DEF r
  <2>2. CASE read.cmd = "quota"
    BY <1>3, <2>1, <2>2
  <2>3. CASE read.cmd = "public_ip"
    BY <1>3, <2>1, <2>3
  <2>4. CASE read.cmd = "instances"
    BY <1>3, <2>1, <2>4
  <2>5. CASE read.cmd \notin {"quota", "public_ip", "instances"}
    BY <1>3, <2>1, <2>5
  <2> QED BY <2>2, <2>3, <2>4, <2>5
<1> HIDE DEF r
<1>5. "asking" \in Stages /\ "empty" \in Stages /\ "texts" \in Stages
  BY DEF Stages
<1>6. Typed({<<>>})' /\ read'.stage \in {"asking", "empty", "texts"} /\ read'.sent = read.sent
  <2>1. CASE \E l \in Seq(Asked) : read' = [r EXCEPT !.stage = "asking", !.left = l]
    BY <1>2, <1>5, <2>1 DEF Typed
  <2>2. CASE read' = [r EXCEPT !.stage = "empty"]
    BY <1>2, <1>5, <2>2 DEF Typed
  <2>3. CASE \E p \in Seq(Seq(Parts)) : read' = [r EXCEPT !.stage = "texts", !.pages = p]
    BY <1>2, <1>5, <2>3 DEF Typed
  <2> QED BY <1>4, <2>1, <2>2, <2>3
<1>7. read.sent = 0 /\ read.sent <= Len(chunks)
  BY DEF TypeInv, Sends
<1>8. Waits' /\ Sends'
  BY <1>6, <1>7 DEF Waits, Sends
<1> QED BY <1>6, <1>8 DEF TypeInv

\* What a list method returns are resources.
LEMMA GotListed ==
  ASSUME TypeInv, ClientInv, CollectInv, ListReturns
  PROVE  call.got \in Seq(Resources)
<1>1. call.op \in Lists /\ call.step = "done"
  BY DEF ListReturns, TypeInv, Waits
<1>2. call.got \in Seq(Resources \cup Vnics) /\ call.ever \subseteq Resources
  BY DEF ClientInv, ClientType, CallType
<1>3. \A k \in DOMAIN call.got : call.got[k] \in call.ever
  BY <1>1 DEF CollectInv, Collected
<1>4. \A s \in Seq(Resources \cup Vnics) : (\A k \in DOMAIN s : s[k] \in Resources) => s \in Seq(Resources)
  OBVIOUS
<1>5. \A k \in DOMAIN call.got : call.got[k] \in Resources
  BY <1>2, <1>3
<1> QED BY <1>2, <1>4, <1>5, Zenon

LEMMA ListReturnsTyped ==
  ASSUME TypeInv, ClientInv, CollectInv, ListReturns
  PROVE  TypeInv'
<1>1. read.stage = "listing" /\ call'.step = "idle" /\ chunks' = chunks
  BY TakenIdle DEF ListReturns, chunkVars
<1>2. PICK got \in Seq(Resources) : got = call.got
  BY GotListed
<1>3. CASE read.q = NoQuery
  <2>1. Continues(got)
    BY <1>2, <1>3 DEF ListReturns
  <2> QED BY <1>1, <2>1, ContinuesTyped
<1>4. CASE read.q # NoQuery
  <2>1. PICK fit : /\ fit \in Fits(read.q, Range(got))
                   /\ read' = [read EXCEPT !.stage = "matched", !.items = got, !.fit = fit]
    BY <1>2, <1>4 DEF ListReturns
  <2>2. PICK F : Typed(F)
    BY DEF TypeInv
  <2>3. Typed({fit})'
    <3>1. "matched" \in Stages
      BY DEF Stages
    <3> QED BY <2>1, <2>2, <3>1 DEF Typed
  <2>4. /\ read'.stage = "matched" /\ read'.items = got /\ read'.fit = fit
        /\ read'.q = read.q /\ read'.sent = read.sent
    BY <2>1, <2>2 DEF Typed
  <2>5. read.q \in Queries
    BY <2>2, <1>4 DEF Typed
  <2>6. Waits' /\ Sends'
    BY <1>1, <2>4 DEF Waits, Sends, TypeInv
  <2>7. read'.q \in Queries /\ read'.fit \in Fits(read'.q, Range(read'.items))
    BY <2>1, <2>4, <2>5
  <2> QED BY <2>3, <2>6, <2>7 DEF TypeInv
<1> QED BY <1>3, <1>4

LEMMA ResolveTyped == ASSUME TypeInv, Resolve PROVE TypeInv'
<1>1. /\ read.stage = "matched" /\ call' = call /\ chunks' = chunks
      /\ call'.step = "idle" /\ read.sent = 0
  BY DEF Resolve, TypeInv, Waits, Sends, clientVars, chunkVars
<1>2. CASE Matched.outcome = "found"
  <2>1. PICK r \in Resources : Matched.candidates = <<r>>
    BY <1>1, <1>2, FoundIn
  <2>2. PICK items \in Seq(Resources) : items = <<r>>
    <3>1. <<r>> \in Seq(Resources)
      OBVIOUS
    <3> QED BY <3>1, Zenon
  <2>3. Continues(items)
    BY <1>2, <2>1, <2>2 DEF Resolve
  <2> QED BY <1>1, <2>3, ContinuesTyped
<1>3. CASE Matched.outcome # "found"
  <2>1. PICK s \in {"refused", "failed"} : read' = [read EXCEPT !.stage = s]
    BY <1>3 DEF Resolve, Ends
  <2>2. s \in Stages \ {"listing", "matched", "text"} /\ s # "item"
    BY DEF Stages, Over
  <2> QED BY <1>1, <2>1, <2>2, StageTyped
<1> QED BY <1>2, <1>3

LEMMA AskNextTyped == ASSUME TypeInv, AskNext PROVE TypeInv'
<1>1. read.stage = "asking" /\ read' = [read EXCEPT !.stage = "item"] /\ chunks' = chunks
  BY DEF AskNext, chunkVars
<1>2. read.sent = 0
  BY <1>1 DEF TypeInv, Sends
<1>3. call'.step # "idle"
  <2>1. PICK op \in {"limits", "vnics"} : Begin(op)
    BY DEF AskNext
  <2>2. call'.step = FirstStep[op]
    BY <2>1 DEF Begin, NoCall
  <2> QED BY <2>1, <2>2 DEF FirstStep
<1>4. "item" \in Stages \ {"listing", "matched", "text"}
  BY DEF Stages
<1> QED BY <1>1, <1>2, <1>3, <1>4, StageTyped

LEMMA ItemReturnsTyped == ASSUME TypeInv, RowInv, ClientInv, ItemReturns PROVE TypeInv'
<1>1. /\ read.stage = "item" /\ read.left # <<>> /\ read.sent = 0
      /\ call'.step = "idle" /\ chunks' = chunks
  BY TakenIdle DEF ItemReturns, RowInv, TypeInv, Sends, chunkVars
<1>2. CASE call.step = "raised"
  <2>1. read' = [read EXCEPT !.stage = "failed"]
    BY <1>2 DEF ItemReturns
  <2>2. "failed" \in Stages \ {"listing", "matched", "text"}
    BY DEF Stages, Over
  <2> QED BY <1>1, <2>1, <2>2, StageTyped
<1>3. CASE call.step # "raised"
  <2>1. PICK found : /\ found \in {call.vnic, "failed"}
                     /\ read' = [read EXCEPT !.stage = "asking", !.left = Tail(@),
                                   !.rows = Append(@, [of |-> Head(read.left), vnic |-> found])]
    BY <1>3 DEF ItemReturns
  <2>2. PICK F : Typed(F)
    BY DEF TypeInv
  <2>3. read.left \in Seq(Asked) /\ read.rows \in Seq(Rows)
    BY <2>2 DEF Typed
  <2>4. PICK row \in Rows : row = [of |-> Head(read.left), vnic |-> found]
    <3>1. Head(read.left) \in Asked
      BY <1>1, <2>3
    <3>2. found \in Vnics \cup {NoVnic, "failed"}
      BY <2>1 DEF ClientInv, ClientType, CallType
    <3> QED BY <3>1, <3>2 DEF Rows, Asked
  <2>5. PICK left \in Seq(Asked), rows \in Seq(Rows) : left = Tail(read.left) /\ rows = Append(read.rows, row)
    BY <1>1, <2>3, Beheaded, Appending
  <2>6. read' = [read EXCEPT !.stage = "asking", !.left = left, !.rows = rows]
    BY <2>1, <2>4, <2>5
  <2>7. Typed(F)'
    <3>1. "asking" \in Stages
      BY DEF Stages
    <3> QED BY <2>2, <2>6, <3>1 DEF Typed
  <2>8. read'.stage = "asking" /\ read'.sent = 0
    BY <1>1, <2>2, <2>6 DEF Typed
  <2>9. Waits' /\ Sends'
    BY <1>1, <2>8 DEF Waits, Sends, TypeInv
  <2> QED BY <2>7, <2>8, <2>9 DEF TypeInv
<1> QED BY <1>2, <1>3

LEMMA AllAskedTyped == ASSUME TypeInv, AllAsked PROVE TypeInv'
<1>1. PICK F : Typed(F)
  BY DEF TypeInv
<1>2. PICK pages \in Seq(Seq(Parts)) : pages = <<read.rows>>
  <2>1. PICK rows \in Seq(Rows) : rows = read.rows
    BY <1>1 DEF Typed
  <2>2. rows \in Seq(Parts)
    BY DEF Parts
  <2>3. <<rows>> \in Seq(Seq(Parts))
    BY <2>2
  <2> QED BY <2>1, <2>3, Zenon
<1>3. /\ read.stage = "asking" /\ read.sent = 0 /\ 0 <= Len(chunks')
      /\ call'.step = "idle"
  BY DEF AllAsked, TypeInv, Sends, Waits, clientVars, chunkVars
<1>4. read' = [read EXCEPT !.stage = "texts", !.pages = pages, !.sent = 0]
  BY <1>1, <1>2, <1>3 DEF AllAsked, Typed
<1>5. "texts" \in Stages \ {"listing", "matched"}
  BY DEF Stages
<1>6. PICK n \in Nat : n = 0
  OBVIOUS
<1>7. read' = [read EXCEPT !.stage = "texts", !.pages = pages, !.sent = n]
  BY <1>4, <1>6
<1> QED BY <1>3, <1>5, <1>6, <1>7, MoveTyped

LEMMA FormatTyped == ASSUME TypeInv, Format PROVE TypeInv'
<1>1. PICK F : Typed(F)
  BY DEF TypeInv
<1>2. PICK pages \in Seq(Seq(Parts)) : pages = read.pages /\ pages # <<>>
  BY <1>1 DEF Typed, Format
<1>3. read.stage = "texts" /\ read.sent = 0 /\ call'.step = "idle"
  BY DEF Format, TypeInv, Sends, Waits, clientVars
<1>4. 0 <= Len(chunks')
  <2>1. \E t : chunks' = <<(<<1, Len(t)>>)>> \/ chunks' = <<>>
    BY DEF Format, BeginText
  <2> QED BY <2>1
<1>5. read' = [read EXCEPT !.stage = "text", !.pages = pages, !.sent = 0]
  BY <1>1, <1>2, <1>3 DEF Format, Typed
<1>6. "text" \in Stages \ {"listing", "matched"}
  BY DEF Stages
<1>7. PICK n \in Nat, s \in Stages \ {"listing", "matched"} : n = 0 /\ s = "text"
  BY <1>6
<1>8. read' = [read EXCEPT !.stage = s, !.pages = pages, !.sent = n]
  BY <1>5, <1>7
<1>9. n <= Len(chunks') /\ s \in {"text", "failed"} /\ pages # <<>> /\ s # "item"
  BY <1>2, <1>4, <1>7
<1> QED BY <1>3, <1>7, <1>8, <1>9, MoveTyped

LEMMA SendChunkTyped == ASSUME TypeInv, ChunksInv, SendChunk PROVE TypeInv'
<1>1. PICK F : Typed(F)
  BY DEF TypeInv
<1>2. PICK pages \in Seq(Seq(Parts)), n \in Nat : pages = read.pages /\ n = read.sent /\ pages # <<>>
  BY <1>1 DEF Typed, SendChunk, TypeInv, Sends
<1>3. /\ read.stage = "text" /\ chunks' = chunks /\ n < Len(chunks) /\ Len(chunks) \in Nat
      /\ call'.step = "idle"
  BY <1>2 DEF SendChunk, TypeInv, Waits, clientVars, chunkVars, ChunksInv, ChunkTypes
<1>4. CASE read' = [read EXCEPT !.sent = @ + 1]
  <2>1. read' = [read EXCEPT !.stage = "text", !.pages = pages, !.sent = n + 1]
    BY <1>1, <1>2, <1>3, <1>4 DEF Typed
  <2>2. n + 1 \in Nat /\ n + 1 <= Len(chunks')
    BY <1>3
  <2>3. "text" \in Stages \ {"listing", "matched"}
    BY DEF Stages
  <2> QED BY <1>2, <1>3, <2>1, <2>2, <2>3, MoveTyped
<1>5. CASE read' = [read EXCEPT !.stage = "failed"]
  <2>1. "failed" \in Stages \ {"listing", "matched", "text"}
    BY DEF Stages, Over
  <2> QED BY <1>3, <1>5, <2>1, StageTyped
<1> QED BY <1>4, <1>5 DEF SendChunk

LEMMA TextSentTyped == ASSUME TypeInv, TextSent PROVE TypeInv'
<1>1. PICK F : Typed(F)
  BY DEF TypeInv
<1>2. read.stage = "text" /\ call'.step = "idle" /\ 0 <= Len(chunks')
  BY DEF TextSent, ClearText, TypeInv, Waits, clientVars
<1>3. PICK pages \in Seq(Seq(Parts)) : pages = Tail(read.pages)
  <2>1. read.pages \in Seq(Seq(Parts)) /\ read.pages # <<>>
    BY <1>1, <1>2 DEF Typed, TypeInv, Sends
  <2> QED BY <2>1, Beheaded
<1>4. read' = [read EXCEPT !.stage = "texts", !.pages = pages, !.sent = 0]
  BY <1>3 DEF TextSent
<1>5. "texts" \in Stages \ {"listing", "matched"}
  BY DEF Stages
<1> QED BY <1>2, <1>3, <1>4, <1>5, MoveTyped

LEMMA AnswerTyped == ASSUME TypeInv, EmptyState \/ AllSent PROVE TypeInv'
<1>1. PICK s \in {"answered", "failed"} : read' = [read EXCEPT !.stage = s]
  BY DEF EmptyState, AllSent, Ends
<1>2. /\ read.stage \in {"empty", "texts"} /\ chunks' = chunks /\ call'.step = "idle"
      /\ read.sent = 0
  BY DEF EmptyState, AllSent, TypeInv, Sends, Waits, clientVars, chunkVars
<1>3. s \in Stages \ {"listing", "matched", "text"} /\ s # "item"
  BY DEF Stages, Over
<1> QED BY <1>1, <1>2, <1>3, StageTyped

\* Steps of the client and of chunk_message, which the handler is blind to.
LEMMA OthersTyped ==
  ASSUME TypeInv, UNCHANGED read,
         (call'.step = "idle") <=> (call.step = "idle"), call'.op = call.op,
         Len(chunks) \in Nat, Len(chunks') \in Nat, Len(chunks) <= Len(chunks')
  PROVE  TypeInv'
<1>1. PICK F : Typed(F)
  BY DEF TypeInv
<1>2. Typed(F)'
  BY <1>1 DEF Typed
<1>3. read.sent \in Nat
  BY <1>1 DEF Typed
<1>4. Waits' /\ Sends'
  BY <1>3 DEF TypeInv, Waits, Sends
<1> QED BY <1>2, <1>4 DEF TypeInv

LEMMA WorkingGoesOn ==
  ASSUME ClientInv, Working \/ ResourcesChange \/ VnicsChange
  PROVE  ((call'.step = "idle") <=> (call.step = "idle")) /\ call'.op = call.op
<1>1. CallType
  BY DEF ClientInv, ClientType
<1>2. CASE Working
  BY <1>1, <1>2 DEF Working, GetDomains, GetPage, GetAttachments, GetVnic, Return, Fails, Asking,
                    Detached, CallType, Ended
<1>3. CASE ResourcesChange
  BY <1>1, <1>3 DEF ResourcesChange, CallType, Ended
<1>4. CASE VnicsChange
  BY <1>4 DEF VnicsChange
<1> QED BY <1>2, <1>3, <1>4

LEMMA TypeInvNext ==
  ASSUME TypeInv, RowInv, ClientInv, CollectInv, ChunksInv, [ReadingNext]_vars
  PROVE  TypeInv'
<1>1. Len(chunks) \in Nat
  BY DEF ChunksInv, ChunkTypes
<1>2. CASE Commands
  BY <1>2, CommandTyped DEF Commands
<1>3. CASE Handler
  <2>1. CASE SplitText
    BY <1>1, <2>1, ChunksLonger, OthersTyped DEF SplitText, clientVars
  <2> QED BY <1>3, <2>1, ListFailsTyped, ListReturnsTyped, ResolveTyped, AskNextTyped, ItemReturnsTyped,
        AllAskedTyped, FormatTyped, SendChunkTyped, TextSentTyped, AnswerTyped, LeaveTyped
     DEF Handler
<1>4. CASE (Working \/ ResourcesChange \/ VnicsChange) /\ UNCHANGED handlerVars
  <2>1. UNCHANGED read /\ chunks' = chunks
    BY <1>4 DEF handlerVars, chunkVars
  <2> QED BY <1>1, <1>4, <2>1, WorkingGoesOn, OthersTyped
<1>5. CASE UNCHANGED vars
  BY <1>1, <1>5, OthersTyped DEF vars, clientVars, handlerVars, chunkVars
<1> QED BY <1>2, <1>3, <1>4, <1>5 DEF ReadingNext

LEMMA ReadingAlways ==
  ReadingSpec => [](ClientInv /\ CollectInv /\ ChunksInv /\ RowInv /\ TypeInv)
<1>1. ReadingSpec => [](ClientInv /\ CollectInv)
  <2>1. ClientInit => CollectInv
    BY CollectInvInit
  <2>2. ClientInv /\ CollectInv /\ [ClientNext]_clientVars => CollectInv'
    BY CollectInvNext
  <2>3. ClientSpec => [](ClientInv /\ CollectInv)
    BY <2>1, <2>2, ClientAlways, PTL DEF ClientSpec
  <2> QED BY <2>3, ReadingImplementsClient, PTL
<1>2. ReadingSpec => []ChunksInv
  BY ReadingImplementsChunks, ChunksAlways, PTL
<1>3. ReadingSpec => []RowInv
  BY <1>1, RowInvInit, RowInvNext, PTL DEF ReadingSpec
<1>4. ReadingInit => TypeInv
  BY TypeInvInit
<1>5. TypeInv /\ RowInv /\ ClientInv /\ CollectInv /\ ChunksInv /\ [ReadingNext]_vars => TypeInv'
  BY TypeInvNext
<1> QED BY <1>1, <1>2, <1>3, <1>4, <1>5, PTL DEF ReadingSpec

\* Whatever OCI answers or fails to and however the texts split, what a handler
\* keeps has its type, and it sends no chunk that is not there.
THEOREM ReadingTypes == ReadingSpec => []ReadingTypeOK
<1>1. ClientInv /\ ChunksInv /\ TypeInv => ReadingTypeOK
  <2> SUFFICES ASSUME ClientInv, ChunksInv, TypeInv PROVE ReadingTypeOK
    OBVIOUS
  <2>1. PICK F : Typed(F)
    BY DEF TypeInv
  <2>2. /\ read.cmd \in DOMAIN ListOf \cup {"none"} /\ read.q \in Queries \cup {NoQuery}
        /\ read.stage \in Over \cup {"idle", "listing", "matched", "asking", "item", "texts", "text", "empty"}
        /\ read.items \in Seq(Resources) /\ read.rows \in Seq(Rows) /\ read.sent \in Nat
    BY <2>1 DEF Typed, Stages
  <2>3. read.sent \in 0 .. Len(chunks)
    <3>1. Len(chunks) \in Nat /\ read.sent <= Len(chunks)
      BY DEF ChunksInv, ChunkTypes, TypeInv, Sends
    <3> QED BY <2>2, <3>1
  <2>4. (call.step # "idle") <=> (read.stage \in {"listing", "item"})
    BY DEF TypeInv, Waits
  <2>5. text \in Text \cup {<<>>} /\ next \in 1 .. Len(text) + 1 /\ first \in 1 .. next
    BY DEF ChunksInv, BufferInv
  <2>6. ads_cache \in {NoCache, Domains}
    BY DEF ClientInv, ClientType
  <2> QED BY <2>2, <2>3, <2>4, <2>5, <2>6, Zenon DEF ReadingTypeOK
<1> QED BY <1>1, ReadingAlways, PTL

\* Whatever the query and the list, match finds what the documented precedence
\* means, and only if that is one resource.
THEOREM ReadingMatchedAsMeant == ReadingSpec => []MatchedAsMeant
<1>1. TypeInv => MatchedAsMeant
  <2> SUFFICES ASSUME TypeInv, read.stage = "matched" PROVE MatchedAsMeant
    BY DEF MatchedAsMeant
  <2>1. read.q \in Query /\ read.fit \in Fits(read.q, Range(read.items)) /\ read.items \in Seq(Resources)
    BY InputsAssumption DEF TypeInv, Typed
  <2>2. PICK q, items, fit, m :
          /\ q = read.q /\ items = read.items /\ fit = read.fit /\ m = Match(q, items, fit)
          /\ q \in Query /\ fit \in Fits(q, Range(items)) /\ items \in Seq(Resources)
    BY <2>1
  <2>3. Means(m, Meant(q, Range(items), fit), q.ocid, Resources)
    BY <2>2, MatchIsMeant, Zenon
  <2>4. Means(Matched, Meant(read.q, Range(read.items), read.fit), read.q.ocid, Resources)
    BY <2>2, <2>3, Zenon DEF Matched
  <2>5. PICK found, meant : found = Matched /\ meant = Meant(read.q, Range(read.items), read.fit)
    OBVIOUS
  <2>6. /\ found.outcome = "found" => meant = Range(found.candidates) /\ Len(found.candidates) = 1
        /\ found.outcome = "AmbiguousResource" =>
             meant = Range(found.candidates) /\ Len(found.candidates) > 1
        /\ found.outcome = "ResourceNotFound" => read.q.ocid \/ meant = {}
    <3>1. Means(found, meant, read.q.ocid, Resources)
      BY <2>4, <2>5, Zenon
    <3>2. \A r : Len(<<r>>) = 1
      OBVIOUS
    <3> QED BY <3>1, <3>2, Zenon DEF Means
  <2> QED BY <2>5, <2>6, Zenon DEF MatchedAsMeant
<1> QED BY <1>1, ReadingAlways, PTL

-----------------------------------------------------------------------------
(* What is shown *)

\* What the command is about, as far as it knows.
Answer == IF read.cmd \in ItemCommands THEN read.rows ELSE read.items

Small(cmd, pages) ==
  cmd = "instances" /\ PageSize > 0 => \A k \in DOMAIN pages : Len(pages[k]) <= PageSize

\* What was shown and what is still to be shown are the answer.
Told(stage, cmd, pages, answer, shows) ==
  /\ shows \in Seq(Seq(Parts))
  /\ stage \in {"idle", "listing", "matched", "asking", "item", "empty", "refused"} => shows = <<>>
  /\ stage \in {"asking", "item"} => cmd \in ItemCommands
  /\ stage = "empty" => answer = <<>>
  /\ stage \in {"texts", "text"} =>
       FlattenSeq(shows) \o FlattenSeq(pages) = answer /\ Small(cmd, pages)
  /\ stage = "answered" => shows # <<>> /\ FlattenSeq(shows) = answer
  /\ IsPrefix(FlattenSeq(shows), answer)
  /\ Small(cmd, shows)

ShownInv == Told(read.stage, read.cmd, read.pages, Answer, shown)

LEMMA FlattenMoves ==
  ASSUME NEW S, NEW shows \in Seq(Seq(S)), NEW rest \in Seq(Seq(S)), NEW page \in Seq(S)
  PROVE  FlattenSeq(Append(shows, page)) \o FlattenSeq(rest) = FlattenSeq(shows) \o (page \o FlattenSeq(rest))
<1>1. \A a, b, c \in Seq(S) : (a \o b) \o c = a \o (b \o c)
  OBVIOUS
<1>2. FlattenSeq(shows) \in Seq(S) /\ FlattenSeq(rest) \in Seq(S)
  BY FlattenTyped
<1>3. (FlattenSeq(shows) \o page) \o FlattenSeq(rest) = FlattenSeq(shows) \o (page \o FlattenSeq(rest))
  BY <1>1, <1>2, Zenon
<1>4. FlattenSeq(Append(shows, page)) = FlattenSeq(shows) \o page
  BY FlattenMore
<1> QED BY <1>3, <1>4, Zenon

LEMMA NothingIsPrefix == ASSUME NEW S, NEW s \in Seq(S) PROVE IsPrefix(FlattenSeq(<<>>), s)
<1>1. Len(<<>>) = 0 /\ Len(s) \in Nat
  OBVIOUS
<1>2. SubSeq(<<>>, 1, 0) = SubSeq(s, 1, 0)
  OBVIOUS
<1> QED BY <1>1, <1>2, NothingFlattened DEF IsPrefix

\* Before the first message.
LEMMA ToldNothing ==
  ASSUME NEW stage, NEW cmd, NEW pages, NEW answer \in Seq(Parts),
         stage # "answered",
         stage \in {"asking", "item"} => cmd \in ItemCommands,
         stage = "empty" => answer = <<>>,
         stage \in {"texts", "text"} =>
           pages \in Seq(Seq(Parts)) /\ FlattenSeq(pages) = answer /\ Small(cmd, pages)
  PROVE  Told(stage, cmd, pages, answer, <<>>)
<1>1. <<>> \in Seq(Seq(Parts)) /\ Small(cmd, <<>>)
  BY DEF Small
<1>2. IsPrefix(FlattenSeq(<<>>), answer)
  BY NothingIsPrefix
<1>3. FlattenSeq(<<>>) \o answer = answer
  BY NothingFlattened
<1> QED BY <1>1, <1>2, <1>3, Zenon DEF Told

\* The next text was sent.
LEMMA ToldMore ==
  ASSUME NEW cmd, NEW pages \in Seq(Seq(Parts)), NEW answer, NEW shows, pages # <<>>,
         Told("text", cmd, pages, answer, shows)
  PROVE  Told("texts", cmd, Tail(pages), answer, Append(shows, Head(pages)))
<1>1. PICK page \in Seq(Parts), rest \in Seq(Seq(Parts)) :
        /\ page = Head(pages) /\ rest = Tail(pages)
        /\ FlattenSeq(pages) = page \o FlattenSeq(rest)
  <2>1. /\ Head(pages) \in Seq(Parts) /\ Tail(pages) \in Seq(Seq(Parts))
        /\ FlattenSeq(pages) = Head(pages) \o FlattenSeq(Tail(pages))
    BY FlattenRest, Zenon
  <2> QED BY <2>1, Zenon
<1>2. shows \in Seq(Seq(Parts)) /\ FlattenSeq(shows) \o FlattenSeq(pages) = answer
      /\ Small(cmd, pages) /\ Small(cmd, shows)
  BY DEF Told
<1>3. PICK more : more = Append(shows, page)
  OBVIOUS
<1>4. more \in Seq(Seq(Parts)) /\ FlattenSeq(more) = FlattenSeq(shows) \o page
  BY <1>2, <1>3, Appending, FlattenMore
<1>5. FlattenSeq(more) \o FlattenSeq(rest) = answer
  <2>1. FlattenSeq(Append(shows, page)) \o FlattenSeq(rest) = FlattenSeq(shows) \o (page \o FlattenSeq(rest))
    BY <1>2, FlattenMoves, Zenon
  <2> QED BY <1>1, <1>2, <1>3, <2>1, Zenon
<1>6. IsPrefix(FlattenSeq(more), answer)
  <2>1. FlattenSeq(more) \in Seq(Parts) /\ FlattenSeq(rest) \in Seq(Parts)
    BY <1>4, FlattenTyped
  <2>2. PICK a \in Seq(Parts), b \in Seq(Parts) : a = FlattenSeq(more) /\ b = FlattenSeq(rest)
    BY <2>1
  <2>3. IsPrefix(a, a \o b)
    BY PrefixOf
  <2> QED BY <1>5, <2>2, <2>3, Zenon
<1>7. Small(cmd, rest) /\ Small(cmd, more)
  <2> SUFFICES ASSUME cmd = "instances", PageSize > 0
               PROVE  /\ \A k \in DOMAIN rest : Len(rest[k]) <= PageSize
                      /\ \A k \in DOMAIN more : Len(more[k]) <= PageSize
    BY DEF Small
  <2>1. /\ \A k \in DOMAIN pages : Len(pages[k]) <= PageSize
        /\ \A k \in DOMAIN shows : Len(shows[k]) <= PageSize
    BY <1>2 DEF Small
  <2>2. pages[1] = page /\ 1 \in DOMAIN pages /\ \A k \in DOMAIN rest : rest[k] = pages[k + 1] /\ k + 1 \in DOMAIN pages
    BY <1>1
  <2>3. \A k \in DOMAIN more : (k \in DOMAIN shows /\ more[k] = shows[k]) \/ more[k] = page
    <3>1. Len(shows) \in Nat /\ DOMAIN more = 1 .. Len(shows) + 1 /\ DOMAIN shows = 1 .. Len(shows)
      BY <1>2, <1>3, <1>4, Appending
    <3>2. more[Len(shows) + 1] = page /\ \A k \in 1 .. Len(shows) : more[k] = shows[k]
      BY <1>2, <1>3, Appending
    <3> QED BY <3>1, <3>2
  <2> QED BY <2>1, <2>2, <2>3
<1>8. Told("texts", cmd, rest, answer, more)
  BY <1>4, <1>5, <1>6, <1>7, Zenon DEF Told
<1> QED BY <1>1, <1>3, <1>8, Zenon

\* Only the stage moves.
LEMMA ToldMoves ==
  ASSUME NEW s, NEW t, NEW cmd, NEW pages, NEW answer, NEW shows, Told(s, cmd, pages, answer, shows),
         \/ s = "texts" /\ t = "text"
         \/ t = "failed"
         \/ /\ s = "texts" /\ t = "answered" /\ pages = <<>> /\ shows # <<>>
  PROVE  Told(t, cmd, pages, answer, shows)
<1>1. CASE s = "texts" /\ t = "text"
  BY <1>1 DEF Told
<1>2. CASE t = "failed"
  BY <1>2 DEF Told
<1>3. CASE s = "texts" /\ t = "answered" /\ pages = <<>> /\ shows # <<>>
  <2>1. FlattenSeq(shows) \o FlattenSeq(<<>>) = answer /\ shows \in Seq(Seq(Parts))
    BY <1>3 DEF Told
  <2>2. FlattenSeq(shows) \o <<>> = FlattenSeq(shows)
    <3>1. FlattenSeq(shows) \in Seq(Parts)
      BY <2>1, FlattenTyped
    <3> QED BY <3>1
  <2> QED BY <1>3, <2>1, <2>2, NothingFlattened DEF Told
<1> QED BY <1>1, <1>2, <1>3

\* Nothing to show is said in a message.
LEMMA ToldEmpty ==
  ASSUME NEW s, NEW cmd, NEW pages, NEW answer, NEW shows, Told(s, cmd, pages, answer, shows),
         s = "empty" \/ (s = "texts" /\ pages = <<>> /\ shows = <<>>)
  PROVE  Told("answered", cmd, pages, answer, <<(<<>>)>>)
<1>1. answer = <<>>
  <2>1. CASE s = "empty"
    BY <2>1 DEF Told
  <2>2. CASE s = "texts" /\ pages = <<>> /\ shows = <<>>
    <3>1. FlattenSeq(<<>>) \o FlattenSeq(<<>>) = answer
      BY <2>2 DEF Told
    <3>2. <<>> \o <<>> = <<>>
      OBVIOUS
    <3> QED BY <3>1, <3>2, NothingFlattened
  <2> QED BY <2>1, <2>2
<1>2. PICK none \in Seq(Parts) : none = <<>>
  <2>1. <<>> \in Seq(Parts)
    OBVIOUS
  <2> QED BY <2>1, Zenon
<1>3. PICK more : more = <<none>> /\ more \in Seq(Seq(Parts)) /\ more # <<>>
  <2>1. <<none>> \in Seq(Seq(Parts)) /\ <<none>> # <<>>
    OBVIOUS
  <2> QED BY <2>1, Zenon
<1>4. FlattenSeq(more) = none
  BY <1>3, FlattenOne
<1>5. IsPrefix(none, none)
  BY DEF IsPrefix
<1>6. Small(cmd, more)
  BY <1>2, <1>3, PageSizeAssumption DEF Small
<1>7. Told("answered", cmd, pages, none, more)
  BY <1>3, <1>4, <1>5, <1>6 DEF Told
<1> QED BY <1>1, <1>2, <1>3, <1>7, Zenon

\* What was learned stays, so the answer does.
LEMMA AnswerStays ==
  ASSUME TypeInv, NEW s, NEW p, NEW n, read' = [read EXCEPT !.stage = s, !.pages = p, !.sent = n]
  PROVE  /\ read'.stage = s /\ read'.pages = p /\ read'.cmd = read.cmd
         /\ read'.rows = read.rows /\ Answer' = Answer
<1>1. PICK F : Typed(F)
  BY DEF TypeInv
<1>2. /\ read'.stage = s /\ read'.pages = p /\ read'.cmd = read.cmd
      /\ read'.rows = read.rows /\ read'.items = read.items
  BY <1>1 DEF Typed
<1> QED BY <1>2 DEF Answer

LEMMA MoveShown ==
  ASSUME TypeInv, NEW s, NEW p, NEW n, read' = [read EXCEPT !.stage = s, !.pages = p, !.sent = n],
         Told(s, read.cmd, p, Answer, shown')
  PROVE  ShownInv'
<1>1. /\ read'.stage = s /\ read'.pages = p /\ read'.cmd = read.cmd /\ Answer' = Answer
  BY AnswerStays
<1> QED BY <1>1 DEF ShownInv

LEMMA StageShown ==
  ASSUME TypeInv, NEW s, read' = [read EXCEPT !.stage = s],
         Told(s, read.cmd, read.pages, Answer, shown')
  PROVE  ShownInv'
<1>1. PICK F : Typed(F)
  BY DEF TypeInv
<1>2. PICK p, n : p = read.pages /\ n = read.sent
  OBVIOUS
<1>3. read' = [read EXCEPT !.stage = s, !.pages = p, !.sent = n]
  BY <1>1, <1>2 DEF Typed
<1> QED BY <1>2, <1>3, MoveShown

\* A step of which nothing is shown yet.
LEMMA NothingShown ==
  ASSUME TypeInv', shown' = <<>>, read'.stage # "answered",
         read'.stage \in {"asking", "item"} => read'.cmd \in ItemCommands,
         read'.stage = "empty" => Answer' = <<>>,
         read'.stage \in {"texts", "text"} =>
           /\ read'.pages \in Seq(Seq(Parts)) /\ FlattenSeq(read'.pages) = Answer'
           /\ Small(read'.cmd, read'.pages)
  PROVE  ShownInv'
<1>1. PICK F : Typed(F)'
  BY DEF TypeInv
<1>2. read'.rows \in Seq(Parts) /\ read'.items \in Seq(Parts)
  <2>1. read'.rows \in Seq(Rows) /\ read'.items \in Seq(Resources)
    BY <1>1 DEF Typed
  <2> QED BY <2>1 DEF Parts
<1>3. Answer' \in Seq(Parts)
  BY <1>2 DEF Answer
<1>4. Told(read'.stage, read'.cmd, read'.pages, Answer', <<>>)
  BY <1>3, ToldNothing
<1> QED BY <1>4 DEF ShownInv

LEMMA ShownInvInit == ASSUME ReadingInit PROVE ShownInv
<1>1. Answer = <<>> /\ read.stage = "idle" /\ shown = <<>>
  BY DEF ReadingInit, Idle, Answer
<1>2. <<>> \in Seq(Parts)
  OBVIOUS
<1>3. Told("idle", read.cmd, read.pages, <<>>, <<>>)
  BY <1>2, ToldNothing
<1> QED BY <1>1, <1>3 DEF ShownInv

LEMMA CommandShown ==
  ASSUME TypeInv', ShownInv, NEW cmd, NEW q, Command(cmd, q)
  PROVE  ShownInv'
<1>1. read'.stage = "listing" /\ shown' = <<>>
  BY DEF Command, Idle, ShownInv, Told
<1> QED BY <1>1, NothingShown

LEMMA LeaveShown == ASSUME TypeInv', Leave PROVE ShownInv'
<1>1. read'.stage = "idle" /\ shown' = <<>>
  BY DEF Leave, Idle
<1> QED BY <1>1, NothingShown

LEMMA ContinuesShown ==
  ASSUME TypeInv, TypeInv', RowInv, ShownInv, read.stage \in {"listing", "matched"},
         NEW items \in Seq(Resources), Continues(items), shown' = shown
  PROVE  ShownInv'
<1>1. PICK F : Typed(F)
  BY DEF TypeInv
<1>2. shown' = <<>> /\ read.rows = <<>>
  BY DEF ShownInv, Told, RowInv
<1> DEFINE r == [read EXCEPT !.q = NoQuery, !.fit = <<>>, !.items = items]
<1>3. read' =
     CASE read.cmd = "quota" -> [r EXCEPT !.stage = "asking", !.left = QUOTA_SERVICES]
       [] read.cmd = "public_ip" /\ items = <<>> -> [r EXCEPT !.stage = "empty"]
       [] read.cmd = "public_ip" /\ items # <<>> -> [r EXCEPT !.stage = "asking", !.left = items]
       [] read.cmd = "instances" -> [r EXCEPT !.stage = "texts", !.pages = Paginate(items)]
       [] OTHER -> [r EXCEPT !.stage = "texts", !.pages = <<items>>]
  BY DEF Continues
<1>4. r \in [cmd : DOMAIN ListOf \cup {"none"}, stage : Stages, q : Queries \cup {NoQuery},
             items : Seq(Resources), fit : {<<>>}, left : Seq(Asked), rows : Seq(Rows),
             pages : Seq(Seq(Parts)), sent : Nat]
      /\ r.cmd = read.cmd /\ r.items = items /\ r.rows = read.rows
  BY <1>1 DEF Typed
<1> HIDE DEF r
<1>5. CASE read.cmd = "quota"
  <2>1. read'.stage = "asking" /\ read'.cmd = "quota"
    BY <1>3, <1>4, <1>5
  <2> QED BY <1>2, <2>1, NothingShown DEF ItemCommands
<1>6. CASE read.cmd = "public_ip"
  <2>1. read'.stage \in {"asking", "empty"} /\ read'.cmd = "public_ip" /\ read'.rows = <<>>
    BY <1>2, <1>3, <1>4, <1>6
  <2>2. Answer' = <<>> /\ read'.cmd \in ItemCommands
    BY <2>1 DEF Answer, ItemCommands
  <2> QED BY <1>2, <2>1, <2>2, NothingShown
<1>7. CASE read.cmd \notin {"quota", "public_ip"}
  <2>1. PICK some \in Seq(Parts) : some = items
    BY DEF Parts
  <2>2. PICK pages : /\ pages = IF read.cmd = "instances" THEN Paginate(some) ELSE <<some>>
                     /\ read' = [r EXCEPT !.stage = "texts", !.pages = pages]
    BY <1>3, <1>7, <2>1
  <2>3. /\ read'.stage = "texts" /\ read'.cmd = read.cmd /\ read'.pages = pages /\ read'.items = some
    BY <1>4, <2>1, <2>2
  <2>4. Answer' = some
    BY <1>7, <2>3 DEF Answer, ItemCommands
  <2>5. pages \in Seq(Seq(Parts)) /\ FlattenSeq(pages) = some /\ Small(read.cmd, pages)
    <3>1. CASE read.cmd = "instances"
      <4>1. Small(read.cmd, pages)
        BY <2>2, <3>1, PagesSmall DEF Small
      <4> QED BY <2>2, <3>1, <4>1, PagesFlattened
    <3>2. CASE read.cmd # "instances"
      <4>1. pages = <<some>> /\ <<some>> \in Seq(Seq(Parts))
        BY <2>2, <3>2
      <4> QED BY <3>2, <4>1, FlattenOne DEF Small
    <3> QED BY <3>1, <3>2
  <2> QED BY <1>2, <2>3, <2>4, <2>5, NothingShown
<1> QED BY <1>5, <1>6, <1>7

LEMMA ListReturnsShown ==
  ASSUME TypeInv, TypeInv', RowInv, ClientInv, CollectInv, ShownInv, ListReturns
  PROVE  ShownInv'
<1>1. PICK got \in Seq(Resources) : got = call.got
  BY GotListed
<1>2. read.stage = "listing" /\ shown' = shown
  BY DEF ListReturns
<1>3. CASE read.q = NoQuery
  <2>1. Continues(got)
    BY <1>1, <1>3 DEF ListReturns
  <2> QED BY <1>2, <2>1, ContinuesShown
<1>4. CASE read.q # NoQuery
  <2>1. PICK F : Typed(F)
    BY DEF TypeInv
  <2>2. read'.stage = "matched"
    BY <1>4, <2>1 DEF ListReturns, Typed
  <2>3. shown' = <<>>
    BY <1>2 DEF ShownInv, Told
  <2> QED BY <2>2, <2>3, NothingShown
<1> QED BY <1>3, <1>4

\* A step to a stage that knows of no text, or that gives up.
LEMMA PlainShown ==
  ASSUME TypeInv, TypeInv', ShownInv, NEW s \in {"item", "refused", "failed"},
         read' = [read EXCEPT !.stage = s], shown' = shown,
         s = "item" => read.stage = "asking",
         s = "refused" => read.stage \in {"listing", "matched"}
  PROVE  ShownInv'
<1>1. CASE s = "failed"
  <2>1. Told(s, read.cmd, read.pages, Answer, shown')
    BY <1>1, ToldMoves DEF ShownInv
  <2> QED BY <2>1, StageShown
<1>2. CASE s # "failed"
  <2>1. shown' = <<>> /\ (s = "item" => read.cmd \in ItemCommands)
    BY <1>2 DEF ShownInv, Told
  <2>2. PICK F : Typed(F)
    BY DEF TypeInv
  <2>3. read'.stage = s /\ read'.cmd = read.cmd
    BY <2>2 DEF Typed
  <2> QED BY <1>2, <2>1, <2>3, NothingShown
<1> QED BY <1>1, <1>2

LEMMA ResolveShown ==
  ASSUME TypeInv, TypeInv', RowInv, ShownInv, Resolve
  PROVE  ShownInv'
<1>1. read.stage = "matched" /\ shown' = shown
  BY DEF Resolve
<1>2. CASE Matched.outcome = "found"
  <2>1. PICK r \in Resources : Matched.candidates = <<r>>
    BY <1>1, <1>2, FoundIn
  <2>2. PICK items \in Seq(Resources) : items = <<r>>
    <3>1. <<r>> \in Seq(Resources)
      OBVIOUS
    <3> QED BY <3>1, Zenon
  <2>3. Continues(items)
    BY <1>2, <2>1, <2>2 DEF Resolve
  <2> QED BY <1>1, <2>3, ContinuesShown
<1>3. CASE Matched.outcome # "found"
  <2>1. PICK s \in {"refused", "failed"} : read' = [read EXCEPT !.stage = s]
    BY <1>3 DEF Resolve, Ends
  <2> QED BY <1>1, <2>1, PlainShown
<1> QED BY <1>2, <1>3

LEMMA AskNextShown == ASSUME TypeInv, TypeInv', ShownInv, AskNext PROVE ShownInv'
BY PlainShown DEF AskNext

LEMMA ListFailsShown == ASSUME TypeInv, TypeInv', ShownInv, ListFails PROVE ShownInv'
<1>1. PICK s \in {"refused", "failed"} : read' = [read EXCEPT !.stage = s]
  BY DEF ListFails, Ends
<1> QED BY <1>1, PlainShown DEF ListFails

LEMMA ItemReturnsShown == ASSUME TypeInv, TypeInv', ShownInv, ItemReturns PROVE ShownInv'
<1>1. read.stage = "item" /\ shown' = shown
  BY DEF ItemReturns
<1>2. CASE call.step = "raised"
  BY <1>1, <1>2, PlainShown DEF ItemReturns
<1>3. CASE call.step # "raised"
  <2>1. PICK F : Typed(F)
    BY DEF TypeInv
  <2>2. read'.stage = "asking" /\ read'.cmd = read.cmd
    BY <1>3, <2>1 DEF ItemReturns, Typed
  <2>3. shown' = <<>> /\ read.cmd \in ItemCommands
    BY <1>1 DEF ShownInv, Told
  <2> QED BY <2>2, <2>3, NothingShown
<1> QED BY <1>2, <1>3

LEMMA AllAskedShown == ASSUME TypeInv, TypeInv', ShownInv, AllAsked PROVE ShownInv'
<1>1. PICK F : Typed(F)
  BY DEF TypeInv
<1>2. PICK rows \in Seq(Parts) : rows = read.rows
  <2>1. read.rows \in Seq(Rows)
    BY <1>1 DEF Typed
  <2> QED BY <2>1 DEF Parts
<1>3. shown' = <<>> /\ read.cmd \in ItemCommands
  BY DEF AllAsked, ShownInv, Told
<1>4. PICK pages : pages = <<rows>> /\ pages \in Seq(Seq(Parts)) /\ FlattenSeq(pages) = rows
  <2>1. <<rows>> \in Seq(Seq(Parts))
    OBVIOUS
  <2> QED BY <2>1, FlattenOne
<1>5. /\ read'.stage = "texts" /\ read'.pages = pages
      /\ read'.cmd = read.cmd /\ read'.rows = rows
  BY <1>1, <1>2, <1>4 DEF AllAsked, Typed
<1>6. Answer' = rows /\ Small(read'.cmd, pages)
  BY <1>3, <1>5 DEF Answer, ItemCommands, Small
<1> QED BY <1>3, <1>4, <1>5, <1>6, NothingShown

LEMMA FormatShown == ASSUME TypeInv, ShownInv, Format PROVE ShownInv'
<1>1. read.stage = "texts" /\ shown' = shown /\ read' = [read EXCEPT !.stage = "text"]
  BY DEF Format
<1>2. Told("text", read.cmd, read.pages, Answer, shown)
  BY <1>1, ToldMoves DEF ShownInv
<1> QED BY <1>1, <1>2, StageShown

LEMMA SendChunkShown == ASSUME TypeInv, TypeInv', ShownInv, SendChunk PROVE ShownInv'
<1>1. read.stage = "text" /\ shown' = shown
  BY DEF SendChunk
<1>2. CASE read' = [read EXCEPT !.stage = "failed"]
  BY <1>1, <1>2, PlainShown
<1>3. CASE read' = [read EXCEPT !.sent = @ + 1]
  <2>1. PICK F : Typed(F)
    BY DEF TypeInv
  <2>2. PICK s, p, n : s = "text" /\ p = read.pages /\ n = read.sent + 1
    OBVIOUS
  <2>3. read' = [read EXCEPT !.stage = s, !.pages = p, !.sent = n]
    BY <1>1, <1>3, <2>1, <2>2 DEF Typed
  <2>4. Told(s, read.cmd, p, Answer, shown')
    BY <1>1, <2>2 DEF ShownInv
  <2> QED BY <2>3, <2>4, MoveShown
<1> QED BY <1>2, <1>3 DEF SendChunk

LEMMA TextSentShown == ASSUME TypeInv, ShownInv, TextSent PROVE ShownInv'
<1>1. PICK F : Typed(F)
  BY DEF TypeInv
<1>2. PICK pages \in Seq(Seq(Parts)) : pages = read.pages /\ pages # <<>>
  BY <1>1 DEF Typed, TextSent, TypeInv, Sends
<1>3. read.stage = "text" /\ shown' = Append(shown, Head(pages))
  BY <1>2 DEF TextSent
<1>4. Told("texts", read.cmd, Tail(pages), Answer, Append(shown, Head(pages)))
  BY <1>2, <1>3, ToldMore DEF ShownInv
<1>5. PICK s, p, n : /\ s = "texts" /\ p = Tail(pages) /\ n = 0
                     /\ read' = [read EXCEPT !.stage = s, !.pages = p, !.sent = n]
  BY <1>2 DEF TextSent
<1>6. Told(s, read.cmd, p, Answer, shown')
  BY <1>3, <1>4, <1>5, Zenon
<1> QED BY <1>5, <1>6, MoveShown

LEMMA EmptyStateShown == ASSUME TypeInv, TypeInv', ShownInv, EmptyState PROVE ShownInv'
<1>1. PICK s \in {"answered", "failed"} : read' = [read EXCEPT !.stage = s]
  BY DEF EmptyState, Ends
<1>2. read'.stage = s
  <2>1. PICK F : Typed(F)
    BY DEF TypeInv
  <2> QED BY <1>1, <2>1 DEF Typed
<1>3. CASE s = "failed"
  <2>1. shown' = shown
    BY <1>2, <1>3 DEF EmptyState
  <2> QED BY <1>1, <1>3, <2>1, PlainShown
<1>4. CASE s = "answered"
  <2>1. shown' = <<(<<>>)>>
    BY <1>2, <1>4 DEF EmptyState
  <2>2. \/ read.stage = "empty"
        \/ read.stage = "texts" /\ read.pages = <<>> /\ shown = <<>>
    BY DEF EmptyState
  <2>3. Told("answered", read.cmd, read.pages, Answer, <<(<<>>)>>)
    BY <2>2, ToldEmpty DEF ShownInv
  <2>4. Told(s, read.cmd, read.pages, Answer, shown')
    BY <1>4, <2>1, <2>3, Zenon
  <2> QED BY <1>1, <2>4, StageShown
<1> QED BY <1>3, <1>4

LEMMA AllSentShown == ASSUME TypeInv, ShownInv, AllSent PROVE ShownInv'
<1>1. /\ read.stage = "texts" /\ read.pages = <<>> /\ shown # <<>> /\ shown' = shown
      /\ read' = [read EXCEPT !.stage = "answered"]
  BY DEF AllSent
<1>2. Told("answered", read.cmd, read.pages, Answer, shown)
  BY <1>1, ToldMoves DEF ShownInv
<1> QED BY <1>1, <1>2, StageShown

LEMMA ShownInvNext ==
  ASSUME TypeInv, TypeInv', RowInv, ClientInv, CollectInv, ShownInv, [ReadingNext]_vars
  PROVE  ShownInv'
<1>1. CASE Commands
  BY <1>1, CommandShown DEF Commands
<1>2. CASE UNCHANGED <<read, shown>>
  BY <1>2 DEF ShownInv, Answer
<1>3. CASE Handler
  BY <1>2, <1>3, ListFailsShown, ListReturnsShown, ResolveShown, AskNextShown, ItemReturnsShown,
     AllAskedShown, FormatShown, SendChunkShown, TextSentShown, EmptyStateShown, AllSentShown,
     LeaveShown
  DEF Handler, SplitText
<1> QED BY <1>1, <1>2, <1>3 DEF ReadingNext, vars, handlerVars

\* However many pages and texts, and whichever call or message fails, the
\* messages have shown the beginning of what the command is about, and an answer
\* that was sent to its end has shown all of it.
THEOREM ReadingEverythingShown == ReadingSpec => []EverythingShown
<1>1. ReadingInit => ShownInv
  BY ShownInvInit
<1>2. ShownInv => EverythingShown
  BY Zenon DEF ShownInv, Told, Small, Answer, EverythingShown
<1>3. /\ TypeInv /\ TypeInv' /\ RowInv /\ ClientInv /\ CollectInv /\ ShownInv /\ [ReadingNext]_vars
      => ShownInv'
  BY ShownInvNext
<1> QED BY <1>1, <1>2, <1>3, ReadingAlways, PTL DEF ReadingSpec
=============================================================================
