----------------------------- MODULE BrowserProofs -----------------------------
(***************************************************************************)
(* Proofs about BrowserClient for every number of endpoints and requests   *)
(* and every policy.  Its type invariant, the consistency of the page and  *)
(* the fact that nothing is left hanging are inductive together.           *)
(***************************************************************************)
EXTENDS BrowserClient, FiniteSetTheorems, TLAPS

HangingInv ==
  /\ \A r \in Requests : windows[r] = Blank => requests[r].kind = "compare"
  /\ submitDisabled => \E r \in Requests : requests[r].kind = "submit" \/ requests[r].submit

ConsistencyInv ==
  /\ selected \cup armed \subseteq DOMAIN shown
  /\ Cardinality(selected) <= MaxSelected
  /\ summary = Summary(shown)
  /\ ~compareDisabled => ~OutOfBounds(selected)
  /\ compareDisabled /\ ~OutOfBounds(selected) => Comparing

IInv == TypeOK /\ HangingInv /\ ConsistencyInv

-----------------------------------------------------------------------------
LEMMA RecordTypes ==
  /\ Nothing \in Lists /\ DOMAIN Nothing = {}
  /\ Free \in RequestRecords /\ Free.kind = "none" /\ ~Free.submit
  /\ \A kind \in {"load", "delete", "submit", "compare"}, ids \in SUBSET Targets, submit \in BOOLEAN :
       /\ Sent(kind, ids, submit) \in RequestRecords
       /\ Sent(kind, ids, submit).kind = kind /\ Sent(kind, ids, submit).submit = submit
<1>1. Nothing \in [{} -> States] /\ {} \in SUBSET Targets /\ DOMAIN Nothing = {}
  BY DEF Nothing
<1>2. Nothing \in Lists
  BY <1>1 DEF Lists
<1> HIDE DEF Nothing
<1>3. Free \in RequestRecords
  BY <1>2, Zenon DEF Free, RequestRecords
<1>4. ASSUME NEW kind \in {"load", "delete", "submit", "compare"}, NEW ids \in SUBSET Targets,
             NEW submit \in BOOLEAN
      PROVE  Sent(kind, ids, submit) \in RequestRecords
  BY <1>2 DEF Sent, RequestRecords
<1> QED
  BY <1>1, <1>2, <1>3, <1>4 DEF Free, Sent

LEMMA ListDomain == ASSUME NEW list \in Lists PROVE DOMAIN list \subseteq Targets
  BY DEF Lists

LEMMA SelectionIsFinite ==
  ASSUME NEW ids \in SUBSET Targets
  PROVE  IsFiniteSet(ids) /\ Cardinality(ids) \in Nat
  BY PolicyAssumption, FS_Subset, FS_CardinalityType

LEMMA InitEstablishes == Init => IInv
<1> SUFFICES ASSUME Init PROVE IInv
  OBVIOUS
<1>1. TypeOK
  <2>1. /\ registry \in Lists /\ shown \in Lists /\ armed \subseteq Targets /\ selected \subseteq Targets
        /\ compareDisabled \in BOOLEAN /\ submitDisabled \in BOOLEAN /\ here \in BOOLEAN
    BY RecordTypes, PolicyAssumption DEF Init
  <2>2. requests \in [Requests -> RequestRecords] /\ \A r \in Requests : requests[r] = Free
    BY RecordTypes DEF Init
  <2>3. windows \in [Requests -> {NoWindow, Blank, "comparison"}]
    BY DEF Init
  <2>4. changes \in 0..MaxChanges /\ faults \in 0..MaxFaults
    BY PolicyAssumption DEF Init
  <2> QED
    BY <2>1, <2>2, <2>3, <2>4, RecordTypes DEF TypeOK
<1>2. Cardinality({}) = 0
  BY FS_EmptySet
<1>3. OutOfBounds({})
  BY <1>2, PolicyAssumption DEF OutOfBounds
<1> QED
  BY <1>1, <1>2, <1>3, RecordTypes, PolicyAssumption
  DEF Init, IInv, HangingInv, ConsistencyInv, Blank, NoWindow

\* What a list that is rendered leaves on the page.
LEMMA RenderStep ==
  ASSUME IInv, NEW list \in Lists, Render(list)
  PROVE  /\ shown' \in Lists /\ armed' \subseteq Targets /\ selected' \subseteq Targets
         /\ compareDisabled' \in BOOLEAN
         /\ selected' \cup armed' \subseteq DOMAIN shown'
         /\ Cardinality(selected') <= MaxSelected
         /\ summary' = Summary(shown')
         /\ compareDisabled' = OutOfBounds(selected')
<1>1. selected' = selected \cap DOMAIN list /\ selected \subseteq Targets
  BY DEF Render, StillListed, IInv, TypeOK
<1>2. Cardinality(selected') <= Cardinality(selected)
  BY <1>1, SelectionIsFinite, FS_Subset
<1>3. Cardinality(selected') <= MaxSelected
  BY <1>1, <1>2, SelectionIsFinite, PolicyAssumption DEF IInv, ConsistencyInv
<1>4. OutOfBounds(selected') \in BOOLEAN
  BY DEF OutOfBounds
<1> QED
  BY <1>1, <1>3, <1>4, ListDomain DEF Render

-----------------------------------------------------------------------------
\* A request is sent from a slot that is free.
LEMMA SendStep ==
  ASSUME IInv, NEW r \in Requests, NEW kind \in {"load", "delete", "submit", "compare"},
         NEW ids \in SUBSET Targets, Send(r, Sent(kind, ids, FALSE))
  PROVE  /\ here /\ requests[r] = Free /\ requests' \in [Requests -> RequestRecords]
         /\ requests'[r].kind = kind /\ requests'[r] # Free /\ ~requests'[r].submit
         /\ \A other \in Requests \ {r} : requests'[other] = requests[other]
<1>1. Sent(kind, ids, FALSE) \in RequestRecords /\ Sent(kind, ids, FALSE).kind = kind
      /\ ~Sent(kind, ids, FALSE).submit /\ Sent(kind, ids, FALSE) # Free
  BY RecordTypes
<1>2. requests' = [requests EXCEPT ![r] = Sent(kind, ids, FALSE)] /\ requests \in [Requests -> RequestRecords]
  BY DEF Send, IInv, TypeOK
<1> QED
  BY <1>1, <1>2 DEF Send

\* What a request that is sent leaves of the invariant.
LEMMA AfterSend ==
  ASSUME IInv, NEW r \in Requests, NEW kind \in {"load", "delete", "submit", "compare"},
         NEW ids \in SUBSET Targets, Send(r, Sent(kind, ids, FALSE))
  PROVE  /\ here
         /\ requests' \in [Requests -> RequestRecords]
         /\ \A other \in Requests : /\ requests'[other].kind = "none" => requests'[other] = Free
                                    /\ requests'[other].submit => requests'[other].kind = "load"
         /\ requests'[r].kind = kind
         /\ \A other \in Requests : other # r => requests'[other] = requests[other]
         /\ windows[r] # Blank
         /\ Comparing => Comparing'
         /\ submitDisabled => \E other \in Requests : requests'[other].kind = "submit" \/ requests'[other].submit
<1>1. /\ here /\ requests[r] = Free /\ requests' \in [Requests -> RequestRecords]
      /\ requests'[r].kind = kind /\ ~requests'[r].submit
      /\ \A other \in Requests \ {r} : requests'[other] = requests[other]
  BY SendStep
<1>2. Free.kind = "none" /\ ~Free.submit
  BY RecordTypes
<1>3. /\ requests[r].kind # "compare" /\ requests[r].kind # "submit" /\ ~requests[r].submit
      /\ windows[r] # Blank
  BY <1>1, <1>2 DEF IInv, HangingInv
<1>4. Comparing => Comparing'
  BY <1>1, <1>3 DEF Comparing
<1>5. submitDisabled => \E other \in Requests : requests'[other].kind = "submit" \/ requests'[other].submit
  BY <1>1, <1>3 DEF IInv, HangingInv
<1> QED
  BY <1>1, <1>3, <1>4, <1>5 DEF IInv, TypeOK

LEMMA PollStep == ASSUME IInv, NEW r \in Requests, Poll(r) PROVE IInv'
<1>9. {} \in SUBSET Targets /\ selected \in SUBSET Targets
  BY DEF IInv, TypeOK
<1>1. /\ Send(r, Sent("load", {}, FALSE))
      /\ UNCHANGED <<registry, shown, summary, armed, selected, compareDisabled,
                    submitDisabled, windows, here, changes, faults>>
  BY DEF Poll, page
<1>2. /\ requests' \in [Requests -> RequestRecords]
      /\ \A other \in Requests : /\ requests'[other].kind = "none" => requests'[other] = Free
                                 /\ requests'[other].submit => requests'[other].kind = "load"
      /\ requests'[r].kind = "load"
      /\ \A other \in Requests : other # r => requests'[other] = requests[other]
      /\ windows[r] # Blank
      /\ Comparing => Comparing'
      /\ submitDisabled => \E other \in Requests :
                              requests'[other].kind = "submit" \/ requests'[other].submit
  BY <1>9, <1>1, AfterSend
<1>4. TypeOK'
  BY <1>1, <1>2 DEF IInv, TypeOK
<1>5. HangingInv'
  BY <1>1, <1>2 DEF IInv, TypeOK, HangingInv
<1>6. ConsistencyInv'
  BY <1>1, <1>2 DEF IInv, ConsistencyInv
<1> QED
  BY <1>4, <1>5, <1>6 DEF IInv

LEMMA CompareStep == ASSUME IInv, NEW r \in Requests, Compare(r) PROVE IInv'
<1>9. {} \in SUBSET Targets /\ selected \in SUBSET Targets
  BY DEF IInv, TypeOK
<1>1. /\ Send(r, Sent("compare", selected, FALSE))
      /\ compareDisabled' = TRUE /\ ~OutOfBounds(selected)
      /\ \E opened \in {Blank, NoWindow} : windows' = [windows EXCEPT ![r] = opened]
      /\ UNCHANGED <<registry, shown, summary, armed, selected, submitDisabled,
                    here, changes, faults>>
  BY DEF Compare
<1>2. /\ requests' \in [Requests -> RequestRecords]
      /\ \A other \in Requests : /\ requests'[other].kind = "none" => requests'[other] = Free
                                 /\ requests'[other].submit => requests'[other].kind = "load"
      /\ requests'[r].kind = "compare"
      /\ \A other \in Requests : other # r => requests'[other] = requests[other]
      /\ windows[r] # Blank
      /\ Comparing => Comparing'
      /\ submitDisabled => \E other \in Requests :
                              requests'[other].kind = "submit" \/ requests'[other].submit
  BY <1>9, <1>1, AfterSend
<1>4. TypeOK'
  BY <1>1, <1>2 DEF IInv, TypeOK
<1>5. HangingInv'
  BY <1>1, <1>2 DEF IInv, TypeOK, HangingInv
<1>6. ConsistencyInv'
  BY <1>1, <1>2 DEF IInv, ConsistencyInv, Comparing
<1> QED
  BY <1>4, <1>5, <1>6 DEF IInv

LEMMA UserStep ==
  ASSUME IInv, NEW r \in Requests, NEW id \in Targets,
         Remove(r, id) \/ Submit(r, id)
  PROVE  IInv'
<1>0. {id} \in SUBSET Targets
  BY DEF IInv, TypeOK
<1>1. CASE Remove(r, id)
  <2>1. /\ Send(r, Sent("delete", {id}, FALSE))
        /\ armed' = armed \ {id} /\ changes' = changes + 1 /\ changes < MaxChanges
        /\ UNCHANGED <<registry, shown, summary, selected, compareDisabled, submitDisabled,
                      windows, here, faults>>
    BY <1>1 DEF Remove
  <2>2. /\ requests' \in [Requests -> RequestRecords]
        /\ \A other \in Requests : /\ requests'[other].kind = "none" => requests'[other] = Free
                                   /\ requests'[other].submit => requests'[other].kind = "load"
        /\ requests'[r].kind = "delete"
        /\ \A other \in Requests : other # r => requests'[other] = requests[other]
        /\ windows[r] # Blank
        /\ Comparing => Comparing'
        /\ submitDisabled => \E other \in Requests :
                                requests'[other].kind = "submit" \/ requests'[other].submit
    BY <1>0, <2>1, AfterSend
  <2>3. changes' \in 0..MaxChanges
    BY <2>1, PolicyAssumption DEF IInv, TypeOK
  <2>4. TypeOK'
    BY <2>1, <2>2, <2>3 DEF IInv, TypeOK
  <2>5. HangingInv'
    BY <2>1, <2>2 DEF IInv, TypeOK, HangingInv
  <2>6. ConsistencyInv'
    BY <2>1, <2>2 DEF IInv, ConsistencyInv
  <2> QED
    BY <2>4, <2>5, <2>6 DEF IInv
<1>2. CASE Submit(r, id)
  <2>1. /\ Send(r, Sent("submit", {id}, FALSE))
        /\ submitDisabled' = TRUE /\ changes' = changes + 1 /\ changes < MaxChanges
        /\ UNCHANGED <<registry, shown, summary, armed, selected, compareDisabled,
                      windows, here, faults>>
    BY <1>2 DEF Submit
  <2>2. /\ requests' \in [Requests -> RequestRecords]
        /\ \A other \in Requests : /\ requests'[other].kind = "none" => requests'[other] = Free
                                   /\ requests'[other].submit => requests'[other].kind = "load"
        /\ requests'[r].kind = "submit"
        /\ \A other \in Requests : other # r => requests'[other] = requests[other]
        /\ windows[r] # Blank
        /\ Comparing => Comparing'
        /\ submitDisabled => \E other \in Requests :
                                requests'[other].kind = "submit" \/ requests'[other].submit
    BY <1>0, <2>1, AfterSend
  <2>3. changes' \in 0..MaxChanges
    BY <2>1, PolicyAssumption DEF IInv, TypeOK
  <2>4. TypeOK'
    BY <2>1, <2>2, <2>3 DEF IInv, TypeOK
  <2>5. HangingInv'
    BY <2>1, <2>2 DEF IInv, TypeOK, HangingInv
  <2>6. ConsistencyInv'
    BY <2>1, <2>2 DEF IInv, ConsistencyInv
  <2> QED
    BY <2>4, <2>5, <2>6 DEF IInv
<1> QED
  BY <1>1, <1>2

LEMMA ToggleStep == ASSUME IInv, NEW id \in Targets, Toggle(id) PROVE IInv'
<1>1. /\ id \in DOMAIN shown
      /\ id \in selected \/ Cardinality(selected) < MaxSelected
      /\ selected' = IF id \in selected THEN selected \ {id} ELSE selected \cup {id}
      /\ compareDisabled' = OutOfBounds(selected')
      /\ UNCHANGED <<registry, shown, summary, armed, submitDisabled, requests, windows, here, changes, faults>>
  BY DEF Toggle
<1>2. selected \in SUBSET Targets /\ Cardinality(selected) <= MaxSelected
  BY DEF IInv, TypeOK, ConsistencyInv
<1>3. Cardinality(selected') <= MaxSelected
  <2>1. CASE id \in selected
    BY <1>1, <1>2, <2>1, SelectionIsFinite, FS_RemoveElement, PolicyAssumption
  <2>2. CASE id \notin selected
    BY <1>1, <1>2, <2>2, SelectionIsFinite, FS_AddElement, PolicyAssumption
  <2> QED
    BY <2>1, <2>2
<1>4. OutOfBounds(selected') \in BOOLEAN
  BY DEF OutOfBounds
<1>5. TypeOK'
  BY <1>1, <1>2, <1>4 DEF IInv, TypeOK
<1>6. HangingInv'
  BY <1>1 DEF IInv, HangingInv
<1>7. selected' \cup armed' \subseteq DOMAIN shown'
  BY <1>1 DEF IInv, ConsistencyInv
<1>8. ~compareDisabled' <=> ~OutOfBounds(selected')
  BY <1>1
<1>9. ConsistencyInv'
  BY <1>1, <1>3, <1>7, <1>8 DEF IInv, ConsistencyInv
<1> QED
  BY <1>5, <1>6, <1>9 DEF IInv

-----------------------------------------------------------------------------
LEMMA ServeStep == ASSUME IInv, NEW r \in Requests, Serve(r) PROVE IInv'
<1>1. /\ requests[r].phase = "sent" /\ requests[r] \in RequestRecords
      /\ UNCHANGED <<shown, summary, armed, selected, compareDisabled, submitDisabled, windows, here, changes>>
  BY DEF Serve, page, IInv, TypeOK
<1>9. faults' \in 0 .. MaxFaults
  <2>1. faults \in 0 .. MaxFaults /\ MaxFaults \in Nat
    BY PolicyAssumption DEF IInv, TypeOK
  <2>2. faults' = faults \/ (faults < MaxFaults /\ faults' = faults + 1)
    BY DEF Serve, ServeFailure
  <2> QED
    BY <2>1, <2>2
<1>2. registry' \in Lists
  <2>1. ASSUME NEW ids \in SUBSET Targets, NEW list \in [ids -> States] PROVE list \in Lists
    BY DEF Lists
  <2>2. requests[r].ids \subseteq Targets /\ DOMAIN registry \subseteq Targets /\ registry \in [DOMAIN registry -> States]
    BY <1>1, ListDomain DEF IInv, TypeOK, RequestRecords, Lists
  <2>3. Without(requests[r].ids) \in Lists
    <3>1. Without(requests[r].ids) \in [DOMAIN registry \ requests[r].ids -> States]
      BY <2>2 DEF Without
    <3> QED
      BY <2>1, <2>2, <3>1
  <2>4. With(requests[r].ids) \in Lists
    <3>1. With(requests[r].ids) \in [DOMAIN registry \cup requests[r].ids -> States]
      BY <2>2 DEF With, States
    <3> QED
      BY <2>1, <2>2, <3>1
  <2>5. registry' \in {registry, Without(requests[r].ids), With(requests[r].ids)}
    BY DEF Serve, ServeDelete, ServeSubmit, ServeCompare, ServeList, ServeFailure
  <2> QED
    BY <2>3, <2>4, <2>5 DEF IInv, TypeOK
<1>3. PICK ok \in BOOLEAN, list \in Lists :
        requests' = [requests EXCEPT ![r].phase = "answered", ![r].ok = ok, ![r].list = list]
  <2>1. registry \in Lists /\ Nothing \in Lists
    BY RecordTypes DEF IInv, TypeOK
  <2>2. CASE ServeDelete(r, requests[r].ids)
    BY <2>1, <2>2 DEF ServeDelete, Answered
  <2>3. CASE ServeSubmit(r, requests[r].ids)
    BY <2>1, <2>3 DEF ServeSubmit, Answered
  <2>4. CASE ServeCompare(r, requests[r].ids)
    BY <2>1, <2>4 DEF ServeCompare, Answered
  <2>5. CASE ServeList(r)
    BY <2>1, <2>5 DEF ServeList, Answered
  <2>6. CASE ServeFailure(r, requests[r].ids)
    BY <2>1, <2>6 DEF ServeFailure, Answered
  <2> QED
    BY <2>2, <2>3, <2>4, <2>5, <2>6 DEF Serve
<1>4. requests \in [Requests -> RequestRecords]
  BY DEF IInv, TypeOK
<1>5. /\ requests' \in [Requests -> RequestRecords]
      /\ \A other \in Requests : /\ requests'[other].kind = requests[other].kind
                                 /\ requests'[other].submit = requests[other].submit
                                 /\ other # r => requests'[other] = requests[other]
  BY <1>3, <1>4 DEF RequestRecords
<1>6. requests[r].kind # "none"
  BY <1>1 DEF IInv, TypeOK, Free
<1>7. TypeOK'
  BY <1>1, <1>2, <1>5, <1>6, <1>9 DEF IInv, TypeOK
<1>8. HangingInv' /\ ConsistencyInv'
  BY <1>1, <1>5 DEF IInv, HangingInv, ConsistencyInv, Comparing
<1> QED
  BY <1>7, <1>8 DEF IInv

LEMMA OthersStep == ASSUME IInv, OthersChange PROVE IInv'
<1>1. /\ changes' \in 0..MaxChanges
      /\ UNCHANGED <<shown, summary, armed, selected, compareDisabled, submitDisabled, windows, here, requests, faults>>
  BY PolicyAssumption DEF OthersChange, page, IInv, TypeOK
<1>2. registry' \in Lists
  <2>1. PICK id \in Targets, state \in States :
          registry' \in {[other \in DOMAIN registry \cup {id} |->
                           IF other = id THEN state ELSE registry[other]],
                        [other \in DOMAIN registry \ {id} |-> registry[other]]}
    BY DEF OthersChange
  <2>2. DOMAIN registry \subseteq Targets /\ registry \in [DOMAIN registry -> States]
    BY ListDomain DEF IInv, TypeOK, Lists
  <2>3. \/ registry' \in [DOMAIN registry \cup {id} -> States]
        \/ registry' \in [DOMAIN registry \ {id} -> States]
    BY <2>1, <2>2
  <2> QED
    BY <2>2, <2>3 DEF Lists
<1>3. TypeOK' /\ HangingInv' /\ ConsistencyInv'
  BY <1>1, <1>2 DEF IInv, TypeOK, HangingInv, ConsistencyInv, Comparing
<1> QED
  BY <1>3 DEF IInv

-----------------------------------------------------------------------------
\* The request of a slot is replaced by another or by none.
LEMMA ReplaceStep ==
  ASSUME IInv, NEW r \in Requests, NEW request \in RequestRecords,
         requests' = [requests EXCEPT ![r] = request]
  PROVE  /\ requests' \in [Requests -> RequestRecords] /\ requests'[r] = request
         /\ \A other \in Requests \ {r} : requests'[other] = requests[other]
  BY DEF IInv, TypeOK

\* A list is loaded, and rendered or not.
LEMMA LoadEnds ==
  ASSUME IInv, NEW r \in Requests, requests[r].kind = "load", EndLoad(r),
         UNCHANGED <<registry, windows, here, changes>>, faults' \in 0..MaxFaults,
         \/ Render(requests[r].list)
         \/ UNCHANGED <<shown, summary, armed, selected, compareDisabled>>
  PROVE  IInv'
<1>1. /\ requests' \in [Requests -> RequestRecords] /\ requests'[r] = Free
      /\ \A other \in Requests \ {r} : requests'[other] = requests[other]
  BY ReplaceStep, RecordTypes DEF EndLoad, Finish
<1>2. submitDisabled' = IF requests[r].submit THEN FALSE ELSE submitDisabled
  BY DEF EndLoad
<1>3. requests[r].list \in Lists
  BY DEF IInv, TypeOK, RequestRecords
<1>4. Comparing => Comparing'
  BY <1>1 DEF Comparing
<1>5. /\ shown' \in Lists /\ armed' \subseteq Targets /\ selected' \subseteq Targets
      /\ compareDisabled' \in BOOLEAN
      /\ selected' \cup armed' \subseteq DOMAIN shown'
      /\ Cardinality(selected') <= MaxSelected
      /\ summary' = Summary(shown')
      /\ ~compareDisabled' => ~OutOfBounds(selected')
      /\ compareDisabled' /\ ~OutOfBounds(selected') => Comparing'
  <2>1. CASE Render(requests[r].list)
    BY <1>3, <2>1, RenderStep
  <2>2. CASE UNCHANGED <<shown, summary, armed, selected, compareDisabled>>
    BY <1>4, <2>2 DEF IInv, TypeOK, ConsistencyInv
  <2> QED
    BY <2>1, <2>2
<1>6. TypeOK'
  <2>1. submitDisabled' \in BOOLEAN
    BY <1>2 DEF IInv, TypeOK
  <2>2. \A other \in Requests : /\ requests'[other].kind = "none" => requests'[other] = Free
                                /\ requests'[other].submit => requests'[other].kind = "load"
    BY <1>1, RecordTypes DEF IInv, TypeOK
  <2> QED
    BY <1>1, <1>5, <2>1, <2>2 DEF IInv, TypeOK
<1>7. HangingInv'
  BY <1>1, <1>2 DEF IInv, HangingInv
<1>8. ConsistencyInv'
  BY <1>5 DEF ConsistencyInv
<1> QED
  BY <1>6, <1>7, <1>8 DEF IInv

\* A removal or a registration ends, or its list is loaded.
LEMMA ChangeEnds ==
  ASSUME IInv, NEW r \in Requests, requests[r].kind \in {"delete", "submit"},
         NEW request \in {Free, Sent("load", {}, FALSE), Sent("load", {}, TRUE)},
         requests' = [requests EXCEPT ![r] = request],
         UNCHANGED <<registry, shown, summary, armed, selected, compareDisabled, windows, here, changes>>,
         faults' \in 0..MaxFaults, submitDisabled' \in BOOLEAN,
         submitDisabled' => submitDisabled,
         submitDisabled' /\ requests[r].kind = "submit" => request.submit
  PROVE  IInv'
<1>1. /\ request \in RequestRecords /\ request.kind \in {"none", "load"}
      /\ request.kind = "none" => request = Free
      /\ request.submit => request.kind = "load"
  <2>1. /\ Sent("load", {}, FALSE) \in RequestRecords /\ Sent("load", {}, FALSE).kind = "load"
        /\ Sent("load", {}, TRUE) \in RequestRecords /\ Sent("load", {}, TRUE).kind = "load"
    BY RecordTypes, {} \in SUBSET Targets
  <2>2. Free \in RequestRecords /\ Free.kind = "none" /\ ~Free.submit
    BY RecordTypes
  <2> QED
    BY <2>1, <2>2
<1>2. /\ requests' \in [Requests -> RequestRecords] /\ requests'[r] = request
      /\ \A other \in Requests \ {r} : requests'[other] = requests[other]
  BY <1>1, ReplaceStep
<1>3. Comparing => Comparing'
  BY <1>2 DEF Comparing
<1>4. ~requests[r].submit
  BY DEF IInv, TypeOK
<1>5. TypeOK'
  BY <1>1, <1>2 DEF IInv, TypeOK
<1>6. HangingInv'
  BY <1>1, <1>2, <1>4 DEF IInv, HangingInv
<1>7. ConsistencyInv'
  BY <1>3 DEF IInv, ConsistencyInv
<1> QED
  BY <1>5, <1>6, <1>7 DEF IInv

LEMMA RefusedStep ==
  ASSUME IInv, NEW r \in Requests, requests[r].kind = "submit", Refused(r),
         UNCHANGED <<registry, changes>>, faults' \in 0..MaxFaults
  PROVE  IInv'
<1>1. /\ requests' = [requests EXCEPT ![r] = Free] /\ submitDisabled' = FALSE
      /\ UNCHANGED <<shown, summary, armed, selected, compareDisabled, windows, here>>
  BY DEF Refused, Finish
<1>2. submitDisabled' \in BOOLEAN /\ (submitDisabled' => submitDisabled)
      /\ (submitDisabled' /\ requests[r].kind = "submit" => Free.submit)
  BY <1>1
<1> QED
  BY <1>1, <1>2, ChangeEnds

\* A comparison ends and its window is no longer blank, or the page is left.
LEMMA CompareEnds ==
  ASSUME IInv, NEW r \in Requests, requests[r].kind = "compare", Finish(r),
         compareDisabled' = OutOfBounds(selected),
         windows' \in [Requests -> {NoWindow, Blank, "comparison"}],
         windows'[r] # Blank, \A other \in Requests \ {r} : windows'[other] = windows[other],
         here' \in BOOLEAN, faults' \in 0..MaxFaults,
         UNCHANGED <<registry, shown, summary, armed, selected, submitDisabled, changes>>
  PROVE  IInv'
<1>1. /\ requests' \in [Requests -> RequestRecords] /\ requests'[r] = Free
      /\ \A other \in Requests \ {r} : requests'[other] = requests[other]
  BY ReplaceStep, RecordTypes DEF Finish
<1>2. OutOfBounds(selected) \in BOOLEAN
  BY DEF OutOfBounds
<1>3. ~requests[r].submit
  BY DEF IInv, TypeOK
<1>4. TypeOK'
  BY <1>1, <1>2, RecordTypes DEF IInv, TypeOK
<1>5. HangingInv'
  BY <1>1, <1>3 DEF IInv, HangingInv
<1>6. ConsistencyInv'
  <2>1. compareDisabled' <=> OutOfBounds(selected')
    OBVIOUS
  <2> QED
    BY <2>1 DEF IInv, ConsistencyInv
<1> QED
  BY <1>4, <1>5, <1>6 DEF IInv

LEMMA ReceiveStep == ASSUME IInv, NEW r \in Requests, Receive(r) PROVE IInv'
<1>1. UNCHANGED <<registry, changes, faults>> /\ faults \in 0..MaxFaults /\ submitDisabled \in BOOLEAN
  BY DEF Receive, IInv, TypeOK
<1>2. CASE ReceiveList(r)
  BY <1>1, <1>2, LoadEnds DEF ReceiveList
<1>3. CASE ReceiveDelete(r)
  BY <1>1, <1>3, ChangeEnds DEF ReceiveDelete, page
<1>4. CASE ReceiveSubmit(r)
  <2>1. Sent("load", {}, TRUE).submit
    BY DEF Sent
  <2>2. CASE requests[r].ok
    <3>1. /\ requests[r].kind = "submit" /\ requests' = [requests EXCEPT ![r] = Sent("load", {}, TRUE)]
          /\ UNCHANGED <<shown, summary, armed, selected, compareDisabled, submitDisabled, windows, here>>
      BY <1>4, <2>2 DEF ReceiveSubmit, page
    <3> QED
      BY <1>1, <2>1, <3>1, ChangeEnds
  <2>3. CASE ~requests[r].ok
    <3>1. Refused(r) /\ requests[r].kind = "submit"
      BY <1>4, <2>3 DEF ReceiveSubmit
    <3> QED
      BY <1>1, <3>1, RefusedStep
  <2> QED
    BY <2>2, <2>3
<1>5. CASE ReceiveCompare(r)
  <2>1. /\ requests[r].kind = "compare" /\ Finish(r) /\ compareDisabled' = OutOfBounds(selected)
        /\ UNCHANGED <<shown, summary, armed, selected, submitDisabled>>
    BY <1>5 DEF ReceiveCompare
  <2>2. windows \in [Requests -> {NoWindow, Blank, "comparison"}] /\ here \in BOOLEAN
    BY DEF IInv, TypeOK
  <2>3. /\ windows' \in [Requests -> {NoWindow, Blank, "comparison"}] /\ here' \in BOOLEAN
        /\ windows'[r] # Blank /\ \A other \in Requests \ {r} : windows'[other] = windows[other]
    BY <1>5, <2>2 DEF ReceiveCompare, Closed, NoWindow, Blank
  <2> QED
    BY <1>1, <2>1, <2>3, CompareEnds
<1> QED
  BY <1>2, <1>3, <1>4, <1>5 DEF Receive

LEMMA LoseStep == ASSUME IInv, NEW r \in Requests, Lose(r) PROVE IInv'
<1>1. /\ UNCHANGED <<registry, changes>> /\ faults' \in 0..MaxFaults
      /\ requests[r] # Free /\ submitDisabled \in BOOLEAN
  BY PolicyAssumption DEF Lose, IInv, TypeOK
<1>2. requests[r].kind \in {"load", "delete", "submit", "compare"}
  BY <1>1 DEF IInv, TypeOK, RequestRecords
<1>3. CASE requests[r].kind = "load"
  <2>1. EndLoad(r) /\ UNCHANGED <<shown, summary, armed, selected, compareDisabled, windows, here>>
    BY <1>3 DEF Lose
  <2> QED
    BY <1>1, <1>3, <2>1, LoadEnds
<1>4. CASE requests[r].kind = "delete"
  <2>1. Finish(r) /\ UNCHANGED page
    BY <1>4 DEF Lose
  <2> QED
    BY <1>1, <1>4, <2>1, ChangeEnds DEF Finish, page
<1>5. CASE requests[r].kind = "submit"
  <2>1. Refused(r)
    BY <1>5 DEF Lose
  <2> QED
    BY <1>1, <1>5, <2>1, RefusedStep
<1>6. CASE requests[r].kind = "compare"
  <2>1. /\ Finish(r) /\ windows' = [windows EXCEPT ![r] = NoWindow]
        /\ compareDisabled' = OutOfBounds(selected)
        /\ UNCHANGED <<shown, summary, armed, selected, submitDisabled, here>>
    BY <1>6 DEF Lose, Closed
  <2>2. windows \in [Requests -> {NoWindow, Blank, "comparison"}] /\ here \in BOOLEAN
    BY DEF IInv, TypeOK
  <2>3. /\ windows' \in [Requests -> {NoWindow, Blank, "comparison"}]
        /\ windows'[r] # Blank /\ \A other \in Requests \ {r} : windows'[other] = windows[other]
    BY <2>1, <2>2 DEF NoWindow, Blank
  <2> QED
    BY <1>1, <1>6, <2>1, <2>2, <2>3, CompareEnds
<1> QED
  BY <1>2, <1>3, <1>4, <1>5, <1>6

LEMMA InductiveStep == IInv /\ [Next]_vars => IInv'
<1> SUFFICES ASSUME IInv, [Next]_vars PROVE IInv'
  OBVIOUS
<1>1. CASE OthersChange
  BY <1>1, OthersStep
<1>2. ASSUME NEW id \in Targets, Toggle(id) PROVE IInv'
  BY <1>2, ToggleStep
<1>3. ASSUME NEW r \in Requests, NEW id \in Targets, Remove(r, id) \/ Submit(r, id) PROVE IInv'
  BY <1>3, UserStep
<1>4. ASSUME NEW r \in Requests, Serve(r) \/ Receive(r) \/ Lose(r) PROVE IInv'
  BY <1>4, ServeStep, ReceiveStep, LoseStep
<1>5. ASSUME NEW r \in Requests, Poll(r) \/ Compare(r) PROVE IInv'
  BY <1>5, PollStep, CompareStep
<1>6. CASE UNCHANGED vars
  BY <1>6 DEF vars, page, IInv, TypeOK, HangingInv, ConsistencyInv, Comparing
<1> QED
  BY <1>1, <1>2, <1>3, <1>4, <1>5, <1>6 DEF Next

THEOREM InvariantHolds == Spec => []IInv
  BY InitEstablishes, InductiveStep, PTL DEF Spec

\* The types of the page hold (app.js, the state of the page).
THEOREM TypesHold == Spec => []TypeOK
<1>1. IInv => TypeOK
  BY DEF IInv
<1> QED
  BY <1>1, InvariantHolds, PTL

\* The page agrees with itself however answers overtake each other (app.js:78-87,
\* 115-153, 197-223).
THEOREM ThePageIsConsistent == Spec => []PageIsConsistent
<1>1. IInv => PageIsConsistent
  BY DEF IInv, ConsistencyInv, PageIsConsistent
<1> QED
  BY <1>1, InvariantHolds, PTL

\* No window and no button is left hanging when its request has ended (app.js:166-222).
THEOREM NothingHangs == Spec => []NothingIsLeftHanging
<1>1. IInv => NothingIsLeftHanging
  BY DEF IInv, HangingInv, NothingIsLeftHanging
<1> QED
  BY <1>1, InvariantHolds, PTL

-----------------------------------------------------------------------------
\* One registration at a time.

\* The submit handler is at work: its request, or the list it awaits, is under way.
Submitting(r) == requests[r].kind = "submit" \/ requests[r].submit

OneSubmit ==
  \A r \in Requests : Submitting(r) => submitDisabled /\ \A s \in Requests : Submitting(s) => s = r

\* What a request becomes when it is replaced.
LEMMA Replaced ==
  ASSUME IInv, NEW r \in Requests, NEW request \in RequestRecords,
         requests' = [requests EXCEPT ![r] = request]
  PROVE  /\ \A s \in Requests \ {r} : Submitting(s)' <=> Submitting(s)
         /\ Submitting(r)' <=> request.kind = "submit" \/ request.submit
<1>1. requests \in [Requests -> RequestRecords]
  BY DEF IInv, TypeOK
<1> QED
  BY <1>1 DEF Submitting

\* The three ways in which a step can concern the form.
LEMMA FormStays ==
  ASSUME OneSubmit, submitDisabled' = submitDisabled, \A s \in Requests : Submitting(s)' => Submitting(s)
  PROVE  OneSubmit'
  BY DEF OneSubmit

LEMMA FormTaken ==
  ASSUME OneSubmit, ~submitDisabled, submitDisabled', NEW r \in Requests,
         \A s \in Requests \ {r} : Submitting(s)' => Submitting(s)
  PROVE  OneSubmit'
<1>1. \A s \in Requests : ~Submitting(s)
  BY DEF OneSubmit
<1> QED
  BY <1>1 DEF OneSubmit

LEMMA FormFreed ==
  ASSUME OneSubmit, NEW r \in Requests, Submitting(r), ~Submitting(r)',
         \A s \in Requests \ {r} : Submitting(s)' => Submitting(s)
  PROVE  OneSubmit'
<1>1. \A s \in Requests : ~Submitting(s)'
  BY DEF OneSubmit
<1> QED
  BY <1>1 DEF OneSubmit

\* The handlers that end a request.
LEMMA FormEnds ==
  ASSUME IInv, OneSubmit, NEW r \in Requests, Finish(r),
         \/ submitDisabled' = submitDisabled
         \/ Submitting(r)
  PROVE  OneSubmit'
<1>1. /\ ~Submitting(r)'
      /\ \A s \in Requests \ {r} : Submitting(s)' <=> Submitting(s)
  BY Replaced, RecordTypes DEF Finish
<1> QED
  BY <1>1, FormStays, FormFreed

LEMMA FormStep == ASSUME IInv, OneSubmit, [Next]_vars PROVE OneSubmit'
<1>0. requests \in [Requests -> RequestRecords] /\ submitDisabled \in BOOLEAN
  BY DEF IInv, TypeOK
<1>1. ASSUME UNCHANGED <<requests, submitDisabled>> PROVE OneSubmit'
  BY <1>1, FormStays DEF Submitting
<1>2. CASE OthersChange \/ UNCHANGED vars \/ \E id \in Targets : Toggle(id)
  BY <1>1, <1>2 DEF OthersChange, Toggle, page, vars
<1>3. ASSUME NEW r \in Requests, NEW id \in Targets, Submit(r, id) PROVE OneSubmit'
  <2>1. ~submitDisabled /\ submitDisabled' /\ requests' = [requests EXCEPT ![r] = Sent("submit", {id}, FALSE)]
    BY <1>3 DEF Submit, Send
  <2>2. Sent("submit", {id}, FALSE) \in RequestRecords
    BY RecordTypes
  <2> QED
    BY <2>1, <2>2, Replaced, FormTaken
<1>4. ASSUME NEW r \in Requests, NEW kind \in {"load", "delete", "compare"}, NEW ids \in SUBSET Targets,
             requests' = [requests EXCEPT ![r] = Sent(kind, ids, FALSE)], submitDisabled' = submitDisabled
      PROVE  OneSubmit'
  <2>1. /\ Sent(kind, ids, FALSE) \in RequestRecords
        /\ Sent(kind, ids, FALSE).kind # "submit" /\ ~Sent(kind, ids, FALSE).submit
    BY <1>4, RecordTypes
  <2>2. \A s \in Requests : Submitting(s)' => Submitting(s)
    BY <1>4, <2>1, Replaced
  <2> QED
    BY <1>4, <2>2, FormStays
<1>5. ASSUME NEW r \in Requests, Poll(r) \/ Compare(r) \/ \E id \in Targets : Remove(r, id) PROVE OneSubmit'
  <2>1. {} \in SUBSET Targets /\ selected \in SUBSET Targets /\ \A id \in Targets : {id} \in SUBSET Targets
    BY DEF IInv, TypeOK
  <2> QED
    BY <1>4, <1>5, <2>1 DEF Poll, Compare, Remove, Send, page
<1>6. ASSUME NEW r \in Requests, Serve(r) PROVE OneSubmit'
  <2>1. submitDisabled' = submitDisabled /\ \E ok, list : Answered(r, ok, list)
    BY <1>6 DEF Serve, ServeDelete, ServeSubmit, ServeCompare, ServeList, ServeFailure, page
  <2>2. \A s \in Requests : requests'[s].kind = requests[s].kind /\ requests'[s].submit = requests[s].submit
    BY <1>0, <2>1 DEF Answered, RequestRecords
  <2> QED
    BY <2>1, <2>2, FormStays DEF Submitting
<1>7. ASSUME NEW r \in Requests, requests[r].kind = "submit", Refused(r) PROVE OneSubmit'
  BY <1>7, FormEnds DEF Refused, Submitting
<1>8. ASSUME NEW r \in Requests, EndLoad(r) PROVE OneSubmit'
  BY <1>8, FormEnds DEF EndLoad, Submitting
<1>9. ASSUME NEW r \in Requests, Receive(r) PROVE OneSubmit'
  <2>1. CASE ReceiveList(r)
    BY <1>8, <2>1 DEF ReceiveList
  <2>2. CASE ReceiveDelete(r)
    <3>1. requests' = [requests EXCEPT ![r] = Sent("load", {}, FALSE)] /\ submitDisabled' = submitDisabled
      BY <2>2 DEF ReceiveDelete, page
    <3>2. "load" \in {"load", "delete", "compare"} /\ {} \in SUBSET Targets
      OBVIOUS
    <3> QED
      BY <1>4, <3>1, <3>2
  <2>3. CASE ReceiveSubmit(r) /\ requests[r].ok
    <3>1. /\ requests[r].kind = "submit" /\ requests' = [requests EXCEPT ![r] = Sent("load", {}, TRUE)]
          /\ submitDisabled' = submitDisabled
      BY <2>3 DEF ReceiveSubmit, page
    <3>2. \A s \in Requests \ {r} : Submitting(s)' <=> Submitting(s)
      BY <3>1, Replaced, RecordTypes
    <3>3. Submitting(r)
      BY <3>1 DEF Submitting
    <3> QED
      BY <3>1, <3>2, <3>3, FormStays
  <2>4. CASE ReceiveSubmit(r) /\ ~requests[r].ok
    BY <1>7, <2>4 DEF ReceiveSubmit
  <2>5. CASE ReceiveCompare(r)
    BY <2>5, FormEnds DEF ReceiveCompare
  <2> QED
    BY <1>9, <2>1, <2>2, <2>3, <2>4, <2>5 DEF Receive
<1>10. ASSUME NEW r \in Requests, Lose(r) PROVE OneSubmit'
  <2>1. CASE requests[r].kind = "load"
    BY <1>8, <1>10, <2>1 DEF Lose
  <2>2. CASE requests[r].kind = "submit"
    BY <1>7, <1>10, <2>2 DEF Lose
  <2>3. CASE requests[r].kind \notin {"load", "submit"}
    <3>1. Finish(r) /\ submitDisabled' = submitDisabled
      BY <1>10, <2>3 DEF Lose, page
    <3> QED
      BY <3>1, FormEnds
  <2> QED
    BY <2>1, <2>2, <2>3
<1> QED
  BY <1>2, <1>3, <1>5, <1>6, <1>9, <1>10 DEF Next

\* The form sends one registration at a time: its button stays disabled from the
\* submission to the end of the load that follows it, whichever of the loads under way
\* is answered first (app.js:166-195).
THEOREM OneSubmitAtATime == Spec => []OneSubmit
<1>1. Init => OneSubmit
  BY RecordTypes DEF Init, OneSubmit, Submitting
<1>2. IInv /\ OneSubmit /\ [Next]_vars => OneSubmit'
  BY FormStep
<1> QED
  BY <1>1, <1>2, InvariantHolds, PTL DEF Spec
=============================================================================
