----------------------- MODULE EnrollmentInput_proofs -----------------------
(***************************************************************************)
(* Proofs about EnrollmentInput, for texts of every length and all limits: *)
(* what white space at the ends of a text does to the three parties that   *)
(* trim and measure it.                                                    *)
(***************************************************************************)
EXTENDS EnrollmentInput, SequenceTheorems, FiniteSetTheorems, TLAPS

----------------------------------------------------------------------------
\* The first and the last position of a text that are not stripped

LEMMA LeastExists ==
  ASSUME NEW S \in SUBSET Nat, S # {}
  PROVE  \E x \in S : \A y \in S : x <= y
<1> DEFINE R == OpToRel(<, Nat)
<1>1. PICK x \in S : \A y \in S : ~(<<y, x>> \in R)
  <2>1. IsWellFoundedOn(R, Nat)
    BY NatLessThanWellFounded
  <2> HIDE DEF R
  <2> QED
    BY <2>1, WFMin
<1>2. ASSUME NEW y \in S PROVE x <= y
  <2>1. ~(<<y, x>> \in R)
    BY <1>1
  <2>2. x \in Nat /\ y \in Nat
    OBVIOUS
  <2>3. ~(y < x)
    BY <2>1, <2>2 DEF OpToRel
  <2> QED
    BY <2>2, <2>3
<1> QED
  BY <1>2

LEMMA LeastPosition ==
  ASSUME NEW S \in SUBSET Nat, S # {}
  PROVE  Min(S) \in S /\ \A y \in S : Min(S) <= y
BY LeastExists DEF Min

LEMMA GreatestPosition ==
  ASSUME NEW n \in Nat, NEW S \in SUBSET (1..n), S # {}
  PROVE  Max(S) \in S /\ \A y \in S : Max(S) >= y
<1> DEFINE T == {n - i : i \in S}
<1>1. T \in SUBSET Nat /\ T # {}
  <2>1. \A i \in S : i \in 1..n /\ n - i \in Nat
    OBVIOUS
  <2>2. PICK i \in S : TRUE
    OBVIOUS
  <2> QED
    BY <2>1, <2>2
<1>2. PICK x \in T : \A y \in T : x <= y
  <2> HIDE DEF T
  <2> QED
    BY <1>1, LeastExists
<1>3. PICK i \in S : x = n - i
  OBVIOUS
<1>4. ASSUME NEW j \in S PROVE i >= j
  <2>1. x <= n - j
    BY <1>2
  <2> QED
    BY <2>1, <1>3
<1> QED
  BY <1>4 DEF Max

----------------------------------------------------------------------------
\* Stripping a text

\* What is left of a text begins and ends with a character that was not to be
\* stripped, is no longer than the text, and is empty only if there was none.
LEMMA Stripped ==
  ASSUME NEW text \in Seq(Characters), NEW C
  PROVE  LET left == Strip(text, C) IN
         /\ left \in Seq(Characters)
         /\ Len(left) <= Len(text)
         /\ left # <<>> => left[1] \notin C /\ left[Len(left)] \notin C
         /\ (\E i \in DOMAIN text : text[i] \notin C) => Len(left) > 0
<1> DEFINE kept == {i \in DOMAIN text : text[i] \notin C}
           left == Strip(text, C)
<1>1. CASE kept = {}
  <2>1. left = <<>>
    BY <1>1 DEF Strip
  <2> QED
    BY <1>1, <2>1
<1>2. CASE kept # {}
  <2>1. kept \in SUBSET (1..Len(text)) /\ kept \in SUBSET Nat /\ Len(text) \in Nat
    OBVIOUS
  <2>2. Min(kept) \in kept /\ Max(kept) \in kept /\ Min(kept) <= Max(kept)
    <3> HIDE DEF kept
    <3> QED
      BY <1>2, <2>1, LeastPosition, GreatestPosition
  <2> DEFINE a == Min(kept)
             b == Max(kept)
  <2>3. /\ a \in 1..Len(text) /\ b \in 1..Len(text) /\ a <= b
        /\ text[a] \notin C /\ text[b] \notin C
    BY <2>2
  <2>4. left = SubSeq(text, a, b)
    BY <1>2 DEF Strip
  <2>5. \A i \in a..b : text[i] \in Characters
    BY <2>3
  <2> HIDE DEF a, b, left
  <2>6. /\ left \in Seq(Characters)
        /\ Len(left) = b - a + 1
        /\ \A i \in 1..b - a + 1 : left[i] = text[a + i - 1]
    BY <2>3, <2>4, <2>5, SubSeqProperties
  <2>7. left[1] = text[a] /\ left[Len(left)] = text[b]
    BY <2>3, <2>6
  <2> QED
    BY <2>3, <2>6, <2>7 DEF left
<1> QED
  BY <1>1, <1>2

\* A text with nothing to strip at its ends is left as it is.
LEMMA NothingToStrip ==
  ASSUME NEW text \in Seq(Characters), NEW C, text # <<>>,
         text[1] \notin C, text[Len(text)] \notin C
  PROVE  Strip(text, C) = text
<1> DEFINE kept == {i \in DOMAIN text : text[i] \notin C}
<1>1. 1 \in kept /\ Len(text) \in kept /\ kept \in SUBSET (1..Len(text))
      /\ kept \in SUBSET Nat /\ Len(text) \in Nat
  OBVIOUS
<1>2. Min(kept) = 1 /\ Max(kept) = Len(text)
  <2> HIDE DEF kept
  <2>1. Min(kept) \in 1..Len(text) /\ Min(kept) <= 1
    BY <1>1, LeastPosition
  <2>2. Max(kept) \in 1..Len(text) /\ Max(kept) >= Len(text)
    BY <1>1, GreatestPosition
  <2>3. ASSUME NEW a \in 1..Len(text), NEW b \in 1..Len(text), a <= 1, b >= Len(text)
        PROVE  a = 1 /\ b = Len(text)
    BY <1>1, <2>3
  <2> QED
    BY ONLY <2>1, <2>2, <2>3
<1>3. Strip(text, C) = SubSeq(text, 1, Len(text))
  BY <1>1, <1>2 DEF Strip
<1>4. /\ SubSeq(text, 1, Len(text)) \in Seq(Characters)
      /\ Len(SubSeq(text, 1, Len(text))) = Len(text)
      /\ \A i \in 1..Len(text) : SubSeq(text, 1, Len(text))[i] = text[i]
  OBVIOUS
<1> QED
  BY <1>3, <1>4, SeqEqual

\* A text has at least as many bytes as characters.
LEMMA BytesOfText ==
  ASSUME NEW text \in Seq(Characters)
  PROVE  Bytes(text) \in Nat /\ Len(text) <= Bytes(text)
<1> DEFINE wide == {i \in DOMAIN text : text[i] = "wide"}
<1>1. IsFiniteSet(1..Len(text))
  BY FS_Interval
<1>2. wide \in SUBSET (1..Len(text))
  OBVIOUS
<1>3. Cardinality(wide) \in Nat
  <2> HIDE DEF wide
  <2> QED
    BY <1>1, <1>2, FS_Subset, FS_CardinalityType
<1> QED
  BY <1>3 DEF Bytes

\* Trimming a text twice is trimming it once.
LEMMA TrimmedOnce ==
  ASSUME NEW text \in Seq(Characters)
  PROVE  Trim(text) \in Seq(Characters) /\ Trim(Trim(text)) = Trim(text)
<1> DEFINE left == Trim(text)
<1>1. /\ left \in Seq(Characters)
      /\ left # <<>> => left[1] \notin White /\ left[Len(left)] \notin White
  BY Stripped DEF Trim
<1>2. CASE left = <<>>
  <2>1. DOMAIN left = {}
    BY <1>2
  <2> QED
    BY <1>1, <1>2, <2>1 DEF Trim, Strip
<1>3. CASE left # <<>>
  <2> HIDE DEF left
  <2>1. Strip(left, White) = left
    BY <1>1, <1>3, NothingToStrip
  <2> QED
    BY <1>1, <2>1 DEF left, Trim
<1> QED
  BY <1>2, <1>3

----------------------------------------------------------------------------
\* The loop of validateInput

\* A text first appears at a position that holds it, before every other one.
LEMMA FirstPositionIs ==
  ASSUME NEW sent \in Seq(Seq(Characters)), NEW i \in DOMAIN sent
  PROVE  /\ FirstPosition(sent, Trim(sent[i])) \in DOMAIN sent
         /\ Trim(sent[FirstPosition(sent, Trim(sent[i]))]) = Trim(sent[i])
         /\ FirstPosition(sent, Trim(sent[i])) <= i
<1> DEFINE S == {j \in DOMAIN sent : Trim(sent[j]) = Trim(sent[i])}
<1>1. S \in SUBSET Nat /\ i \in S
  OBVIOUS
<1>2. Min(S) \in S /\ Min(S) <= i
  <2> HIDE DEF S
  <2> QED
    BY <1>1, LeastPosition
<1> QED
  BY <1>2 DEF FirstPosition

\* What is appended to a sequence joins the set of its elements.
LEMMA SetOfAppended ==
  ASSUME NEW S, NEW s \in Seq(S), NEW e \in S
  PROVE  ToSet(Append(s, e)) = ToSet(s) \cup {e}
<1> DEFINE t == Append(s, e)
<1>1. /\ t \in Seq(S) /\ Len(t) = Len(s) + 1 /\ Len(s) \in Nat
      /\ \A i \in 1..Len(s) : t[i] = s[i]
      /\ t[Len(s) + 1] = e
      /\ DOMAIN s = 1..Len(s)
  OBVIOUS
<1> HIDE DEF t
<1>2. DOMAIN t = DOMAIN s \cup {Len(s) + 1}
  BY <1>1
<1>3. {t[i] : i \in DOMAIN t} = {s[i] : i \in DOMAIN s} \cup {e}
  BY <1>1, <1>2, Zenon
<1> QED
  BY <1>3 DEF ToSet, t

\* A turn of the loop leaves kept what has appeared, each once and in the order
\* of its first appearance.
LEMMA AppearanceKept ==
  ASSUME NEW kept \in Seq(Seq(Characters)), NEW sent \in Seq(Seq(Characters)),
         NEW n \in Nat, n < Len(sent), FirstAppearances(kept, sent, n)
  PROVE  /\ Kept(kept, sent[n + 1]) \in Seq(Seq(Characters))
         /\ Len(Kept(kept, sent[n + 1])) <= Len(kept) + 1
         /\ ToSet(Kept(kept, sent[n + 1])) = ToSet(kept) \cup {Trim(sent[n + 1])}
         /\ FirstAppearances(Kept(kept, sent[n + 1]), sent, n + 1)
<1> DEFINE new == Trim(sent[n + 1])
           turned == Kept(kept, sent[n + 1])
           Appeared(m) == {Trim(sent[i]) : i \in 1..m}
           first(text) == FirstPosition(sent, text)
<1>1. new \in Seq(Characters)
  BY TrimmedOnce
<1>2. ToSet(kept) = Appeared(n)
  BY DEF FirstAppearances
<1>3. Appeared(n + 1) = Appeared(n) \cup {new}
  <2>1. 1..n + 1 = (1..n) \cup {n + 1}
    OBVIOUS
  <2> QED
    BY <2>1
<1>4. \A i, j \in DOMAIN kept : i < j => first(kept[i]) < first(kept[j])
  BY DEF FirstAppearances
<1>5. DOMAIN kept = 1..Len(kept) /\ Len(kept) \in Nat
  OBVIOUS
<1>6. CASE Contains(kept, new)
  <2>1. turned = kept
    BY <1>6 DEF Kept, Normal
  <2>2. new \in ToSet(kept)
    BY <1>5, <1>6 DEF Contains, ToSet
  <2>3. ToSet(turned) = ToSet(kept) \cup {new}
    BY <2>1, <2>2
  <2> HIDE DEF turned, new, Appeared, first
  <2>4. turned \in Seq(Seq(Characters)) /\ Len(turned) <= Len(kept) + 1
    BY <2>1, <1>5
  <2>5. \A i, j \in DOMAIN turned : i < j => first(turned[i]) < first(turned[j])
    BY <1>4, <2>1
  <2>6. ToSet(turned) = Appeared(n + 1)
    BY <1>2, <1>3, <2>3
  <2> QED
    BY <2>3, <2>4, <2>5, <2>6 DEF FirstAppearances, turned, new, Appeared, first
<1>7. CASE ~Contains(kept, new)
  <2>1. turned = Append(kept, new)
    BY <1>7 DEF Kept, Normal
  <2>2. new \notin ToSet(kept)
    BY <1>5, <1>7 DEF Contains, ToSet
  <2>3. first(new) = n + 1
    <3>1. /\ first(new) \in 1..Len(sent) /\ Trim(sent[first(new)]) = new
          /\ first(new) <= n + 1
      BY FirstPositionIs
    <3>2. \A i \in 1..n : Trim(sent[i]) # new
      BY <1>2, <2>2
    <3> HIDE DEF first, new
    <3> QED
      BY <3>1, <3>2
  <2>4. ASSUME NEW i \in DOMAIN kept
        PROVE  first(kept[i]) \in 1..n
    <3>1. kept[i] \in Appeared(n)
      BY <1>2 DEF ToSet
    <3>2. PICK k \in 1..n : Trim(sent[k]) = kept[i]
      BY <3>1
    <3>3. first(kept[i]) \in 1..Len(sent) /\ first(kept[i]) <= k
      BY <3>2, FirstPositionIs
    <3> HIDE DEF first
    <3> QED
      BY <3>3
  <2>5. ToSet(turned) = ToSet(kept) \cup {new}
    BY <1>1, <2>1, SetOfAppended
  <2> HIDE DEF turned, new, Appeared, first
  <2>6. /\ turned \in Seq(Seq(Characters)) /\ Len(turned) = Len(kept) + 1
        /\ DOMAIN turned = 1..Len(kept) + 1
        /\ \A i \in 1..Len(kept) : turned[i] = kept[i]
        /\ turned[Len(kept) + 1] = new
    BY <1>1, <2>1
  <2>7. ASSUME NEW i \in DOMAIN turned, NEW j \in DOMAIN turned, i < j
        PROVE  first(turned[i]) < first(turned[j])
    <3>1. i \in 1..Len(kept) /\ j \in 1..Len(kept) + 1
      BY <1>5, <2>6, <2>7
    <3>2. turned[i] = kept[i]
      BY <2>6, <3>1
    <3>3. CASE j \in 1..Len(kept)
      <4>1. turned[j] = kept[j]
        BY <2>6, <3>3
      <4> QED
        BY <1>4, <1>5, <2>7, <3>1, <3>2, <3>3, <4>1
    <3>4. CASE j = Len(kept) + 1
      <4>1. turned[j] = new
        BY <2>6, <3>4
      <4>2. first(turned[j]) = n + 1
        BY <2>3, <4>1
      <4>3. first(turned[i]) \in 1..n
        BY <1>5, <2>4, <3>1, <3>2
      <4> QED
        BY <4>2, <4>3
    <3> QED
      BY <1>5, <3>1, <3>3, <3>4
  <2>8. ToSet(turned) = Appeared(n + 1)
    BY <1>2, <1>3, <2>5
  <2>9. Len(turned) <= Len(kept) + 1
    BY <1>5, <2>6
  <2> QED
    BY <2>5, <2>6, <2>7, <2>8, <2>9 DEF FirstAppearances, turned, new, Appeared, first
<1> QED
  BY <1>6, <1>7

----------------------------------------------------------------------------
\* The invariant

\* The CHECKs accept every metadata the server leaves as it is.
LEMMA NormalIsChecked ==
  ASSUME NEW r \in Request, \A f \in Fields : InNormalForm(r.metadata[f], MaxText)
  PROVE  Checked(r)
<1>1. ASSUME NEW f \in Fields
      PROVE  /\ Len(SqlTrim(r.metadata[f])) > 0
             /\ Len(SqlTrim(r.metadata[f])) <= MaxText
  <2> DEFINE left == r.metadata[f]
  <2>1. /\ left \in Seq(Characters) /\ Trim(left) = left
        /\ left # <<>> /\ Bytes(left) <= MaxText
    BY DEF Request, InNormalForm, LengthAllowed
  <2> HIDE DEF left
  <2>2. left[1] \notin White
    BY <2>1, Stripped DEF Trim
  <2>3. \E i \in DOMAIN left : left[i] \notin {"space"}
    BY <2>1, <2>2 DEF White
  <2>4. Len(SqlTrim(left)) > 0 /\ Len(SqlTrim(left)) <= Len(left)
    BY <2>1, <2>3, Stripped DEF SqlTrim
  <2>5. Bytes(left) \in Nat /\ Len(left) <= Bytes(left)
    BY <2>1, BytesOfText
  <2>6. Len(SqlTrim(left)) \in Nat
    BY <2>1, Stripped, LenProperties DEF SqlTrim
  <2>7. Len(SqlTrim(left)) <= MaxText
    BY <2>1, <2>4, <2>5, <2>6, InputAssumption
  <2> QED
    BY <2>4, <2>7 DEF left
<1> QED
  BY <1>1, InputAssumption DEF Checked

LEMMA InitInductive == Init => Inductive
<1> SUFFICES ASSUME Init PROVE Inductive
  OBVIOUS
<1>1. PICK m \in Metadata, c \in Capabilities \cup {<<>>} :
        /\ request = [metadata |-> m, capabilities |-> c]
        /\ client = "agent" => c = <<>>
        /\ client = "agent" => stage = "starting"
        /\ client = "other" => stage = "sent"
        /\ client \in {"agent", "other"}
  <2>1. PICK m \in Metadata :
          \/ /\ client = "agent"
             /\ request = [metadata |-> m, capabilities |-> <<>>]
             /\ stage = "starting"
          \/ /\ client = "other"
             /\ \E c \in Capabilities :
                  request = [metadata |-> m, capabilities |-> c]
             /\ stage = "sent"
    BY DEF Init
  <2>2. CASE client = "agent"
    <3>1. request = [metadata |-> m, capabilities |-> <<>>] /\ stage = "starting"
      BY <2>1, <2>2
    <3> QED
      BY <2>1, <2>2, <3>1
  <2>3. CASE client # "agent"
    <3>1. PICK c \in Capabilities : request = [metadata |-> m, capabilities |-> c]
      BY <2>1, <2>3
    <3> QED
      BY <2>1, <2>3, <3>1
  <2> QED
    BY <2>2, <2>3
<1>2. m \in [Fields -> Seq(Characters)]
  BY InputAssumption DEF Metadata
<1>3. c \in Seq(Seq(Characters))
  <2>1. CASE c = <<>>
    BY <2>1
  <2>2. CASE c \in Capabilities
    <3>1. PICK n \in 0..MaxCapabilities + 1 : c \in [1..n -> CapabilityTexts]
      BY <2>2 DEF Capabilities
    <3>2. n \in Nat /\ c \in [1..n -> Seq(Characters)]
      BY <3>1, InputAssumption
    <3> QED
      BY <3>2
  <2> QED
    BY <2>1, <2>2
<1>4. request \in Request
  BY <1>1, <1>2, <1>3 DEF Request
<1> QED
  <2>1. handled = 0 /\ 0 \in 0..Len(request.capabilities)
    BY <1>4 DEF Init, Request
  <2> QED
    BY <1>1, <1>4, <2>1
       DEF Inductive, TypeOK, AgentSends, Loop, HasInput, ChecksAgree,
           RefusedForLength

LEMMA StepInductive == Inductive /\ [Next]_vars => Inductive'
<1> SUFFICES ASSUME Inductive, [Next]_vars PROVE Inductive'
  OBVIOUS
<1> USE DEF Inductive
<1>1. CASE Collect
  <2> DEFINE m == Collected(request.metadata)
  <2>1. /\ request' = [request EXCEPT !.metadata = m]
        /\ stage = "starting" /\ client' = client
        /\ input' = input /\ handled' = handled
        /\ stage' = IF \E f \in Fields : m[f] = <<>> THEN "EmptyValue" ELSE "sent"
    BY <1>1 DEF Collect
  <2>2. request \in Request
    BY DEF TypeOK
  <2>3. ASSUME NEW f \in Fields
        PROVE  /\ m[f] \in Seq(Characters)
               /\ m[f] # <<>> => m[f][1] \notin White /\ m[f][Len(m[f])] \notin White
    <3>1. m[f] = Strip(request.metadata[f], White)
      BY DEF Collected, RequiredValue, Trim
    <3>2. request.metadata[f] \in Seq(Characters)
      BY <2>2 DEF Request
    <3> QED
      BY <3>1, <3>2, Stripped
  <2>4. m \in [Fields -> Seq(Characters)]
    BY <2>3 DEF Collected
  <2> HIDE DEF m
  <2>5. /\ request' \in Request /\ request'.metadata = m
        /\ request'.capabilities = request.capabilities
    BY <2>1, <2>2, <2>4 DEF Request
  <2>6. TypeOK'
    BY <2>1, <2>5 DEF TypeOK, HasInput
  <2>7. AgentSends'
    BY <2>1, <2>3, <2>5 DEF AgentSends
  <2> QED
    BY <2>1, <2>6, <2>7 DEF Loop, HasInput, ChecksAgree, RefusedForLength
<1>2. CASE Validate
  <2> DEFINE allowed == /\ MetadataAllowed(request.metadata)
                        /\ Len(request.capabilities) <= MaxCapabilities
  <2>1. UNCHANGED <<client, request>> /\ stage = "sent"
    BY <1>2 DEF Validate
  <2>2. CASE allowed
    <3>1. /\ stage' = "validating" /\ handled' = 0
          /\ input' = [metadata |-> [f \in Fields |->
                                      RequiredMetadata(request.metadata[f])],
                       capabilities |-> <<>>]
      BY <1>2, <2>2 DEF Validate
    <3>2. ASSUME NEW f \in Fields
          PROVE  /\ RequiredMetadata(request.metadata[f]) \in Seq(Characters)
                 /\ InNormalForm(RequiredMetadata(request.metadata[f]), MaxText)
      <4>1. request.metadata[f] \in Seq(Characters)
        BY DEF TypeOK, Request
      <4> QED
        BY <2>2, <4>1, TrimmedOnce
           DEF RequiredMetadata, InNormalForm, MetadataAllowed
    <3>3. input' \in Request
      BY <3>1, <3>2 DEF Request
    <3>4. \A f \in Fields : InNormalForm(input'.metadata[f], MaxText)
      BY <3>1, <3>2
    <3>5. Checked(input')
      BY <3>3, <3>4, NormalIsChecked
    <3>6. input'.capabilities = <<>> /\ Len(<<>>) = 0 /\ DOMAIN <<>> = {}
      BY <3>1
    <3>7. FirstAppearances(<<>>, request.capabilities, 0)
      <4>1. 1..0 = {} /\ DOMAIN <<>> = {}
        OBVIOUS
      <4> QED
        BY <4>1 DEF FirstAppearances, ToSet
    <3>8. Loop'
      BY <2>1, <2>2, <3>1, <3>4, <3>6, <3>7 DEF Loop
    <3>9. handled' \in 0..Len(request.capabilities)
      BY <3>1 DEF TypeOK, Request
    <3> QED
      BY <2>1, <3>1, <3>3, <3>5, <3>8, <3>9
         DEF TypeOK, HasInput, AgentSends, ChecksAgree, RefusedForLength
  <2>3. CASE ~allowed
    <3>1. stage' = "InvalidArgument" /\ input' = input /\ handled' = handled
      BY <1>2, <2>3 DEF Validate
    <3>2. ASSUME client = "agent"
          PROVE  \E f \in Fields : Bytes(request.metadata[f]) > MaxText
      <4>1. Len(request.capabilities) <= MaxCapabilities
        BY <3>2, InputAssumption DEF AgentSends
      <4>2. PICK f \in Fields :
              ~LengthAllowed(RequiredMetadata(request.metadata[f]), MaxText)
        BY <2>3, <4>1 DEF MetadataAllowed
      <4>3. request.metadata[f] \in Seq(Characters)
        BY DEF TypeOK, Request
      <4>4. RequiredMetadata(request.metadata[f]) = request.metadata[f]
        BY <3>2, <2>1, <4>3, NothingToStrip DEF AgentSends, RequiredMetadata, Trim
      <4>5. Bytes(request.metadata[f]) \in Nat
            /\ ~(Bytes(request.metadata[f]) <= MaxText)
        BY <3>2, <2>1, <4>2, <4>3, <4>4, BytesOfText DEF AgentSends, LengthAllowed
      <4> QED
        BY <4>5, InputAssumption
    <3> QED
      BY <2>1, <3>1, <3>2
         DEF TypeOK, HasInput, AgentSends, Loop, ChecksAgree, RefusedForLength
  <2> QED
    BY <2>2, <2>3
<1>3. CASE HandleCapability
  <2> DEFINE sent == request.capabilities[handled + 1]
             kept == input.capabilities
  <2>1. /\ UNCHANGED <<client, request>> /\ stage = "validating"
        /\ handled < Len(request.capabilities)
    BY <1>3 DEF HandleCapability
  <2>2. /\ HasInput /\ input \in Request /\ request \in Request
        /\ handled \in 0..Len(request.capabilities)
    BY <2>1 DEF TypeOK, HasInput
  <2>3. /\ kept \in Seq(Seq(Characters)) /\ handled \in Nat
        /\ request.capabilities \in Seq(Seq(Characters))
    BY <2>2 DEF Request
  <2>4. client # "agent"
    <3>1. Len(request.capabilities) # 0
      BY <2>1, <2>2, <2>3
    <3> QED
      BY <3>1 DEF AgentSends
  <2>5. CASE LengthAllowed(Normal(sent), MaxCapability)
    <3> DEFINE turned == Kept(kept, sent)
    <3>1. /\ handled' = handled + 1 /\ stage' = stage
          /\ input' = [input EXCEPT !.capabilities = turned]
      BY <1>3, <2>5 DEF HandleCapability
    <3>2. /\ turned \in Seq(Seq(Characters)) /\ Len(turned) <= Len(kept) + 1
          /\ ToSet(turned) = ToSet(kept) \cup {Trim(sent)}
          /\ FirstAppearances(turned, request.capabilities, handled + 1)
      BY <2>1, <2>2, <2>3, AppearanceKept DEF Loop
    <3>3. InNormalForm(Trim(sent), MaxCapability)
      <4>1. sent \in Seq(Characters)
        BY <2>1, <2>3
      <4> QED
        BY <2>5, <4>1, TrimmedOnce DEF Normal, InNormalForm
    <3>4. \A i \in DOMAIN turned : InNormalForm(turned[i], MaxCapability)
      <4>1. \A text \in ToSet(kept) : InNormalForm(text, MaxCapability)
        BY <2>2, <2>3 DEF Loop, ToSet
      <4>2. \A text \in ToSet(turned) : InNormalForm(text, MaxCapability)
        BY <3>2, <3>3, <4>1
      <4> HIDE DEF turned
      <4> QED
        BY <4>2, <3>2 DEF ToSet
    <3> HIDE DEF turned
    <3>5. /\ input' \in Request /\ input'.capabilities = turned
          /\ input'.metadata = input.metadata
      BY <2>2, <3>1, <3>2 DEF Request
    <3>6. Len(turned) <= handled + 1
      BY <2>2, <2>3, <3>2 DEF Loop
    <3>7. Loop'
      BY <2>1, <2>2, <3>1, <3>2, <3>4, <3>5, <3>6 DEF Loop
    <3>8. Checked(input')
      BY <2>2, <3>5 DEF ChecksAgree, Checked
    <3>9. handled' \in 0..Len(request.capabilities)
      BY <2>1, <2>3, <3>1
    <3> QED
      BY <2>1, <2>4, <3>1, <3>5, <3>7, <3>8, <3>9
         DEF TypeOK, HasInput, AgentSends, ChecksAgree, RefusedForLength
  <2>6. CASE ~LengthAllowed(Normal(sent), MaxCapability)
    <3>1. stage' = "InvalidArgument" /\ handled' = handled
      BY <1>3, <2>6 DEF HandleCapability
    <3> QED
      BY <2>1, <2>4, <3>1
         DEF TypeOK, HasInput, AgentSends, Loop, ChecksAgree, RefusedForLength
  <2> QED
    BY <2>5, <2>6
<1>4. CASE Store
  <2>1. /\ UNCHANGED <<client, request, input, handled>> /\ stage = "validating"
        /\ handled = Len(request.capabilities)
        /\ stage' = IF Checked(input) /\ Representable(input)
                    THEN "enrolled" ELSE "Internal"
    BY <1>4 DEF Store
  <2>2. HasInput /\ Checked(input)
    BY <2>1 DEF HasInput, ChecksAgree
  <2>3. stage' \in {"enrolled", "Internal"} /\ (stage' = "Internal" => ~Representable(input))
    BY <2>1, <2>2
  <2>4. Loop'
    BY <2>1, <2>2, <2>3 DEF Loop
  <2> QED
    BY <2>1, <2>2, <2>3, <2>4
       DEF TypeOK, HasInput, AgentSends, ChecksAgree, RefusedForLength,
           Checked, Representable
<1>5. CASE UNCHANGED vars
  BY <1>5 DEF vars, TypeOK, HasInput, AgentSends, Loop, ChecksAgree,
              RefusedForLength, Checked, Representable
<1> QED
  BY <1>1, <1>2, <1>3, <1>4, <1>5 DEF Next

\* What the agent has made of its metadata, and the loop of the server of the
\* capabilities it has handled, holds with the properties for requests of every
\* size, texts of every length and all limits.
THEOREM InductiveInvariant == Spec => []Inductive
BY InitInductive, StepInductive, PTL DEF Spec

\* Whatever a client sends and wherever the limits are, the CHECKs of the
\* tables refuse nothing validateInput has accepted, although one counts bytes
\* and trims white space and the other counts characters and trims spaces:
\* the server answers Internal only for a text with NUL in it.
THEOREM ChecksAlwaysAgree == Spec => []ChecksAgree
<1>1. Inductive => ChecksAgree
  BY DEF Inductive
<1> QED
  BY <1>1, InductiveInvariant, PTL

\* The only reason for which the server refuses what an agent sends is its
\* length, whatever the host calls itself.
THEOREM AgentRefusedForLength == Spec => []RefusedForLength
<1>1. Inductive => RefusedForLength
  BY DEF Inductive
<1> QED
  BY <1>1, InductiveInvariant, PTL

\* Whatever a client sends and wherever the limits are, what is stored would
\* pass validateInput unchanged, and its capabilities are those of the request,
\* trimmed, each once, in the order of their first appearance.
THEOREM NormalFormStored == Spec => []StoredInNormalForm
<1>1. Inductive => StoredInNormalForm
  <2> SUFFICES ASSUME Inductive, stage = "enrolled" PROVE StoredInNormalForm
    BY DEF StoredInNormalForm
  <2>1. HasInput /\ input \in Request /\ handled = Len(request.capabilities)
    BY DEF Inductive, TypeOK, Loop, HasInput
  <2>2. Len(input.capabilities) <= handled /\ handled <= MaxCapabilities
    BY <2>1 DEF Inductive, Loop
  <2>3. Len(input.capabilities) \in Nat /\ handled \in Nat
    BY <2>1 DEF Request, Inductive, TypeOK
  <2>4. Len(input.capabilities) <= MaxCapabilities
    BY <2>2, <2>3, InputAssumption
  <2> QED
    BY <2>1, <2>4 DEF Inductive, Loop, StoredInNormalForm
<1> QED
  BY <1>1, InductiveInvariant, PTL

=============================================================================
