-------------------------- MODULE EnrollmentInput --------------------------
(***************************************************************************)
(* What an enrollment request may contain, along its whole way: the agent  *)
(* collects its metadata (agent/src/metadata.rs), the server validates and *)
(* normalises the request (server/internal/enrollment/service.go), and the *)
(* tables of the database check what they are given                        *)
(* (server/migrations/000001_create_v1_machine_schema.up.sql).  The three  *)
(* were written in three languages: the agent has no upper limit, the      *)
(* server counts bytes, the database counts characters and trims spaces    *)
(* only.  Enrollment models what happens around one request; this module   *)
(* models what is in it.                                                   *)
(*                                                                         *)
(* A text is a sequence of characters that stand for their class: a space, *)
(* another white space, a letter of one byte, a letter of two bytes, and   *)
(* NUL, which UTF-8 allows and PostgreSQL stores neither in TEXT nor in    *)
(* JSONB.  Any client may call Enroll, not only the agent.                 *)
(***************************************************************************)
EXTENDS Naturals, FiniteSets, Sequences, SequencesExt

CONSTANTS
  Fields,            \* the required metadata, all under the same rule
  LimitedFields,     \* those whose column has an upper limit
  Texts,             \* the texts a client may send as metadata
  CapabilityTexts,   \* the texts a client may send as capabilities
  MaxText,           \* maxHostname and maxMetadataValue, 255 in the code
  MaxCapabilities,   \* 32 in the code
  MaxCapability,     \* 64 in the code
  NoInput            \* the request has not been validated

Characters == {"space", "tab", "letter", "wide", "nul"}
White == {"space", "tab"}

ASSUME InputAssumption ==
  /\ LimitedFields \subseteq Fields
  /\ Texts \subseteq Seq(Characters)
  /\ CapabilityTexts \subseteq Seq(Characters)
  /\ MaxText \in Nat
  /\ MaxCapabilities \in Nat
  /\ MaxCapability \in Nat

VARIABLES
  client,    \* who sends the request
  request,   \* the request: its metadata and its capabilities
  input,     \* what validateInput has made of it so far, and what is stored
  handled,   \* how many capabilities its loop has handled
  stage      \* how far the request has come, or its answer

vars == <<client, request, input, handled, stage>>

----------------------------------------------------------------------------
\* Texts

\* A text without the given characters at its ends.
Strip(text, characters) ==
  LET kept == {i \in DOMAIN text : text[i] \notin characters}
  IN IF kept = {} THEN <<>> ELSE SubSeq(text, Min(kept), Max(kept))

\* strings.TrimSpace and str::trim know the same white space, trim() of SQL
\* knows the space.
Trim(text) == Strip(text, White)
SqlTrim(text) == Strip(text, {"space"})

\* Go measures a string in bytes, length() of SQL in characters.
Bytes(text) == Len(text) + Cardinality({i \in DOMAIN text : text[i] = "wide"})

HasNul(text) == \E i \in DOMAIN text : text[i] = "nul"

----------------------------------------------------------------------------
\* The agent: MachineMetadata::from_values; required_value trims and refuses
\* what is empty, and a metadata has no capabilities.

\* Wrong: the agent sends the host name as it is.
RequiredValueUntrimmed(text) == text

RequiredValue(text) == Trim(text)

Collected(metadata) == [f \in Fields |-> RequiredValue(metadata[f])]

\* The server: requiredMetadata, and the loop of validateInput over the
\* capabilities, which trims, checks and then skips what it has seen.

RequiredMetadata(text) == Trim(text)

LengthAllowed(text, maximum) == text # <<>> /\ Bytes(text) <= maximum

Normal(capability) == Trim(capability)

\* Wrong: the server measures the text it was sent and stores the trimmed one.
MetadataAllowedUntrimmed(metadata) ==
  \A f \in Fields : LengthAllowed(metadata[f], MaxText)

MetadataAllowed(metadata) ==
  \A f \in Fields : LengthAllowed(RequiredMetadata(metadata[f]), MaxText)

\* Wrong: capabilities are compared before they are trimmed.
KeptUntrimmed(capabilities, sent) ==
  IF Contains(capabilities, sent)
  THEN capabilities
  ELSE Append(capabilities, Normal(sent))

\* Wrong: nothing is ever put into seen.
KeptRepeatedly(capabilities, sent) == Append(capabilities, Normal(sent))

\* The map of the loop, seen, holds what the slice holds.
Kept(capabilities, sent) ==
  IF Contains(capabilities, Normal(sent))
  THEN capabilities
  ELSE Append(capabilities, Normal(sent))

\* The database: the CHECKs of machines, whose name is the hostname, and what
\* TEXT and JSONB can hold.

Checked(r) ==
  /\ \A f \in Fields : Len(SqlTrim(r.metadata[f])) > 0
  /\ \A f \in LimitedFields : Len(SqlTrim(r.metadata[f])) <= MaxText

Representable(r) ==
  /\ \A f \in Fields : ~HasNul(r.metadata[f])
  /\ \A i \in DOMAIN r.capabilities : ~HasNul(r.capabilities[i])

----------------------------------------------------------------------------

Metadata == [Fields -> Texts]
Capabilities ==
  UNION {[1..n -> CapabilityTexts] : n \in 0..MaxCapabilities + 1}

Init ==
  /\ client \in {"agent", "other"}
  /\ \E m \in Metadata :
       \/ /\ client = "agent"
          /\ request = [metadata |-> m, capabilities |-> <<>>]
          /\ stage = "starting"
       \/ /\ client = "other"
          /\ \E c \in Capabilities :
               request = [metadata |-> m, capabilities |-> c]
          /\ stage = "sent"
  /\ input = NoInput
  /\ handled = 0

\* The agent collects its metadata and sends it, or ends with EmptyValue.
Collect ==
  /\ stage = "starting"
  /\ LET m == Collected(request.metadata) IN
       /\ request' = [request EXCEPT !.metadata = m]
       /\ stage' = IF \E f \in Fields : m[f] = <<>> THEN "EmptyValue" ELSE "sent"
  /\ UNCHANGED <<client, input, handled>>

\* validateInput up to its loop: the metadata, and the number of capabilities.
Validate ==
  /\ stage = "sent"
  /\ LET allowed == /\ MetadataAllowed(request.metadata)
                    /\ Len(request.capabilities) <= MaxCapabilities
     IN \/ /\ allowed
           /\ input' = [metadata |-> [f \in Fields |->
                                       RequiredMetadata(request.metadata[f])],
                        capabilities |-> <<>>]
           /\ handled' = 0
           /\ stage' = "validating"
        \/ /\ ~allowed
           /\ stage' = "InvalidArgument"
           /\ UNCHANGED <<input, handled>>
  /\ UNCHANGED <<client, request>>

\* One turn of the loop: the next capability is checked, and then kept unless
\* it has been seen.
HandleCapability ==
  /\ stage = "validating"
  /\ handled < Len(request.capabilities)
  /\ LET sent == request.capabilities[handled + 1] IN
       \/ /\ LengthAllowed(Normal(sent), MaxCapability)
          /\ input' = [input EXCEPT !.capabilities = Kept(@, sent)]
          /\ handled' = handled + 1
          /\ UNCHANGED stage
       \/ /\ ~LengthAllowed(Normal(sent), MaxCapability)
          /\ input' = NoInput
          /\ stage' = "InvalidArgument"
          /\ UNCHANGED handled
  /\ UNCHANGED <<client, request>>

\* The loop has ended, and EnrollmentStore.Enroll stores the input as far as
\* its data is concerned.  The server has no name of its own for a value the
\* database refuses: it answers Internal.
Store ==
  /\ stage = "validating"
  /\ handled = Len(request.capabilities)
  /\ stage' = IF Checked(input) /\ Representable(input)
              THEN "enrolled" ELSE "Internal"
  /\ UNCHANGED <<client, request, input, handled>>

Next == Collect \/ Validate \/ HandleCapability \/ Store

Spec == Init /\ [][Next]_vars

----------------------------------------------------------------------------

Request == [metadata : [Fields -> Seq(Characters)],
            capabilities : Seq(Seq(Characters))]

\* The server holds an input: the request has passed the checks of its metadata.
HasInput == stage \in {"validating", "enrolled", "Internal"}

TypeOK ==
  /\ client \in {"agent", "other"}
  /\ request \in Request
  /\ HasInput => input \in Request
  /\ handled \in 0..Len(request.capabilities)
  /\ stage \in {"starting", "sent", "validating", "enrolled",
                "EmptyValue", "InvalidArgument", "Internal"}

\* No request whose metadata the server has validated is refused by a CHECK of
\* the tables, for all that the two count and trim differently: only NUL, which
\* nobody looks for, makes the server answer Internal for what the client sent.
ChecksAgree ==
  /\ HasInput => Checked(input)
  /\ stage = "Internal" => ~Representable(input)

\* The agent and the server agree on what is empty: what the agent sends is
\* refused only when it is too long, which the agent does not check and no
\* restart of it changes.
RefusedForLength ==
  client = "agent" /\ stage = "InvalidArgument" =>
    \E f \in Fields : Bytes(request.metadata[f]) > MaxText

\* Where a text appears first among the capabilities sent, once trimmed.
FirstPosition(sent, text) == Min({i \in DOMAIN sent : Trim(sent[i]) = text})

\* What is kept are the first n capabilities sent, trimmed, each once, in the
\* order in which they first appear there.
FirstAppearances(kept, sent, n) ==
  /\ ToSet(kept) = {Trim(sent[i]) : i \in 1..n}
  /\ \A i, j \in DOMAIN kept :
       i < j => FirstPosition(sent, kept[i]) < FirstPosition(sent, kept[j])

\* A text that validateInput accepts and leaves as it is.
InNormalForm(text, maximum) == Trim(text) = text /\ LengthAllowed(text, maximum)

\* What is stored is in normal form: validating it again would accept it and
\* change nothing, and its capabilities are the trimmed ones of the request,
\* each once, in the order in which they first appear there.
StoredInNormalForm ==
  stage = "enrolled" =>
    /\ \A f \in Fields : InNormalForm(input.metadata[f], MaxText)
    /\ Len(input.capabilities) <= MaxCapabilities
    /\ \A i \in DOMAIN input.capabilities :
         InNormalForm(input.capabilities[i], MaxCapability)
    /\ FirstAppearances(input.capabilities, request.capabilities,
                        Len(request.capabilities))

\* Before the agent sends its metadata it has no capabilities, and what it
\* sends is neither empty nor surrounded by white space.
AgentSends ==
  client = "agent" =>
    /\ request.capabilities = <<>>
    /\ stage \notin {"starting", "EmptyValue"} =>
         \A f \in Fields :
           LET text == request.metadata[f] IN
             text # <<>> /\ text[1] \notin White /\ text[Len(text)] \notin White

\* The loop of validateInput: the metadata is trimmed and allowed, and of the
\* capabilities handled so far each was allowed and is kept where it first
\* appeared, so that no more are kept than were handled.
Loop ==
  HasInput =>
    /\ \A f \in Fields : InNormalForm(input.metadata[f], MaxText)
    /\ Len(request.capabilities) <= MaxCapabilities
    /\ Len(input.capabilities) <= handled
    /\ \A i \in DOMAIN input.capabilities :
         InNormalForm(input.capabilities[i], MaxCapability)
    /\ FirstAppearances(input.capabilities, request.capabilities, handled)
    /\ stage # "validating" => handled = Len(request.capabilities)

\* The invariant the proofs use: what is collected, validated and stored fits
\* what was there before.
Inductive == TypeOK /\ AgentSends /\ Loop /\ ChecksAgree /\ RefusedForLength

============================================================================
