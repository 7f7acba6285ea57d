------------------------------- MODULE Erc165 -------------------------------
(***************************************************************************)
(* The decisions of erc165.rs.  An interface identifier is the set of its  *)
(* one-bits; a contract is what it answers to `supportsInterface` for each *)
(* identifier.  Answers of a call:                                         *)
(*    "true", "false"   the encoding of a Boolean                          *)
(*    "garbage"         data that does not decode                          *)
(*    "empty"           no data, as from an address without code           *)
(*    "revert"          the execution reverts                              *)
(***************************************************************************)
EXTENDS Integers, FiniteSets, Functions

CONSTANTS
    Bits,                                   \* the bits of an identifier
    ERC_165_SUPPORTS_INTERFACE_SELECTOR     \* 0x01ffc9a7

Ids == SUBSET Bits

ASSUME SelectorAssumption == ERC_165_SUPPORTS_INTERFACE_SELECTOR \in Ids

\* 0xffffffff
INVALID_INTERFACE_SELECTOR == Bits

Replies == {"true", "false", "garbage", "empty", "revert"}
Contracts == [Ids -> Replies]

\* An address without code.
NoCode == [i \in Ids |-> "empty"]

Xor(a, b) == (a \ b) \cup (b \ a)

\* The identifier of an interface with the given selectors, a sequence.
erc165_interface_selector(selectors) == FoldFunction(Xor, {}, selectors)

----------------------------------------------------------------------------
(* The three checks                                                        *)

Checks == {"ensure_erc165_conform", "erc165_supports_interface",
           "erc165_supports_interface_unchecked"}

Unchecked == "erc165_supports_interface_unchecked"

ConformanceQueries == {ERC_165_SUPPORTS_INTERFACE_SELECTOR, INVALID_INTERFACE_SELECTOR}

\* The identifiers that check c asks for, in one request.
Queries(c, selectors) ==
    (IF c = Unchecked THEN {} ELSE ConformanceQueries)
    \cup (IF c = "ensure_erc165_conform" THEN {} ELSE {erc165_interface_selector(selectors)})

\* What the request brings from the answers of its queries: Multicall3
\* reverts when one of its calls does, and one that is not decoded spoils
\* the batch.  Without Multicall3 on the chain the batch is an empty answer.
Response(c, answers, multicall) ==
    IF c # Unchecked /\ ~ multicall THEN "noReturnData"
    ELSE IF "revert" \in answers THEN "errorResp"
    ELSE IF answers \subseteq {"true", "false"} THEN "booleans"
    ELSE IF c # Unchecked THEN "decodeError"
    ELSE IF "empty" \in answers THEN "zeroData" ELSE "decodeError"

\* `unwrap_erc165_call`, for a call that did not bring a Boolean.
unwrap_erc165_call(error) ==
    CASE error = "zeroData" -> "NotAContract"
      [] error = "transport" -> "TransportError"
      [] OTHER -> "Unsupported"

\* Mutant: a transport error of the batch counts as a refusal.
FromMulticallErrorLoose(error) ==
    IF error \in {"noReturnData", "decodeError"} THEN "NotAContract" ELSE "Unsupported"

\* `From<MulticallError> for ERC165ConfirmError`
FromMulticallError(error) ==
    CASE error \in {"noReturnData", "decodeError"} -> "NotAContract"
      [] error = "transport" -> "TransportError"
      [] OTHER -> "Unsupported"

ConfirmError(c, error) ==
    IF c = Unchecked THEN unwrap_erc165_call(error) ELSE FromMulticallError(error)

\* `supports_erc165 && !supports_invalid`
Conform(reply) ==
    /\ reply[ERC_165_SUPPORTS_INTERFACE_SELECTOR] = "true"
    /\ reply[INVALID_INTERFACE_SELECTOR] = "false"

\* What the check makes of Boolean answers.
Judge(c, selectors, reply) ==
    IF /\ c # Unchecked => Conform(reply)
       /\ c # "ensure_erc165_conform" => reply[erc165_interface_selector(selectors)] = "true"
    THEN "Ok"
    ELSE "Unsupported"

----------------------------------------------------------------------------
(* What EIP-165 says                                                       *)

\* The bits that an odd number of the selectors has.
InterfaceId(selectors) ==
    {bit \in Bits :
        Cardinality({i \in DOMAIN selectors : bit \in selectors[i]}) % 2 = 1}

\* "How to Detect if a Contract Implements ERC-165": the first call returns
\* true, the second does not fail and returns false.
ImplementsErc165(contract) ==
    /\ contract[ERC_165_SUPPORTS_INTERFACE_SELECTOR] = "true"
    /\ contract[Bits] = "false"

Implements(c, selectors, contract) ==
    /\ c # Unchecked => ImplementsErc165(contract)
    /\ c # "ensure_erc165_conform" => contract[InterfaceId(selectors)] = "true"
=============================================================================
