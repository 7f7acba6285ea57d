-------------------------- MODULE MCContractCheck --------------------------
(***************************************************************************)
(* ContractCheck with identifiers of two bits: {1} is ERC-165's own, {2}   *)
(* the interface asked for, {1, 2} the invalid one.                        *)
(***************************************************************************)
EXTENDS ContractCheck, SequencesExt

MCBits == {1, 2}
MCErc165Id == {1}

\* Two functions whose selectors share a bit.
MCInterfaces == {<<{1, 2}, {1}>>}

\* The identifier of every sequence of up to four selectors.
ASSUME SelectorIsParity ==
    \A s \in BoundedSeq(Ids, 4) : erc165_interface_selector(s) = InterfaceId(s)

Good == [id \in Ids |-> IF id \in {{1}, {2}} THEN "true" ELSE "false"]

\* Claims every interface, the invalid one too.
Liar == [id \in Ids |-> "true"]

\* Conforms to ERC-165 but reverts for an interface it does not know.
Strict == [Good EXCEPT ![{2}] = "revert"]

\* Has a fallback function that returns something else.
Fallback == [id \in Ids |-> "garbage"]

MCCodes == {Good, Liar, Strict, Fallback}
=============================================================================
