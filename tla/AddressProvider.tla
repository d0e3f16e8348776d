-------------------------- MODULE AddressProvider --------------------------
(***************************************************************************)
(* The address provider: contracts/address-provider/src, and the helpers   *)
(* with which the other contracts ask it:                                  *)
(* packages/types/src/address_provider.rs.                                 *)
(*                                                                         *)
(* A step is a transaction that succeeds.  A query is the set of its       *)
(* answers: one, or none where it fails.                                   *)
(***************************************************************************)
EXTENDS OwnerRole, Storage, Pages

CONSTANTS
    Address,        \* the strings that are sent as addresses
    OnChain,        \* those that addr_validate accepts: addresses of this chain
    Bech32,         \* those that can be decoded: addresses of any chain
    Prefix,         \* the prefixes the contract may be instantiated with
    StartsWith,     \* the <<address, prefix>> of which one starts with the other
    OwnerInput      \* the kinds of owner updates that are sent

VARIABLES
    role,           \* OWNER
    prefix,         \* CONFIG
    addresses       \* ADDRESSES: address type -> address

providerVars == <<role, prefix, addresses>>

\* KawaAddressType, by the names that are their keys, in the order of the bytes.
AddressTypeKey ==
    [fee_collector |-> 1, lending |-> 2, oracle |-> 3, protocol_admin |-> 4,
     safety_fund |-> 5]

AddressType == DOMAIN AddressTypeKey

-----------------------------------------------------------------------------

\* Any prefix of the owner's address will do, and it cannot be changed later.
Init ==
    /\ \E a \in Admin :
        /\ role = InitialRole(a)
        /\ prefix \in {p \in Prefix : <<a, p>> \in StartsWith}
    /\ addresses = EmptyMap

\* Mutant: no address is asked to be one of this chain.
WellFormed(address) == address \in Bech32

\* An address with the prefix of this chain is validated; others, of which this
\* chain knows nothing more, must be well formed.
ValidAddress(address) ==
    IF <<address, prefix>> \in StartsWith THEN address \in OnChain ELSE address \in Bech32

SetAddress(sender, type, address) ==
    /\ IsOwner(role, sender)
    /\ ValidAddress(address)
    /\ addresses' = Save(addresses, type, address)
    /\ UNCHANGED <<role, prefix>>

UpdateOwner(sender, update) ==
    /\ role' \in UpdatedRoles(role, update, sender)
    /\ UNCHANGED <<prefix, addresses>>

Next ==
    \E sender \in Admin :
        \/ \E type \in AddressType, address \in Address : SetAddress(sender, type, address)
        \/ \E update \in OwnerInput : UpdateOwner(sender, update)

Spec == Init /\ [][Next]_providerVars

-----------------------------------------------------------------------------

QueryConfig ==
    {[owner |-> role.owner, proposed_new_owner |-> role.proposed, prefix |-> prefix]}

QueryAddress(type) == {addresses[t] : t \in {type} \cap DOMAIN addresses}

QueryAddresses(types) == Collected(types, QueryAddress)

QueryAllAddresses(start_after, limit) ==
    LET start == IF start_after = None THEN 0 ELSE AddressTypeKey[start_after]
    IN  Collected(PageOf(DOMAIN addresses, AddressTypeKey, start, limit), QueryAddress)

\* query_contract_addr, and query_contract_addrs for one contract: the address
\* must be one of this chain.
ContractAddr(type) == QueryAddress(type) \cap OnChain

\* query_module_addr
ModuleAddr(type) == QueryAddress(type)
=============================================================================
