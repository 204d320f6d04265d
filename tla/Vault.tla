-------------------------------- MODULE Vault --------------------------------
(***************************************************************************)
(* The credential vault of crates/security: a list searched by name.       *)
(* store appends, so a name may be there twice, and get answers with the   *)
(* first.  Encryption under the vault's one key is undone by get           *)
(* (external: AES-GCM); expires_at is always None.                         *)
(***************************************************************************)
EXTENDS Filtering, SequencesExt

CONSTANTS CredentialNames, Secrets,
          NoSecret,            (* get answers None                         *)
          MaxCredentials       (* bound on the length of the list          *)

ASSUME VaultAssumption == MaxCredentials \in Nat

VARIABLE credentials

VaultInit == credentials = << >>

Store(n, secret) ==
    /\ Len(credentials) < MaxCredentials
    /\ credentials' = Append(credentials, [name |-> n, secret |-> secret])

Places(n) == { i \in DOMAIN credentials : credentials[i].name = n }

First(places) == CHOOSE i \in places : \A j \in places : i <= j

GetSecret(n) == IF Places(n) = {} THEN NoSecret ELSE credentials[First(Places(n))].secret

(* Mutant: only the credential get would answer with goes. *)
WithoutFirst(n) ==
    IF Places(n) = {} THEN credentials
    ELSE SubSeq(credentials, 1, First(Places(n)) - 1)
         \o SubSeq(credentials, First(Places(n)) + 1, Len(credentials))

WithoutName(n) == Filter(credentials, { c \in ToSet(credentials) : c.name # n })

RemoveCredential(n) == credentials' = WithoutName(n)

VaultNext ==
    \E n \in CredentialNames :
        \/ \E secret \in Secrets : Store(n, secret)
        \/ Places(n) # {} /\ RemoveCredential(n)

-----------------------------------------------------------------------------

(***************************************************************************)
(* One removal is enough however often a name was stored: afterwards get   *)
(* finds nothing under it, and no step on one name changes what get        *)
(* answers for another, wherever in the list the removed ones stood.       *)
(***************************************************************************)
RemovalIsComplete ==
    [][\A n \in CredentialNames : RemoveCredential(n) =>
          /\ GetSecret(n)' = NoSecret
          /\ \A m \in CredentialNames \ {n} : GetSecret(m)' = GetSecret(m)
      ]_credentials
=============================================================================
