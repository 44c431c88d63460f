---------------------------- MODULE Annotations ----------------------------
(***************************************************************************)
(* What the operator reads of a ServiceAccount's annotations and what it   *)
(* stores in Vault for them (the methods of the AWS and GCP providers).    *)
(* A set of annotations is a record [identity, ttl, scopes].               *)
(***************************************************************************)
EXTENDS Rules, Integers

CONSTANTS
    DefaultTTL,     \* DefaultTTL of the configuration
    MinTTL,         \* MinTTL of the configuration (AWS)
    MaxTTL,         \* maxSTSTTLDuration (AWS)
    NoTTL,          \* the TTL annotation is missing
    EmptyTTL,       \* the TTL annotation is there, and is the empty string
    BadTTL,         \* any other text that time.ParseDuration refuses
    NoScopes        \* the token scopes annotation is missing or empty

ASSUME TTLAssumption ==
    /\ {DefaultTTL, MinTTL, MaxTTL} \subseteq Int
    /\ NoTTL \notin Int \cup {EmptyTTL, BadTTL}
    /\ EmptyTTL \notin Int \cup {BadTTL}
    /\ BadTTL \notin Int

Kinds == {"policy", "role", "secret"}

(* A lookup of a missing annotation yields the empty string.               *)
TTLText(ttl) == IF ttl = EmptyTTL THEN NoTTL ELSE ttl

(* Mistake: a change of the TTL is not noticed.                            *)
UpdatesIdentityOnly(old, new) ==
    \/ old.identity # new.identity
    \/ Provider = "gcp" /\ old.scopes # new.scopes

(* Mistake: a change of the scopes is not noticed.                         *)
UpdatesIdentityAndTTL(old, new) ==
    old.identity # new.identity \/ TTLText(old.ttl) # TTLText(new.ttl)

processUpdateEvent(old, new) ==
    \/ old.identity # new.identity
    \/ TTLText(old.ttl) # TTLText(new.ttl)
    \/ Provider = "gcp" /\ old.scopes # new.scopes

secretTTL(ann) == IF ann.ttl = NoTTL THEN DefaultTTL ELSE ann.ttl

(* secretTTL returns no error.  Only AWS has bounds, and the default of    *)
(* the configuration is held to them too.                                  *)
TTLAccepted(ann) ==
    /\ ann.ttl \notin {EmptyTTL, BadTTL}
    /\ Provider = "aws" => MinTTL <= secretTTL(ann) /\ secretTTL(ann) <= MaxTTL

secretPayload(ann) ==
    IF Provider = "aws"
    THEN [kind |-> "secret", identity |-> ann.identity, ttl |-> secretTTL(ann)]
    ELSE [kind |-> "secret", identity |-> ann.identity, scopes |-> ann.scopes]

(* The three Vault objects of a service account.  The policy's text only   *)
(* depends on the account's name, so that it is the same at every write.   *)
Content(kind, ann) ==
    CASE kind = "policy" -> [kind |-> "policy"]
      [] kind = "role"   -> [kind |-> "role", ttl |-> secretTTL(ann)]
      [] OTHER           -> secretPayload(ann)

(* Vault (external) refuses a role whose lease is negative: the GCP        *)
(* provider has no bounds.                                                 *)
VaultAccepts(content) == content.kind = "role" => content.ttl >= 0
=============================================================================
