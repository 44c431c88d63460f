------------------------------ MODULE VaultKeys ------------------------------
(***************************************************************************)
(* The names that operators give to Vault's objects, and what operators    *)
(* and sidecars read in them.  A text is the sequence of its parts between *)
(* the underscores; the names of Kubernetes objects and of providers are   *)
(* single parts.  An operator is a record [prefix, provider], the prefix   *)
(* the text that its configuration file holds.                             *)
(***************************************************************************)
EXTENDS Integers, Sequences

CONSTANTS
    None,           \* not an account, not a provider
    Unreadable      \* the parts that do not end in a letter, digit or hyphen

(* Mistake: the same name for all providers.                               *)
NameOfAnyProvider(op, sa) == op.prefix \o <<"any", sa[1], sa[2]>>

name(op, sa) == op.prefix \o <<op.provider, sa[1], sa[2]>>

parseKey(op, key) ==
    IF Len(key) = 4 /\ <<key[1]>> = op.prefix /\ key[2] = op.provider
    THEN <<key[3], key[4]>> ELSE None

(* Mistake: any prefix will do.                                            *)
AcceptsAnyPrefix(op) == Len(op.prefix) > 0

(* loadConfigFromFile refuses a prefix with an underscore.  (Its other     *)
(* check, of the mount, is left out; so are mounts and lists.)             *)
Accepted(op) == Len(op.prefix) = 1
-----------------------------------------------------------------------------
(* The command line of the sidecar.                                        *)

NoFlag == <<"">>

(* vaultRoleRegex matches: the last three parts, which Kubernetes and the  *)
(* providers name, are words (of an account's name with a dot, what is     *)
(* before the dot is enough) with one before them.  That one need not      *)
(* begin the text, for nothing anchors the pattern, but it must end where  *)
(* the last three begin: in a letter, a digit, a hyphen or an underscore   *)
(* of its own.  (Of texts with up to six parts.)                           *)
Matches(text) ==
    LET n == Len(text) - 3 IN
    /\ n > 0
    /\ text[n] \in Unreadable => n > 1 /\ text[n] = ""

(* Mistake: the part before the last one.                                  *)
FindsNamespace(text) == IF Matches(text) THEN text[Len(text) - 1] ELSE None

(* The second group.                                                       *)
FindProvider(text) == IF Matches(text) THEN text[Len(text) - 2] ELSE None

Gone(how) == [gone |-> how]

(* What becomes of a sidecar that is started with these flags: it asks     *)
(* Vault to log in with one key, for the secret of another, or it is gone. *)
(* A match that is not there is indexed all the same.                      *)
LaunchAs(provider, vaultRole, vaultStaticAccount) ==
    CASE provider = "aws" -> [login |-> vaultRole, secret |-> vaultRole]
      [] provider = "gcp" -> [login |-> vaultStaticAccount, secret |-> vaultStaticAccount]
      [] provider = None  -> Gone("panic")
      [] OTHER            -> Gone("usage")

Launch(vaultRole, vaultStaticAccount) ==
    IF NoFlag \notin {vaultRole, vaultStaticAccount} THEN Gone("error")
    ELSE IF vaultRole # NoFlag
         THEN LaunchAs(FindProvider(vaultRole), vaultRole, vaultStaticAccount)
    ELSE IF vaultStaticAccount # NoFlag
         THEN LaunchAs(FindProvider(vaultStaticAccount), vaultRole, vaultStaticAccount)
    ELSE Gone("usage")

(* As the README tells to start it.                                        *)
LaunchFor(op, sa) ==
    IF op.provider = "aws" THEN Launch(name(op, sa), NoFlag)
                           ELSE Launch(NoFlag, name(op, sa))
=============================================================================
