---------------------------- MODULE MCLifecycle ----------------------------
(* Small instances of the process for TLC. *)
EXTENDS Lifecycle

Good ==
  [file |-> "mapping", port |-> "number", telegram |-> "mapping", bot_token |-> "text",
   allowed_user_ids |-> "integers", oci |-> "mapping", default_profile |-> "listed",
   profiles |-> <<"good", "good">>, ttl |-> "positive", audit_log |-> "writable",
   sdk |-> "valid"]

\* One mistake, in any field.
Mistakes(c) ==
  {[c EXCEPT !.file = x] : x \in {"absent", "unreadable", "bad_yaml", "no_mapping"}}
  \cup {[c EXCEPT !.port = x] : x \in {"out_of_range", "word"}}
  \cup {[c EXCEPT !.telegram = x] : x \in {"absent", "null"}}
  \cup {[c EXCEPT !.bot_token = x] : x \in {"absent", "blank"}}
  \cup {[c EXCEPT !.allowed_user_ids = x] : x \in {"absent", "other"}}
  \cup {[c EXCEPT !.oci = x] : x \in {"absent", "null"}}
  \cup {[c EXCEPT !.default_profile = x] : x \in {"absent", "unlisted"}}
  \cup {[c EXCEPT !.profiles = x] : x \in {<<>>} \cup (ProfileKinds \X ProfileKinds)}
  \cup {[c EXCEPT !.ttl = x] : x \in {"not_positive", "word"}}
  \cup {[c EXCEPT !.audit_log = x] : x \in {"unwritable", "no_directory"}}
  \cup {[c EXCEPT !.sdk = "invalid"]}

MCConfigurations == {Good} \cup Mistakes(Good) \cup UNION {Mistakes(c) : c \in Mistakes(Good)}
=============================================================================
