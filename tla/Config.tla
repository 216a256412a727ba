------------------------------- MODULE Config -------------------------------
(***************************************************************************)
(* load of src/app/config.py, and what the constructors that main.py calls *)
(* next demand of the result.  A configuration is what its fields are good *)
(* for, not their text.                                                    *)
(***************************************************************************)
EXTENDS Naturals, Sequences, FiniteSetsExt

\* A profile is good; or it has every field, compartment_id without a value; or it
\* lacks a field, or has no content; or its key_file has no value, or names what is
\* missing, is not a file, or is readable by others.
ProfileKinds ==
  {"good", "no_compartment", "incomplete", "null", "null_key", "no_key",
   "directory_key", "open_key"}

\* oci.profiles in the order of the file; empty also when it is no mapping.  "word"
\* stands for what int() refuses and for a section server or runtime that is no
\* mapping; the ttl stands for the three numbers of runtime.  An audit log is
\* unwritable in a directory that exists, or its directory cannot be created.
Configuration ==
  [file : {"absent", "unreadable", "bad_yaml", "no_mapping", "mapping"},
   port : {"number", "out_of_range", "word"},
   telegram : {"absent", "null", "mapping"},
   bot_token : {"absent", "blank", "text"},
   allowed_user_ids : {"absent", "integers", "other"},
   oci : {"absent", "null", "mapping"},
   default_profile : {"absent", "unlisted", "listed"},
   profiles : Seq(ProfileKinds),
   ttl : {"positive", "not_positive", "word"},
   audit_log : {"writable", "unwritable", "no_directory"},
   sdk : {"valid", "invalid"}]

Failing(bad, raises) == [bad |-> bad, raises |-> raises]

\* A check of each profile in turn: the first that fails decides what is raised,
\* a ConfigError if it is refused and a TypeError if it has not the type expected.
EachProfile(c, refused, untyped) ==
  LET bad == {k \in DOMAIN c.profiles : c.profiles[k] \in refused \cup untyped}
  IN Failing(bad # {},
             IF bad # {} /\ c.profiles[Min(bad)] \in untyped
             THEN "TypeError" ELSE "ConfigError")

\* _parse_profile.
ParseProfiles(c) == EachProfile(c, {"incomplete"}, {"null"})

\* Only the key of the first profile is looked at (for the checks of the
\* properties).
KeyFilesFirst(c) ==
  EachProfile([c EXCEPT !.profiles = IF @ = <<>> THEN @ ELSE <<@[1]>>],
              {"no_key", "directory_key", "open_key"}, {"null_key"})

\* _validate_key_file.
KeyFiles(c) == EachProfile(c, {"no_key", "directory_key", "open_key"}, {"null_key"})

\* The checks of load, in its order; a later one presupposes the earlier ones.
Checks(c) ==
  << Failing(c.file = "absent", "ConfigError"),
     Failing(c.file = "unreadable", "OSError"),
     Failing(c.file \in {"bad_yaml", "no_mapping"}, "ConfigError"),
     Failing(c.port = "word", "ValueError"),
     Failing(c.telegram = "absent", "ConfigError"),
     Failing(c.telegram = "null", "TypeError"),
     Failing(c.bot_token # "text", "ConfigError"),
     Failing(c.allowed_user_ids = "other", "ConfigError"),
     Failing(c.oci = "absent", "ConfigError"),
     Failing(c.oci = "null", "TypeError"),
     Failing(c.default_profile = "absent" \/ c.profiles = <<>>, "ConfigError"),
     ParseProfiles(c),
     Failing(c.default_profile = "unlisted", "ConfigError"),
     KeyFiles(c),
     Failing(c.ttl = "word", "ValueError") >>

Load(c) ==
  LET checks == Checks(c)
      failing == {k \in DOMAIN checks : checks[k].bad}
  IN IF failing = {} THEN "ok" ELSE checks[Min(failing)].raises

\* What AuditLogger, OciClient and ConfirmationStore demand: AuditLogger creates the
\* directory of the log and does not try to write to it.
AuditDirectory(c) == c.audit_log # "no_directory"
SdkConfig(c) == c.sdk = "valid"
PositiveTTL(c) == c.ttl = "positive"
=============================================================================
