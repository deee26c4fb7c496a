------------------------------- MODULE Protocol -------------------------------
(***************************************************************************)
(* What the parser of crates/pi-protocol/src/rpc.rs makes of one line.  A  *)
(* line is a record of what the parser tells apart in it: its JSON, its    *)
(* type, its version, its id, and whether its other fields have the types  *)
(* they must have.  A version is the sequence of its parts, a JSON value   *)
(* its kind and the text it prints as.                                     *)
(***************************************************************************)
EXTENDS Naturals, Sequences

NoId == "no id"

TurnType == {"prompt", "steer", "follow_up"}
CommandType == {"new_session", "select_session_path", "fork_session",
                "checkout_branch_head"}
StateType == {"abort", "get_state", "compact"}
RequestType == TurnType \cup CommandType \cup StateType

----------------------------------------------------------------------------
(* Versions *)

\* PROTOCOL_MAJOR, PROTOCOL_MINOR and PROTOCOL_PATCH, as text.
ProtocolVersion == <<"1", "0", "0">>

IsNumber(part) == part \in {"0", "1", "2"}

\* ProtocolVersion::parse: three parts; any patch may stand for all of them.
VersionParses(v) ==
  /\ Len(v) = 3
  /\ IsNumber(v[1]) /\ IsNumber(v[2])
  /\ IsNumber(v[3]) \/ v[3] \in {"x", "*"}

IsCompatible(v) == v[1] = ProtocolVersion[1] /\ v[2] = ProtocolVersion[2]

ValidVersion(v) == VersionParses(v) /\ IsCompatible(v)

----------------------------------------------------------------------------
(* Values *)

\* as_value_to_string: any JSON value but null will do for an id, and numbers and
\* strings that print the same come out the same.
ValueToString(value) ==
  IF value.kind \in {"absent", "null"} THEN NoId ELSE value.text

\* as_opt_string of the id of a line.
IdOf(line) == ValueToString(line.id)

----------------------------------------------------------------------------
(* Lines *)

\* What parse_client_request returns: "accepted", or the error that comes first.  A
\* type it has not heard of is looked at after the version, the fields at the end.
ParseClientRequest(line) ==
  CASE line.json = "broken" -> "json"
    [] line.json = "other" -> "payload"
    [] line.json = "object" /\ line.type = "absent" -> "payload"
    [] line.json = "object" /\ line.type # "absent" ->
         CASE ~ValidVersion(line.v) -> "version"
           [] ValidVersion(line.v) /\ line.type \notin RequestType -> "unsupported"
           [] OTHER -> IF line.fields = "good" THEN "accepted" ELSE "payload"
=============================================================================
