------------------------------ MODULE MCRpcWire ------------------------------
(* An instance of RpcWire for TLC: lines of every sort, and every reply. *)
EXTENDS RpcWire

Value(kind, text) == [kind |-> kind, text |-> text]
Plain == [size |-> "fits", json |-> "object", type |-> "prompt", v |-> ProtocolVersion,
          id |-> Value("string", "1"), fields |-> "good"]

LinesOfEverySort ==
       {[Plain EXCEPT !.size = size] : size \in {"garbled", "blank", "long"}}
  \cup {[Plain EXCEPT !.json = json] : json \in {"broken", "other"}}
  \cup {[Plain EXCEPT !.type = type] : type \in {"absent", "unheard"}}
  \cup {[Plain EXCEPT !.v = v] : v \in {<<>>, <<"1", "1", "0">>, <<"1", "0", "2">>,
                                        <<"1", "0", "x">>}}
  \cup {[Plain EXCEPT !.id = id] : id \in {Value("number", "1"), Value("null", "")}}
  \cup {[Plain EXCEPT !.fields = "bad"]}
  \cup {[Plain EXCEPT !.type = type, !.id = Value("string", "2")] :
          type \in {"abort", "get_state", "compact", "new_session", "fork_session"}}

ShortReplies == {reply \in Reply : Len(reply.chunks) <= 2}

EveryReply ==
       {[stream |-> OpenAIStream(reply), texts |-> TextsOf(reply)] : reply \in ShortReplies}
  \cup {[stream |-> MockStream(kind), texts |-> IF kind = "silent" THEN <<>> ELSE <<1>>] :
          kind \in {"search", "silent", "other"}}
=============================================================================
