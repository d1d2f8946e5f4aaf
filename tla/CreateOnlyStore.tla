--------------------------- MODULE CreateOnlyStore ---------------------------
(***************************************************************************)
(* The create-only object store on the VPS, as its clients see it: a put   *)
(* (cmd_put of research/d1_vps_store_helper.py behind VpsD1Store.put_bytes)*)
(* hard-links a finished file to its name, so a name is bound once and for *)
(* ever. The link is the only moment of effect; the client may fail before *)
(* it (SSH, space, transfer hash) or after it (the receipt is lost), and   *)
(* both look alike to the caller: an exception, the status "ERROR" here.   *)
(***************************************************************************)

CONSTANT Absent           \* what a name holds before its first put

\* What the name holds once the link has been tried.
Linked(current, content) == IF current = Absent THEN content ELSE current

\* The helper's verdict: a conflict exits with D1_CREATE_ONLY_CONFLICT, which
\* the client raises as VpsCommandError.
PutVerdict(current, content) ==
    IF current = Absent THEN "CREATED"
    ELSE IF current = content THEN "IDEMPOTENT_REPLAY" ELSE "ERROR"

\* All <object, status> results of one put; mayFail admits storage faults.
PutResults(current, content, mayFail) ==
    {[object |-> Linked(current, content), status |-> PutVerdict(current, content)]}
    \cup (IF mayFail
            THEN {[object |-> current, status |-> "ERROR"],
                  [object |-> Linked(current, content), status |-> "ERROR"]}
            ELSE {})

=============================================================================
