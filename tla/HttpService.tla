---------------------------- MODULE HttpService ----------------------------
(***************************************************************************)
(* One HTTP request on its way to the pipeline: http_service.wsgi_app      *)
(* decodes the body, RuntimeShell.handle (runtime.py, api_versioning.py)   *)
(* looks at the version and the route, routes._execute_command validates   *)
(* the command and turns a ValueError into an answer.                      *)
(*                                                                         *)
(* A path is the sequence of its segments.  A body is a record with its    *)
(* kind; command and payload matter for the kind "object" only.            *)
(***************************************************************************)
EXTENDS CommandHandler

CONSTANT NotObject    \* a payload that is absent or not an object

(* "unloadable" is a body json.loads or decode fails on with something     *)
(* else than JSONDecodeError: bytes that are not UTF-8, an integer of more *)
(* digits than int() takes, nesting beyond the recursion limit.            *)
BodyKinds == {"none", "not_json", "unloadable", "falsy", "non_object", "object"}

ExecutePath == <<"v1", "commands", "execute">>
Routes ==
  {<<"GET", p>> : p \in {<<"healthz">>, <<"readyz">>, <<"v1", "config">>,
     <<"v1", "capabilities">>, <<"v1", "metadata">>, <<"v1", "contracts", "internal">>}}
  \cup {<<"POST", ExecutePath>>}

SupportedVersions == {"v1"}

(* First segments of the modelled paths that start with the letter v: each *)
(* of them is taken for a version.                                         *)
StartsWithV == {"v1", "v2", "vaults"}

(* Answers.  500 is the WSGI server's answer to an exception nobody caught. *)
NoAnswer == 0
Uncaught == 500

(* wsgi_app reads the body of three methods only; what is not JSON is      *)
(* taken for an empty object, as is any false value ("request or {}").     *)
Decoded(method, body) ==
  IF method \in {"POST", "PUT", "PATCH"} /\ body.kind \in {"unloadable", "non_object", "object"}
  THEN body.kind ELSE "empty"

(* _execute_command, up to the orchestrator: 200 is a command that has     *)
(* passed handle_command.  request.get fails on a body that is no object.  *)
ExecuteAnswer(kind, body) ==
  IF kind = "non_object" THEN Uncaught
  ELSE IF kind = "empty" THEN 422
  ELSE IF body.command \notin Commands THEN 422
  ELSE IF body.payload = NotObject THEN 422
  ELSE LET error == CommandError(body.command, body.payload) IN
       CASE error = "ok"     -> 200
         [] error = "raised" -> Uncaught
         [] OTHER            -> 422

(* wsgi_app and RuntimeShell.handle.  The other handlers only report.      *)
Answer(method, path, body) ==
  LET kind == Decoded(method, body) IN
  IF kind = "unloadable" THEN Uncaught
  ELSE IF path[1] \in StartsWithV \ SupportedVersions THEN 400
  ELSE IF <<method, path>> \notin Routes THEN 404
  ELSE IF path = ExecutePath THEN ExecuteAnswer(kind, body)
  ELSE 200
=============================================================================
