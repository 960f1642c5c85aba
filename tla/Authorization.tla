------------------------------ MODULE Authorization ----------------------------
(***************************************************************************)
(* faceauth-authz: who may ask for an authentication.                      *)
(*                                                                         *)
(* A caller is known by what the kernel says of its connection, and by the *)
(* executable its process runs.  A rule of the policy is a record          *)
(*   [service, purpose, caller, executables]                               *)
(* whose executables are a sequence, as in the configuration file, and a   *)
(* request is a record [service, purpose, target].                         *)
(***************************************************************************)
EXTENDS Naturals, Sequences, Functions

CONSTANTS
  Root,            \* uid 0
  MaxRules,        \* MAX_AUTHORIZATION_RULES
  MaxExecutables,  \* MAX_EXECUTABLES_PER_RULE
  Gone             \* the Pid line of the pidfd of a process that exited: -1

ASSUME AuthorizationAssumption ==
  /\ MaxRules \in Nat \ {0}
  /\ MaxExecutables \in Nat \ {0}

\* from_verified_file: a regular file of root's that others cannot write and
\* that can be executed.
VerifiedFile(file) ==
  /\ file.regular
  /\ file.owner = Root
  /\ ~file.writable
  /\ file.executable

\* verify_pidfd: the process the descriptor pins still has the pid that the
\* connection was made with.
VerifyPidfd(expected, actual) == actual # Gone /\ actual = expected

\* CallerRelation::accepts.
Accepts(relation, uid, target) ==
  CASE relation = "RootOnly" -> uid = Root
    [] relation = "TargetUser" -> uid = target
    [] relation = "RootOrTargetUser" -> uid \in {Root, target}

\* AuthorizationPolicy::new.
ValidPolicy(rules) ==
  /\ Len(rules) \in 1..MaxRules
  /\ \A i \in DOMAIN rules :
       /\ Len(rules[i].executables) \in 1..MaxExecutables
       /\ rules[i].purpose = "Sudo" => rules[i].caller = "RootOnly"
       /\ IsInjective(rules[i].executables)
  /\ IsInjective([i \in DOMAIN rules |-> <<rules[i].service, rules[i].purpose>>])

\* The rules for the request's service and purpose; a valid policy has at most
\* one.
RulesFor(rules, request) ==
  SelectSeq(rules, LAMBDA rule : /\ rule.service = request.service
                                 /\ rule.purpose = request.purpose)

\* AuthorizationPolicy::authorize: the first check that fails is reported.
Authorize(rules, uid, executable, request) ==
  LET matching == RulesFor(rules, request)
      rule == matching[1]
  IN CASE matching = <<>> -> "ServiceNotAllowed"
       [] matching # <<>> /\ ~Accepts(rule.caller, uid, request.target)
            -> "PeerTargetMismatch"
       [] /\ matching # <<>>
          /\ Accepts(rule.caller, uid, request.target)
          /\ \A i \in DOMAIN rule.executables : rule.executables[i] # executable
            -> "ExecutableNotAllowed"
       [] OTHER -> "Granted"

===============================================================================
