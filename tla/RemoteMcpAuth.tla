------------------------------ MODULE RemoteMcpAuth ------------------------------
(*****************************************************************************)
(* Connecting a run to its MCP servers: MCPToolProvider, the resolver of        *)
(* authorization headers, RemoteMCPAuthService and its grant store.            *)
(*                                                                           *)
(* A run connects to the enabled servers one after the other, in its own       *)
(* thread, before the agent starts.  A server that wants the user's own token  *)
(* gets it from the grant of the user; a token that has expired is refreshed   *)
(* first.  The requests of clients that start, complete and revoke an          *)
(* authorization are served at the same time, each by a thread of its own.  The *)
(* token endpoint of the provider is called between reading the store and      *)
(* writing it, and may answer what it likes.                                  *)
(*****************************************************************************)
EXTENDS Naturals, Sequences, FiniteSets

CONSTANTS
  Runs,
  Clients,      \* threads that serve requests to complete an authorization
  Users,
  UserOf,       \* [Runs -> Users \cup {NoUser}]: runtime_user_id of the task
  NoUser,
  Servers,      \* the enabled servers, in the order of the configuration
  ProviderOf,   \* [the servers -> their OAuth provider, or Static]
  Static,       \* auth.mode = static_headers
  Imported,     \* the servers that are not from runtime.toml
  WebMode,      \* web_access_mode
  MaxTokens,    \* bounds the tokens that the providers issue
  MaxRequests   \* bounds the authorizations that are started

Policy == INSTANCE PolicyEngine WITH SafeClasses <- {}, DenyClasses <- {}

Names     == {Servers[i] : i \in DOMAIN Servers}
Providers == {ProviderOf[s] : s \in Names} \ {Static}
Keys      == Providers \X Users      \* primary key of remote_mcp_grants

VARIABLES
  grants,    \* [Keys -> row of remote_mcp_grants, or NoGrant]
  pending,   \* rows of remote_mcp_pending_authorizations
  requests,  \* authorization ids there have been
  issued,    \* tokens that the providers have issued, each with whom it is for
  client,    \* [Clients -> which request the thread serves, and how far it is]
  run,       \* each run: where it is, the servers to come, the token in its hands
  approved,  \* [Runs -> boundary keys granted for the run]
  consents   \* each token call: what the policy said of it at that moment

mvars == <<grants, pending, requests, issued, client, run, approved, consents>>

Tokens  == 1..MaxTokens
NoGrant == [token |-> 0, refresh |-> 0, status |-> "none", expired |-> FALSE]
Resting == [at |-> "idle", request |-> [id |-> 0], token |-> 0, refresh |-> 0]
Unborn  == [at |-> "idle", todo |-> <<>>, grant |-> NoGrant, using |-> <<>>]

TypeOK ==
  /\ \A k \in Keys : /\ {grants[k].token, grants[k].refresh} \subseteq 0..MaxTokens
                     /\ grants[k].status \in {"none", "authorized", "revoked"}
  /\ pending \subseteq [id : 1..requests, server : Names, user : Users, run : Runs]
  /\ issued \in Seq(Keys) /\ Len(issued) <= MaxTokens
  /\ \A c \in Clients : client[c].at \in {"idle", "exchange", "save", "delete"}
  /\ \A r \in Runs : run[r].at \in {"idle", "connect", "headers", "refresh", "save", "asked",
                                    "unauthorized", "failed", "working"}

Init ==
  /\ grants = [k \in Keys |-> NoGrant]
  /\ pending = {} /\ requests = 0 /\ issued = <<>>
  /\ client = [c \in Clients |-> Resting]
  /\ run = [r \in Runs |-> Unborn]
  /\ approved = [r \in Runs |-> {}]
  /\ consents = {}

-----------------------------------------------------------------------------
(* The policy's view of a connection and of a call for a token.  A server that  *)
(* is imported is remote here; those of the configuration are allowed.         *)
Connection(s) ==
  [type |-> "mcp.server.connect", transport |-> "http", server |-> s, host |-> s,
   source |-> IF s \in Imported THEN "project_mcp_json" ELSE "runtime_toml"]
TokenCall(type, s) == [type |-> type, provider |-> ProviderOf[s], server |-> s]

(* RemoteMCPAuthService._govern returns at once when the service has no         *)
(* governed_operation, and bootstrap gives it none; consents notes what the    *)
(* policy would have said.                                                    *)
Govern(r, op) == consents' = consents \cup {Policy!Evaluate(op, approved[r])}

(* The next server, or the agent if there is none left.                        *)
Onward(r, used) ==
  LET rest == Tail(run[r].todo) IN
  [at    |-> IF rest = <<>> THEN "working" ELSE "connect",
   todo  |-> rest, grant |-> NoGrant, using |-> Append(run[r].using, used)]

Stops(r, where) == run' = [run EXCEPT ![r] = [Unborn EXCEPT !.at = where]]

(* _execute_run and MCPToolProvider.start, at first or when the run resumes;    *)
(* with no server enabled there is nothing to connect to.                     *)
Start(r) ==
  /\ run[r].at \in {"idle", "unauthorized"}
  /\ run' = [run EXCEPT ![r] =
               [Unborn EXCEPT !.at = IF Servers = <<>> THEN "working" ELSE "connect",
                              !.todo = Servers]]
  /\ UNCHANGED <<grants, pending, requests, issued, client, approved, consents>>

(* _govern_server_connect.                                                   *)
Connect(r) ==
  LET decision == Policy!Evaluate(Connection(Head(run[r].todo)), approved[r]) IN
  /\ run[r].at = "connect"
  /\ CASE decision = "ALLOW" -> run' = [run EXCEPT ![r].at = "headers"]
       [] decision = "DENY"  -> Stops(r, "failed")
       [] decision = "REQUIRE_APPROVAL" -> run' = [run EXCEPT ![r].at = "asked"]
  /\ UNCHANGED <<grants, pending, requests, issued, client, approved, consents>>

(* task.approve: the grant, and the run from the beginning.                   *)
Approve(r) ==
  /\ run[r].at = "asked"
  /\ approved' = [approved EXCEPT ![r] = @ \cup {Policy!Boundary(Connection(Head(run[r].todo)))}]
  /\ run' = [run EXCEPT ![r] = [Unborn EXCEPT !.at = "connect", !.todo = Servers]]
  /\ UNCHANGED <<grants, pending, requests, issued, client, consents>>

(* Mutant of GrantFor: any user's grant of the provider.                      *)
GrantForAnyone(s, user) ==
  LET held == {u \in Users : grants[<<ProviderOf[s], u>>] # NoGrant}
  IN IF held = {} THEN NoGrant ELSE grants[<<ProviderOf[s], CHOOSE u \in held : TRUE>>]

(* get_grant.                                                                *)
GrantFor(s, user) == grants[<<ProviderOf[s], user>>]

(* headers_for_server and resolve_authorization_headers.  Using a token is      *)
(* noted as [server, token]; static headers need none.                        *)
Headers(r) ==
  LET s == Head(run[r].todo)
      g == GrantFor(s, UserOf[r])
  IN
  /\ run[r].at = "headers"
  /\ IF ProviderOf[s] = Static THEN run' = [run EXCEPT ![r] = Onward(r, <<s, 0>>)]
     ELSE IF UserOf[r] = NoUser \/ g.status # "authorized" THEN Stops(r, "unauthorized")
     ELSE IF ~g.expired THEN run' = [run EXCEPT ![r] = Onward(r, <<s, g.token>>)]
     ELSE IF g.refresh = 0 THEN Stops(r, "unauthorized")
     ELSE run' = [run EXCEPT ![r].at = "refresh", ![r].grant = g]
  /\ UNCHANGED <<grants, pending, requests, issued, client, approved, consents>>

(* Mutant of Merged: the answer as it is.                                    *)
MergedNot(answer, old) == answer

(* `token_payload.get("refresh_token") or grant.refresh_token'.               *)
Merged(answer, old) ==
  [answer EXCEPT !.refresh = IF @ = 0 THEN old.refresh ELSE @]

NewGrant(token, refresh) ==
  [token |-> token, refresh |-> refresh, status |-> "authorized", expired |-> FALSE]

(* The token endpoint: an answer with or without a refresh token, or an error,  *)
(* which is no AuthorizationRequiredError: the run fails.                     *)
Refresh(r) ==
  LET s == Head(run[r].todo) IN
  /\ run[r].at = "refresh"
  /\ Govern(r, TokenCall("remote_mcp.auth.refresh", s))
  /\ \/ /\ Len(issued) < MaxTokens
        /\ issued' = Append(issued, <<ProviderOf[s], UserOf[r]>>)
        /\ \E refresh \in {0, Len(issued) + 1} :
             run' = [run EXCEPT ![r].at = "save",
                                ![r].grant = Merged(NewGrant(Len(issued) + 1, refresh), @)]
     \/ Stops(r, "failed") /\ UNCHANGED issued
  /\ UNCHANGED <<grants, pending, requests, client, approved>>

SaveRefreshed(r) ==
  LET s == Head(run[r].todo) IN
  /\ run[r].at = "save"
  /\ grants' = [grants EXCEPT ![<<ProviderOf[s], UserOf[r]>>] = run[r].grant]
  /\ run' = [run EXCEPT ![r] = Onward(r, <<s, run[r].grant.token>>)]
  /\ UNCHANGED <<pending, requests, issued, client, approved, consents>>

-----------------------------------------------------------------------------
(* remote_mcp.authorize.start and remote_mcp.reauthorize, for a run that has a  *)
(* user.                                                                     *)
StartAuthorization(r, s) ==
  /\ requests < MaxRequests
  /\ UserOf[r] # NoUser /\ ProviderOf[s] # Static
  /\ requests' = requests + 1
  /\ pending' = pending \cup {[id |-> requests + 1, server |-> s, user |-> UserOf[r], run |-> r]}
  /\ UNCHANGED <<grants, issued, client, run, approved, consents>>

(* remote_mcp.authorize.complete: the row of the id is read; another id or      *)
(* state token is an error.                                                  *)
Complete(c, p) ==
  /\ client[c].at = "idle" /\ p \in pending
  /\ client' = [client EXCEPT ![c] = [Resting EXCEPT !.at = "exchange", !.request = p]]
  /\ UNCHANGED <<grants, pending, requests, issued, run, approved, consents>>

(* exchange_code: the provider issues tokens for the user who has consented.    *)
Exchange(c) ==
  LET p == client[c].request IN
  /\ client[c].at = "exchange"
  /\ Govern(p.run, TokenCall("remote_mcp.auth.complete", p.server))
  /\ \/ /\ Len(issued) < MaxTokens
        /\ issued' = Append(issued, <<ProviderOf[p.server], p.user>>)
        /\ \E refresh \in {0, Len(issued) + 1} :
             client' = [client EXCEPT ![c].at = "save", ![c].token = Len(issued) + 1,
                                      ![c].refresh = refresh]
     \/ client' = [client EXCEPT ![c] = Resting] /\ UNCHANGED issued
  /\ UNCHANGED <<grants, pending, requests, run, approved>>

SaveGrant(c) ==
  LET p == client[c].request IN
  /\ client[c].at = "save"
  /\ grants' = [grants EXCEPT ![<<ProviderOf[p.server], p.user>>] =
                  NewGrant(client[c].token, client[c].refresh)]
  /\ client' = [client EXCEPT ![c].at = "delete"]
  /\ UNCHANGED <<pending, requests, issued, run, approved, consents>>

DeletePending(c) ==
  /\ client[c].at = "delete"
  /\ pending' = pending \ {client[c].request}
  /\ client' = [client EXCEPT ![c] = Resting]
  /\ UNCHANGED <<grants, requests, issued, run, approved, consents>>

(* remote_mcp.revoke.                                                        *)
Revoke(k) ==
  /\ grants[k].status = "authorized"
  /\ grants' = [grants EXCEPT ![k].status = "revoked"]
  /\ UNCHANGED <<pending, requests, issued, client, run, approved, consents>>

(* expires_at passes.                                                        *)
Expire(k) ==
  /\ grants[k].status = "authorized" /\ ~grants[k].expired
  /\ grants' = [grants EXCEPT ![k].expired = TRUE]
  /\ UNCHANGED <<pending, requests, issued, client, run, approved, consents>>

(* The process ends; what is in the database stays.  A run that was connecting  *)
(* has the checkpoint run_started and can be resumed.                         *)
Restart ==
  /\ (\E c \in Clients : client[c].at # "idle") \/ \E r \in Runs : run[r].at \in {"headers", "refresh", "save"}
  /\ client' = [c \in Clients |-> Resting]
  /\ run' = [r \in Runs |-> IF run[r].at \in {"connect", "headers", "refresh", "save"}
                            THEN Unborn ELSE run[r]]
  /\ UNCHANGED <<grants, pending, requests, issued, approved, consents>>

RunStep(r) ==
  Start(r) \/ Connect(r) \/ Approve(r) \/ Headers(r) \/ Refresh(r) \/ SaveRefreshed(r)

Next ==
  \/ \E r \in Runs : RunStep(r) \/ \E s \in Names : StartAuthorization(r, s)
  \/ \E c \in Clients :
       Exchange(c) \/ SaveGrant(c) \/ DeletePending(c) \/ \E p \in pending : Complete(c, p)
  \/ \E k \in Keys : Revoke(k) \/ Expire(k)
  \/ Restart

Spec == Init /\ [][Next]_mvars

-----------------------------------------------------------------------------
(* A run is connected with tokens of its own user, of the provider of the       *)
(* server, whoever authorizes, refreshes and revokes at the same time.        *)
OwnTokens ==
  \A r \in Runs : \A i \in DOMAIN run[r].using :
    LET s == run[r].using[i][1]
        t == run[r].using[i][2]
    IN ProviderOf[s] # Static => issued[t] = <<ProviderOf[s], UserOf[r]>>

(* A grant that can be refreshed still can be after any refresh, also when the  *)
(* provider's answer has no new refresh token: a user who consented once is    *)
(* asked again only after completing another authorization without one.       *)
StaysRefreshable ==
  [][\A k \in Keys :
       grants[k].refresh # 0 /\ grants'[k].refresh = 0 =>
         \E c \in Clients : client[c].at = "save" /\ client'[c].at = "delete"]_mvars

(* README: the completion and the refresh of an authorization are governed.     *)
(* Refuted: the policy's word is never asked for.                            *)
TokenCallsAreGoverned == consents \subseteq {"ALLOW"}
=============================================================================
