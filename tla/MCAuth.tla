------------------------------- MODULE MCAuth -------------------------------
(***************************************************************************)
(* Instance of Auth: a tick is an hour, so a refresh is due every tick,    *)
(* the cache is stale after two and a connection lives for one.            *)
(***************************************************************************)
EXTENDS Auth

CONSTANTS k1, k2, r1

MCKeys     == {k1, k2}
MCRequests == {r1}

\* A configuration that sets the fields in S.
Sets(S) == [f \in {"jwks_url", "admin_token", "api_token", "read_tokens",
                   "require_read_auth", "required_role"} |-> f \in S]

\* Every configuration without a JWKS, and two with one.
MCConfigs  ==
    {c \in AuthConfig : ~c.jwks_url}
    \cup {Sets({"jwks_url", "read_tokens", "require_read_auth", "required_role"}),
          Sets({"jwks_url", "admin_token"})}
=============================================================================
