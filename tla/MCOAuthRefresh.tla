-------------------------- MODULE MCOAuthRefresh --------------------------
(* Small instances of OAuthRefresh: two refreshers and an administrator.  *)
EXTENDS OAuthRefresh

CONSTANTS a1, a2, a3, p1, p2

Mix(k1, k2, k3, platform, denial, ages, f) ==
    [kind |-> a1 :> k1 @@ a2 :> k2 @@ a3 :> k3,
     home |-> a1 :> p1 @@ a2 :> p2 @@ a3 :> p1,
     platform |-> platform, denial |-> denial, ages |-> ages, faults |-> f]

Mixed ==
    {Mix("background", "background", "background", "openai", "invalid_grant", 1, 2),
     Mix("background", "background", "request", "openai", "refresh_token_reused", 1, 1),
     Mix("background", "request", "absent", "openai", "invalid_grant", 2, 1),
     Mix("background", "request", "manual", "openai", "invalid_grant", 1, 1),
     Mix("background", "request", "reauthorize", "openai", "refresh_token_reused", 1, 1),
     Mix("background", "request", "edit", "openai", "invalid_grant", 1, 1),
     Mix("background", "background", "request", "grok", "invalid_grant", 1, 1),
     Mix("background", "request", "reauthorize", "grok", "invalid_grant", 1, 1),
     Mix("background", "request", "manual", "grok", "invalid_grant", 1, 1),
     Mix("background", "request", "edit", "grok", "invalid_grant", 1, 1)}
=============================================================================
