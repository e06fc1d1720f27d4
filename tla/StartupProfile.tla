--------------------------- MODULE StartupProfile ---------------------------
(***************************************************************************)
(* How a launch of the CLI turns environment, active profile and defaults  *)
(* into a transport and a model, and what of it it writes back             *)
(* (cli/src/startup.rs).  Texts are model values: None is a variable that  *)
(* is not set or a field that is absent, Blank one of white space.         *)
(***************************************************************************)
CONSTANTS None, Blank, DefaultModel

ASSUME StartupAssumption == None \notin {Blank, DefaultModel, "gemini", "vertex", "static", "adc"}

EnvKeys == {"LIVE_BACKEND", "GEMINI_MODEL", "VERTEX_MODEL", "GEMINI_API_KEY", "VERTEX_LOCATION",
            "VERTEX_AUTH", "VERTEX_AI_ACCESS_TOKEN"}

NoEnv == [k \in EnvKeys |-> None]

\* The fields of ProfileConfig a transport is resolved from.
NoAccess == [backend |-> None, model |-> None, key |-> None, location |-> None, auth |-> None, token |-> None]

Or(first, second) == IF first # None THEN first ELSE second

\* required_setting: a blank variable hides the profile's value and is refused.
Given(value) == value \notin {None, Blank}

\* parse_backend and parse_vertex_auth_mode refuse what is neither.
Backend(env, profile) == Or(Or(env["LIVE_BACKEND"], profile.backend), "gemini")

AuthMode(env, profile) == Or(Or(env["VERTEX_AUTH"], profile.auth), "static")

\* resolve_model: only Vertex insists on one; Gemini takes a blank one as it is.
Model(env, profile) ==
  IF Backend(env, profile) = "gemini"
    THEN Or(Or(env["GEMINI_MODEL"], profile.model), DefaultModel)
    ELSE Or(env["VERTEX_MODEL"], profile.model)

Key(env, profile)      == Or(env["GEMINI_API_KEY"], profile.key)
Location(env, profile) == Or(env["VERTEX_LOCATION"], profile.location)
Token(env, profile)    == Or(env["VERTEX_AI_ACCESS_TOKEN"], profile.token)

\* resolve_startup_config: whether it succeeds.
Resolves(env, profile) ==
  \/ Backend(env, profile) = "gemini" /\ Given(Key(env, profile))
  \/ /\ Backend(env, profile) = "vertex"
     /\ Given(Location(env, profile)) /\ Given(Model(env, profile))
     /\ \/ AuthMode(env, profile) = "adc"
        \/ AuthMode(env, profile) = "static" /\ Given(Token(env, profile))

\* The transport and the model of the launch.
Access(env, profile) ==
  IF Backend(env, profile) = "gemini"
    THEN [backend |-> "gemini", model |-> Model(env, profile), key |-> Key(env, profile)]
    ELSE [backend |-> "vertex", model |-> Model(env, profile), location |-> Location(env, profile),
          auth |-> AuthMode(env, profile),
          token |-> IF AuthMode(env, profile) = "static" THEN Token(env, profile) ELSE None]

AuthStored(access) == access.auth

\* build_persisted_profile: the credentials of the other backend are not kept.
Persisted(access) ==
  IF access.backend = "gemini"
    THEN [NoAccess EXCEPT !.backend = "gemini", !.model = access.model, !.key = access.key]
    ELSE [NoAccess EXCEPT !.backend = "vertex", !.model = access.model, !.location = access.location,
                          !.auth = AuthStored(access), !.token = access.token]
=============================================================================
