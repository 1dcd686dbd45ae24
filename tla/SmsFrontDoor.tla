---------------------------- MODULE SmsFrontDoor ----------------------------
(***************************************************************************)
(* A process from its environment to its first answer: the validation of   *)
(* the environment (config/environment.validation), the constructors that  *)
(* read it again (providers.module, provider.factory, the strategies,      *)
(* EncryptionService, PrivateNetworkGuard) and the checks a request to     *)
(* POST /api/v1/sms/send passes before SmsAcceptance (the guard, SendSmsDto*)
(* and SmsService.acceptMessage).  Requests do not affect each other       *)
(* before that, so one is enough.  The guard is the dead-letter route's    *)
(* too.                                                                    *)
(*                                                                         *)
(* The arithmetic of the guard and the inspection of `metadata`, which is  *)
(* never an explicit null here, are in PrivateNetworks and MetadataLimits. *)
(***************************************************************************)
EXTENDS PrivateNetworks, MetadataLimits, Functions

CONSTANTS
  Environments,        \* what operators deploy with
  SendRequests,        \* what callers send
  MaxMessageLength     \* MAX_MESSAGE_LENGTH

KeyLengthBytes == 32

\* Split at commas, a variable has one piece at least; None is a blank one.
ASSUME EnvironmentsAssumption ==
  \A e \in Environments :
    /\ e.priority \in Seq([name : STRING, padded : BOOLEAN]) \ {<<>>}
    /\ e.networks \in Seq(EntryTexts \cup {None})

ASSUME RequestsAssumption ==
  /\ MaxMessageLength \in Nat
  /\ \A in \in SendRequests :
       /\ in.caller \in Texts \cup {None}
       /\ in.body \in [e164 : BOOLEAN, message : Nat \cup {None},
                       metadata : Items \cup {None}, oversized : BOOLEAN]

ASSUME NoneAssumption == None \notin Nat \cup Items

VARIABLES
  env,        \* the process environment
  stage,      \* how far the start has come
  priority,   \* SMS_PROVIDER_PRIORITY as ConfigService returns it
  registry,   \* the strategies the factory holds
  networks,   \* the guard's allowedCidrs, of which it only asks for a match
  request     \* the request being handled; its `body` as the pipe passes it on

vars == <<env, stage, priority, registry, networks, request>>

\* "refused" is the validation's, "faulty" a constructor's or a hook's throw.
Stages == {"down", "refused", "starting", "faulty", "up"}

-----------------------------------------------------------------------------
(* The environment.                                                         *)

SupportedProviders == {"twilio", "bird"}

\* The pieces of SMS_PROVIDER_PRIORITY, trimmed.
Trimmed(words) == [i \in DOMAIN words |-> words[i].name]

PriorityIsValid(names) ==
  /\ Range(names) \subseteq SupportedProviders
  /\ IsInjective(names)

\* Mutant: what sending takes.
RequiredCredentials_toSend ==
  [twilio |-> {"TWILIO_ACCOUNT_SID", "TWILIO_AUTH_TOKEN", "TWILIO_FROM_NUMBER"},
   bird |-> {"BIRD_API_KEY", "BIRD_WORKSPACE_ID", "BIRD_CHANNEL_ID"}]

RequiredCredentials ==
  [twilio |-> {"TWILIO_ACCOUNT_SID", "TWILIO_AUTH_TOKEN", "TWILIO_FROM_NUMBER"},
   bird |-> {"BIRD_API_KEY", "BIRD_WORKSPACE_ID", "BIRD_CHANNEL_ID",
             "BIRD_WEBHOOK_SIGNING_KEY"}]

\* Mutant: only the first provider's.
CredentialsPresent_first(names, credentials) ==
  RequiredCredentials[names[1]] \subseteq credentials

CredentialsPresent(names, credentials) ==
  \A name \in Range(names) : RequiredCredentials[name] \subseteq credentials

\* Of a credential only the presence is checked, as of the networks.
\* `wellFormed`: the other fields are of their kinds (URLs, positive integers).
IsValidEnvironment(e) ==
  /\ e.wellFormed
  /\ e.networks # <<>>
  /\ e.keyBytes = KeyLengthBytes
  /\ PriorityIsValid(Trimmed(e.priority))
  /\ CredentialsPresent(Trimmed(e.priority), e.credentials)

\* getOrThrow in the strategies' constructors.
ReadByStrategy ==
  [twilio |-> {"TWILIO_ACCOUNT_SID", "TWILIO_AUTH_TOKEN", "TWILIO_FROM_NUMBER"},
   bird |-> {"BIRD_API_KEY", "BIRD_WORKSPACE_ID", "BIRD_CHANNEL_ID"}]

\* The secret without which a provider's webhook answers 404.
WebhookSecret == [twilio |-> "TWILIO_AUTH_TOKEN", bird |-> "BIRD_WEBHOOK_SIGNING_KEY"]

\* getOrderedProviders: registered providers only.
OrderedProviders ==
  LET ordered[i \in 0..Len(priority)] ==
        CASE i = 0 -> <<>>
          [] i > 0 /\ priority[i] \in registry -> Append(ordered[i - 1], priority[i])
          [] OTHER -> ordered[i - 1]
  IN ordered[Len(priority)]

\* Blank pieces of PRIVATE_NETWORK_CIDRS are dropped.
Entries(e) == Range(e.networks) \ {None}

IsAllowed(caller) ==
  /\ caller # None
  /\ IsIp(caller)
  /\ \E cidr \in networks : Matches(ParseIp(caller), cidr)

\* The pipe's first half: the body as an instance of SendSmsDto.
Transformed(body) ==
  [body EXCEPT !.metadata = IF body.metadata = None THEN None ELSE Converted[body.metadata]]

\* SendSmsDto: an E.164 number, a text that is not empty (its length; None when
\* it is no string), and metadata that is an object of at most 4096 bytes, as it
\* is after the conversion.
FitsDto(body) ==
  /\ body.e164
  /\ body.message # None /\ body.message > 0
  /\ body.metadata # None => body.metadata.kind = "object" /\ ~body.oversized

\* acceptMessage, up to the encryption: key, length, metadata.
FitsService(key, body) ==
  /\ key \notin {"absent", "blank"}
  /\ body.message <= MaxMessageLength
  /\ body.metadata # None => ~body.oversized /\ IsBoundedMetadata(body.metadata)

-----------------------------------------------------------------------------

FrontDoorTypeOK ==
  /\ env \in Environments \cup {None}
  /\ stage \in Stages
  /\ priority = None \/ PriorityIsValid(priority)
  /\ registry = None \/ registry \subseteq SupportedProviders
  /\ networks # None =>
       \A cidr \in networks :
         /\ cidr.version \in Versions
         /\ cidr.prefix \in 0..TotalBits(cidr.version)
         /\ cidr.value \in 0..(TwoTo[TotalBits(cidr.version)] - 1)
  /\ request # None =>
       /\ request.in \in SendRequests
       /\ request.at \in {"guard", "pipe", "service", "answered"}
       /\ request.body \in {None, Transformed(request.in.body)}
       /\ request.code \in (IF request.at = "answered" THEN {202, 400, 403} ELSE {None})

Init ==
  /\ env = None
  /\ stage = "down"
  /\ priority = None /\ registry = None /\ networks = None /\ request = None

\* A deployment: validateEnvironment, as the modules are loaded.
ValidateEnvironment ==
  /\ stage = "down"
  /\ \E e \in Environments :
       /\ env' = e
       /\ IF IsValidEnvironment(e)
          THEN stage' = "starting" /\ priority' = Trimmed(e.priority)
          ELSE stage' = "refused" /\ UNCHANGED priority
  /\ UNCHANGED <<registry, networks, request>>

\* A strategy's constructor.  The Twilio SDK's, which it calls, wants an account
\* SID that begins with "AC" (external).
CanConstruct(name, e) ==
  /\ ReadByStrategy[name] \subseteq e.credentials
  /\ name = "twilio" => e.sidIsAccounts

\* buildConfiguredProviders, and the factory that registers what it built.
BuildProviders ==
  /\ stage = "starting"
  /\ registry = None
  /\ LET names == {name \in Range(priority) : name \in SupportedProviders} IN
     IF \A name \in names : CanConstruct(name, env)
     THEN registry' = names /\ UNCHANGED stage
     ELSE stage' = "faulty" /\ UNCHANGED registry
  /\ UNCHANGED <<env, priority, networks, request>>

\* Mutant: the prefix is not compared with the width.
BuildGuard_anyPrefix ==
  /\ stage = "starting"
  /\ networks = None
  /\ IF \A entry \in Entries(env) : IsIp(entry.address)
     THEN /\ networks' = {ParseCidr(entry) : entry \in Entries(env)}
          /\ UNCHANGED stage
     ELSE stage' = "faulty" /\ UNCHANGED networks
  /\ UNCHANGED <<env, priority, registry, request>>

\* PrivateNetworkGuard's constructor.
BuildGuard ==
  /\ stage = "starting"
  /\ networks = None
  /\ IF \A entry \in Entries(env) : IsCidr(entry)
     THEN /\ networks' = {ParseCidr(entry) : entry \in Entries(env)}
          /\ UNCHANGED stage
     ELSE stage' = "faulty" /\ UNCHANGED networks
  /\ UNCHANGED <<env, priority, registry, request>>

\* EncryptionService.onModuleInit, then app.listen.
Listen ==
  /\ stage = "starting"
  /\ registry # None /\ networks # None
  /\ stage' = IF env.keyBytes = KeyLengthBytes THEN "up" ELSE "faulty"
  /\ UNCHANGED <<env, priority, registry, networks, request>>

\* The process ends, whatever it was doing.
Stop ==
  /\ stage # "down"
  /\ stage' = "down"
  /\ env' = None /\ priority' = None /\ registry' = None /\ networks' = None /\ request' = None

Arrive ==
  /\ stage = "up"
  /\ request = None
  /\ \E in \in SendRequests : request' = [in |-> in, at |-> "guard", body |-> None, code |-> None]
  /\ UNCHANGED <<env, stage, priority, registry, networks>>

\* One check: the request goes on or is answered.
Check(at, passes, next, refusal) ==
  /\ request # None
  /\ request.at = at
  /\ request' = IF passes THEN next ELSE [request EXCEPT !.at = "answered", !.code = refusal]
  /\ UNCHANGED <<env, stage, priority, registry, networks>>

\* PrivateNetworkGuard.canActivate.
CheckCaller ==
  Check("guard", IsAllowed(request.in.caller), [request EXCEPT !.at = "pipe"], 403)

\* The ValidationPipe.
CheckBody ==
  LET body == Transformed(request.in.body) IN
  Check("pipe", FitsDto(body), [request EXCEPT !.at = "service", !.body = body], 400)

\* SmsService.acceptMessage; what it does with a good request is SmsAcceptance.
AcceptMessage ==
  Check("service", FitsService(request.in.key, request.body),
        [request EXCEPT !.at = "answered", !.code = 202], 400)

Depart ==
  /\ request # None
  /\ request.at = "answered"
  /\ request' = None
  /\ UNCHANGED <<env, stage, priority, registry, networks>>

Next ==
  \/ ValidateEnvironment \/ BuildProviders \/ BuildGuard \/ Listen \/ Stop
  \/ Arrive \/ CheckCaller \/ CheckBody \/ AcceptMessage \/ Depart

Spec == Init /\ [][Next]_vars

-----------------------------------------------------------------------------
(* Properties.                                                              *)

\* What the validation lets through, the constructors and hooks that read it
\* again accept, but for two things that only they look at: a network that is
\* none (the guard's) and an account SID that is none (the Twilio SDK's).
\* docs/configuration.md:3-5 knows no exception.
OnlySidOrNetworksStopAStart ==
  stage = "faulty" =>
    \/ \E entry \in Entries(env) : ~IsCidr(entry)
    \/ "twilio" \in Range(Trimmed(env.priority)) /\ ~env.sidIsAccounts

\* A process that serves has all the providers of SMS_PROVIDER_PRIORITY, in that
\* order and at least one, and the secret each one's delivery reports are checked
\* with, as the dispatch (SmsDispatch) and the webhooks (SmsWebhooks) assume.
ProvidersAreComplete ==
  stage = "up" =>
    /\ OrderedProviders = Trimmed(env.priority)
    /\ OrderedProviders # <<>>
    /\ \A name \in Range(OrderedProviders) : WebhookSecret[name] \in env.credentials

\* The callers that pass the guard are those whose address begins with the prefix
\* of a listed network, for the addresses and networks of PrivateNetworks: IPv4,
\* mapped as ::ffff:a.b.c.d or not, and IPv6 without a dotted tail, with "::" or
\* not (private-network.guard).
CallersAreOfTheNetworks ==
  request # None /\ request.at # "guard" =>
    (request.code # 403 <=>
       /\ request.in.caller # None
       /\ \E entry \in Entries(env) : IsInBlock(request.in.caller, entry))

\* The requests with a key that are accepted are those whose message and metadata
\* are within the limits as a whole, whichever of the two validators looks at
\* which (send-sms.dto, sms.service).  The limits are on the metadata as the pipe
\* leaves it: what the framework drops from it neither counts nor is refused.
\* Of these limits docs/api.md:38 has none, openapi.yaml:79-85 the kind and size.
AcceptedAreWithinLimits ==
  request # None /\ request.code \in {202, 400} =>
    LET body == request.in.body IN
    (request.code = 202 <=>
       /\ request.in.key \notin {"absent", "blank"}
       /\ body.e164
       /\ body.message \in 1..MaxMessageLength
       /\ body.metadata # None =>
            /\ ~body.oversized
            /\ body.metadata.kind = "object"
            /\ IsWithinLimits(Converted[body.metadata]))

=============================================================================
