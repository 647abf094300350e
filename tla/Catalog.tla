------------------------------ MODULE Catalog ------------------------------
\* rules/src/catalog.ts: what tells the handlers of each provider apart.
\* Names that the engine compares by parts of their text are tuples of words:
\* headers (split at "-" and "_"), environment variables, paths ("webhooks" is
\* the words "webhook" and "s", so that "/webhook" is a part of "/webhooks")
\* and calls (split at ".", "\\" and "::").
EXTENDS Integers, Sequences

NoHeader == <<>>

\* One call for each list of SHARED_VAS_SINKS: a query, an outbound request and
\* an event are of the first tier, a notification is of the second.  The lists
\* for agents add one more of the first tier.
SharedSinks == [t1 |-> {<<"db", "query">>, <<"fetch">>, <<"emitter", "emit">>},
                t2 |-> {<<"mail", "send">>}]
AgentSinks == [SharedSinks EXCEPT !.t1 = @ \cup {<<"agent", "invoke">>}]
NoSinks == [t1 |-> {}, t2 |-> {}]

\* What an entry says unless it says otherwise.
Plain == [headers |-> {}, packages |-> {}, namespaces |-> {}, modules |-> {},
          verify |-> {}, statics |-> {}, asymmetric |-> {}, envs |-> {}, literals |-> {},
          paths |-> {}, algorithm |-> "sha256", format |-> "raw_body",
          timestamp |-> NoHeader, tolerance |-> 0, sinks |-> SharedSinks]

\* The four paths most providers document.
Usual(n) == {<<"webhook", "s", n>>, <<"api", "webhook", "s", n>>,
             <<n, "webhook">>, <<n, "webhook", "s">>}

Stripe == [Plain EXCEPT
  !.headers = {<<"stripe", "signature">>},
  !.packages = {"stripe", "@stripe/stripe-js"}, !.namespaces = {<<"Stripe">>},
  !.modules = {"github.com/stripe/stripe-go"},
  !.verify = {<<"webhooks", "constructEvent">>, <<"webhooks", "constructEventAsync">>,
      <<"parseThinEvent">>, <<"Webhook", "constructEvent">>,
      <<"Webhook", "construct_event">>, <<"webhook", "ConstructEvent">>,
      <<"webhook", "ConstructEventWithTolerance">>,
      <<"webhook", "ConstructEventIgnoringTolerance">>},
  !.statics = {<<"Stripe", "Webhook", "constructEvent">>,
      <<"Webhook", "constructEvent">>,
      <<"Stripe", "WebhookSignature", "verifyHeader">>,
      <<"WebhookSignature", "verifyHeader">>},
  !.envs = {<<"STRIPE", "WEBHOOK">>, <<"STRIPE", "SIGNING">>},
  !.literals = {"whsec_"}, !.paths = Usual("stripe"), !.tolerance = 300]

Github == [Plain EXCEPT
  !.headers = {<<"x", "hub", "signature", "256">>, <<"x", "hub", "signature">>},
  !.packages = {"@octokit/webhooks", "@octokit/webhooks-methods"},
  !.modules = {"github.com/google/go-github"},
  !.verify = {<<"verify">>, <<"verifyRequest">>, <<"github", "ValidatePayload">>,
      <<"github", "ValidateSignature">>},
  !.envs = {<<"GITHUB", "WEBHOOK">>, <<"GH", "WEBHOOK">>},
  !.literals = {"ghs_", "github_pat_"}, !.paths = Usual("github")]

N8n == [Plain EXCEPT
  !.headers = {<<"x", "n8n", "signature">>, <<"x", "webhook", "token">>},
  !.packages = {"n8n-workflow", "n8n-core"},
  !.verify = {<<"getHeaderData">>, <<"timingSafeEqual">>,
      <<"crypto", "timingSafeEqual">>},
  !.envs = {<<"N8N", "WEBHOOK">>, <<"N8N", "SIGNING">>, <<"WEBHOOK", "TOKEN">>},
  !.literals = {"n8n_api_"}, !.paths = {<<"webhook", "s", "n8n">>},
  !.sinks = AgentSinks]

\* anthropic-agent-sdk.
Anthropic == [Plain EXCEPT
  !.headers = {<<"x", "signature">>, <<"x", "hub", "signature", "256">>},
  !.packages = {"@anthropic-ai/claude-agent-sdk"},
  !.verify = {<<"timingSafeEqual">>, <<"crypto", "timingSafeEqual">>,
      <<"createHmac">>},
  !.envs = {<<"ANTHROPIC", "WEBHOOK">>, <<"ANTHROPIC", "SIGNING">>,
      <<"AGENT", "WEBHOOK">>},
  !.paths = {<<"webhook", "s", "anthropic-agent">>, <<"api", "agent", "callback">>},
  !.sinks = AgentSinks]

Shopify == [Plain EXCEPT
  !.headers = {<<"x", "shopify", "hmac", "sha256">>},
  !.packages = {"@shopify/shopify-api", "@shopify/shopify-app-express"},
  !.namespaces = {<<"Shopify">>},
  !.verify = {<<"verifyHmac">>, <<"webhookRegistry", "process">>,
      <<"shopify", "webhooks", "validate">>, <<"verify">>},
  !.statics = {<<"Shopify", "Utils", "validateHmac">>, <<"Utils", "validateHmac">>,
      <<"Shopify", "Webhooks", "Validator", "validate">>,
      <<"Webhooks", "Validator", "validate">>},
  !.envs = {<<"SHOPIFY", "WEBHOOK">>, <<"SHOPIFY", "API", "SECRET">>,
      <<"SHOPIFY", "SIGNING">>},
  !.paths = Usual("shopify") \cup {<<"webhook", "s", "orders", "create">>,
      <<"webhook", "s", "products", "update">>}, !.tolerance = 300]

Slack == [Plain EXCEPT
  !.headers = {<<"x", "slack", "signature">>},
  !.packages = {"@slack/bolt", "@slack/events-api", "@slack/webhook"},
  !.verify = {<<"verifyRequestSignature">>, <<"isValidSlackRequest">>,
      <<"SignatureVerification">>, <<"verify">>, <<"is_valid_request">>},
  !.envs = {<<"SLACK", "SIGNING">>, <<"SLACK", "WEBHOOK">>},
  !.paths = {<<"webhook", "s", "slack">>, <<"api", "webhook", "s", "slack">>,
      <<"slack", "events">>, <<"slack", "commands">>, <<"slack", "interactivity">>,
      <<"slack", "options">>}, !.format = "timestamp_dot_body",
  !.timestamp = <<"x", "slack", "request", "timestamp">>, !.tolerance = 300]

Square == [Plain EXCEPT
  !.headers = {<<"x", "square", "hmacsha256", "signature">>},
  !.packages = {"square", "squareup"}, !.namespaces = {<<"Square">>},
  !.verify = {<<"WebhooksHelper", "verifySignature">>, <<"verifySignature">>,
      <<"WebhooksHelper", "isValidWebhookEventSignature">>,
      <<"isValidWebhookEventSignature">>,
      <<"WebhooksHelper", "is_valid_webhook_event_signature">>,
      <<"is_valid_webhook_event_signature">>},
  !.statics = {
      <<"Square", "Utils", "WebhooksHelper", "isValidWebhookEventSignature">>,
      <<"WebhooksHelper", "isValidWebhookEventSignature">>},
  !.envs = {<<"SQUARE", "WEBHOOK">>, <<"SQUARE", "SIGNATURE", "KEY">>},
  !.paths = Usual("square"), !.format = "custom_field_tuple"]

Twilio == [Plain EXCEPT
  !.headers = {<<"x", "twilio", "signature">>}, !.packages = {"twilio"},
  !.namespaces = {<<"Twilio">>},
  !.verify = {<<"validateRequest">>, <<"RequestValidator", "validate">>,
      <<"validate">>},
  !.statics = {<<"Twilio", "Security", "RequestValidator", "validate">>,
      <<"Security", "RequestValidator", "validate">>,
      <<"RequestValidator", "validate">>},
  !.envs = {<<"TWILIO", "AUTH">>, <<"TWILIO", "SIGNING">>},
  !.paths = {<<"webhook", "s", "twilio">>, <<"api", "webhook", "s", "twilio">>,
      <<"twilio", "webhook">>, <<"twilio", "voice">>, <<"twilio", "sms">>,
      <<"twilio", "messaging">>}, !.algorithm = "sha1", !.format = "custom"]

Standardwebhooks == [Plain EXCEPT
  !.headers = {<<"webhook", "signature">>},
  !.packages = {"standardwebhooks", "standard-webhooks/php"},
  !.namespaces = {<<"StandardWebhooks">>},
  !.modules = {"github.com/svix/svix-webhooks/go",
      "github.com/standard-webhooks/standard-webhooks/libraries/go"},
  !.verify = {<<"Webhook", "verify">>, <<"verify">>},
  !.statics = {<<"StandardWebhooks", "Webhook", "verify">>, <<"Webhook", "verify">>},
  !.envs = {<<"WEBHOOK", "SECRET">>, <<"STANDARDWEBHOOKS", "SECRET">>,
      <<"SVIX", "SECRET">>}, !.literals = {"whsec_"}, !.format = "custom",
  !.timestamp = <<"webhook", "timestamp">>, !.tolerance = 300]

Postmark == [Plain EXCEPT
  !.headers = {<<"authorization">>}, !.packages = {"postmark", "postmarker"},
  !.namespaces = {<<"Postmark">>},
  !.verify = {<<"verifyPostmarkAuth">>, <<"verifyWebhookAuth">>},
  !.envs = {<<"POSTMARK", "WEBHOOK">>, <<"POSTMARK", "BASIC", "AUTH">>,
      <<"POSTMARK", "HTTP", "AUTH">>},
  !.paths = {<<"webhook", "s", "postmark">>, <<"api", "webhook", "s", "postmark">>,
      <<"postmark", "webhook">>, <<"postmark", "inbound">>,
      <<"postmark", "outbound">>, <<"postmark", "bounce">>}, !.format = "custom"]

Mailchimp == [Plain EXCEPT
  !.headers = {<<"x", "mailchimp", "webhook", "signature">>},
  !.packages = {"@mailchimp/mailchimp_marketing", "mailchimp_marketing"},
  !.namespaces = {<<"DrewM", "MailChimp">>},
  !.verify = {<<"verifyMailchimpSignature">>, <<"verifyWebhookSignature">>},
  !.envs = {<<"MAILCHIMP", "WEBHOOK">>, <<"MAILCHIMP", "API", "KEY">>,
      <<"MAILCHIMP", "SIGNING">>},
  !.paths = {<<"webhook", "s", "mailchimp">>, <<"api", "webhook", "s", "mailchimp">>,
      <<"mailchimp", "webhook">>, <<"mc-webhook">>}, !.format = "custom"]

Hubspot == [Plain EXCEPT
  !.headers = {<<"x", "hubspot", "signature", "v3">>},
  !.packages = {"@hubspot/api-client", "hubspot", "hubspot3"},
  !.verify = {<<"verifyHubSpotSignature">>, <<"verifyWebhookSignature">>},
  !.envs = {<<"HUBSPOT", "WEBHOOK">>, <<"HUBSPOT", "CLIENT", "SECRET">>,
      <<"HUBSPOT", "SIGNING">>}, !.paths = Usual("hubspot"), !.format = "custom",
  !.timestamp = <<"x", "hubspot", "request", "timestamp">>]

Auth0 == [Plain EXCEPT
  !.headers = {<<"auth0", "signature">>},
  !.packages = {"auth0", "@auth0/auth0-spa-js", "@auth0/nextjs-auth0"},
  !.verify = {<<"verifyAuth0Signature">>, <<"verifyWebhookSignature">>},
  !.envs = {<<"AUTH0", "WEBHOOK">>, <<"AUTH0", "LOG", "STREAMS">>,
      <<"AUTH0", "SIGNING">>},
  !.paths = {<<"webhook", "s", "auth0">>, <<"api", "webhook", "s", "auth0">>,
      <<"auth0", "webhook">>, <<"auth0", "log-streams">>}]

Docusign == [Plain EXCEPT
  !.headers = {<<"x", "docusign", "signature", "1">>},
  !.packages = {"docusign-esign", "docusign-rest-client"},
  !.namespaces = {<<"DocuSign", "eSign">>},
  !.verify = {<<"verifyDocuSignSignature">>, <<"verifyWebhookSignature">>},
  !.envs = {<<"DOCUSIGN", "CONNECT">>, <<"DOCUSIGN", "WEBHOOK">>,
      <<"DOCUSIGN", "HMAC">>},
  !.paths = Usual("docusign") \cup {<<"docusign", "connect">>}]

Linear == [Plain EXCEPT
  !.headers = {<<"linear", "signature">>},
  !.packages = {"@linear/sdk", "linear-sdk"},
  !.verify = {<<"verifyLinearSignature">>, <<"verifyWebhookSignature">>},
  !.envs = {<<"LINEAR", "WEBHOOK">>, <<"LINEAR", "SIGNING">>,
      <<"LINEAR", "SIGNING", "SECRET">>}, !.paths = Usual("linear")]

Intercom == [Plain EXCEPT
  !.headers = {<<"x", "hub", "signature">>},
  !.packages = {"intercom-client", "intercom-node"},
  !.verify = {<<"verifyIntercomSignature">>, <<"verifyWebhookSignature">>},
  !.envs = {<<"INTERCOM", "WEBHOOK">>, <<"INTERCOM", "CLIENT", "SECRET">>,
      <<"INTERCOM", "SIGNING">>}, !.paths = Usual("intercom")]

Zoom == [Plain EXCEPT
  !.headers = {<<"x", "zm", "signature">>}, !.packages = {"@zoom/appssdk", "zoomus"},
  !.verify = {<<"verifyZoomSignature">>, <<"verifyWebhookSignature">>},
  !.envs = {<<"ZOOM", "WEBHOOK">>, <<"ZOOM", "SECRET", "TOKEN">>,
      <<"ZOOM", "SIGNING">>}, !.paths = Usual("zoom"),
  !.format = "timestamp_dot_body",
  !.timestamp = <<"x", "zm", "request", "timestamp">>]

Calendly == [Plain EXCEPT
  !.headers = {<<"calendly", "webhook", "signature">>},
  !.packages = {"@calendly/api", "calendly-python"},
  !.verify = {<<"verifyCalendlySignature">>, <<"verifyWebhookSignature">>},
  !.envs = {<<"CALENDLY", "WEBHOOK">>, <<"CALENDLY", "SIGNING">>},
  !.paths = Usual("calendly"), !.format = "timestamp_dot_body"]

Notion == [Plain EXCEPT
  !.headers = {<<"x", "notion", "signature">>},
  !.packages = {"@notionhq/client", "notion-client", "notion-sdk-py"},
  !.namespaces = {<<"Notion">>},
  !.verify = {<<"verifyNotionSignature">>, <<"verifyWebhookSignature">>},
  !.envs = {<<"NOTION", "WEBHOOK">>, <<"NOTION", "SIGNING">>,
      <<"NOTION", "VERIFICATION", "TOKEN">>}, !.paths = Usual("notion"),
  !.format = "custom"]

Bitbucket == [Plain EXCEPT
  !.headers = {<<"x", "hub", "signature">>},
  !.packages = {"bitbucket", "atlassian-python-api"},
  !.verify = {<<"verifyBitbucketSignature">>, <<"verifyWebhookSignature">>},
  !.envs = {<<"BITBUCKET", "WEBHOOK">>, <<"BITBUCKET", "SIGNING">>,
      <<"BB", "WEBHOOK">>}, !.paths = Usual("bitbucket")]

Pagerduty == [Plain EXCEPT
  !.headers = {<<"x", "pagerduty", "signature">>},
  !.packages = {"@pagerduty/pdjs", "pdpyras"},
  !.verify = {<<"verifyPagerDutySignature">>, <<"verifyWebhookSignature">>},
  !.envs = {<<"PAGERDUTY", "WEBHOOK">>, <<"PAGERDUTY", "SIGNING">>,
      <<"PD", "WEBHOOK">>}, !.paths = Usual("pagerduty")]

Sentry == [Plain EXCEPT
  !.headers = {<<"sentry", "hook", "signature">>},
  !.packages = {"@sentry/node", "@sentry/browser", "sentry-sdk"},
  !.namespaces = {<<"Sentry">>},
  !.verify = {<<"verifySentrySignature">>, <<"verifyWebhookSignature">>},
  !.envs = {<<"SENTRY", "WEBHOOK">>, <<"SENTRY", "CLIENT", "SECRET">>,
      <<"SENTRY", "INTEGRATION">>}, !.paths = Usual("sentry"),
  !.timestamp = <<"sentry", "hook", "timestamp">>]

Zendesk == [Plain EXCEPT
  !.headers = {<<"x", "zendesk", "webhook", "signature">>},
  !.packages = {"node-zendesk", "zenpy"}, !.namespaces = {<<"Zendesk", "API">>},
  !.verify = {<<"verifyZendeskSignature">>, <<"verifyWebhookSignature">>},
  !.envs = {<<"ZENDESK", "WEBHOOK">>, <<"ZENDESK", "SIGNING">>},
  !.paths = Usual("zendesk"), !.format = "timestamp_dot_body",
  !.timestamp = <<"x", "zendesk", "webhook", "signature", "timestamp">>]

Discord == [Plain EXCEPT
  !.headers = {<<"x", "signature", "ed25519">>},
  !.packages = {"discord-interactions", "discord-interactions-js", "tweetnacl",
      "nacl"},
  !.verify = {<<"verifyKey">>, <<"nacl", "sign", "detached", "verify">>,
      <<"VerifyKey", "verify">>},
  !.envs = {<<"DISCORD", "PUBLIC", "KEY">>, <<"DISCORD", "APP", "PUBLIC", "KEY">>},
  !.paths = {<<"api", "discord", "interactions">>, <<"discord", "interactions">>,
      <<"api", "interactions">>}, !.format = "custom",
  !.timestamp = <<"x", "signature", "timestamp">>,
  !.asymmetric = {<<"verifyKey">>, <<"nacl", "sign", "detached", "verify">>,
      <<"VerifyKey", "verify">>, <<"sodium_crypto_sign_verify_detached">>},
  !.sinks = NoSinks]

Nmi == [Plain EXCEPT
  !.headers = {<<"webhook", "signature">>},
  !.verify = {<<"timingSafeEqual">>, <<"crypto", "timingSafeEqual">>},
  !.envs = {<<"NMI", "WEBHOOK">>, <<"NMI", "SIGNING", "KEY">>},
  !.paths = Usual("nmi"), !.format = "timestamp_dot_body"]

Braintree == [Plain EXCEPT
  !.headers = {<<"bt", "signature">>}, !.packages = {"braintree"},
  !.namespaces = {<<"Braintree">>},
  !.verify = {<<"webhookNotification", "parse">>, <<"webhook_notification", "parse">>,
      <<"WebhookNotification", "parse">>},
  !.statics = {<<"Braintree", "WebhookNotification", "parse">>,
      <<"WebhookNotification", "parse">>,
      <<"Braintree", "Gateway", "webhookNotification">>},
  !.envs = {<<"BRAINTREE", "PRIVATE", "KEY">>}, !.paths = Usual("braintree"),
  !.algorithm = "sha1", !.format = "custom_field_tuple"]

Paypal == [Plain EXCEPT
  !.headers = {<<"paypal", "transmission", "sig">>,
      <<"paypal", "transmission", "id">>, <<"paypal", "transmission", "time">>,
      <<"paypal", "cert", "url">>},
  !.packages = {"paypal-rest-sdk", "paypalrestsdk", "@paypal/paypal-server-sdk",
      "@paypal/checkout-server-sdk"}, !.namespaces = {<<"PayPal">>},
  !.verify = {<<"webhookEvent", "verify">>, <<"WebhookEvent", "verify">>},
  !.envs = {<<"PAYPAL", "CLIENT", "SECRET">>, <<"PAYPAL", "SECRET">>},
  !.paths = Usual("paypal"), !.format = "custom",
  !.timestamp = <<"paypal", "transmission", "time">>]

\* The order of the entries: a header that several claim is the first one's.
Order == <<"stripe", "github", "n8n", "anthropic", "shopify", "slack",
           "square", "twilio", "standardwebhooks", "postmark", "mailchimp",
           "hubspot", "auth0", "docusign", "linear", "intercom", "zoom",
           "calendly", "notion", "bitbucket", "pagerduty", "sentry", "zendesk",
           "discord", "nmi", "braintree", "paypal">>

Catalog == [stripe |-> Stripe, github |-> Github, n8n |-> N8n,
            anthropic |-> Anthropic, shopify |-> Shopify, slack |-> Slack,
            square |-> Square, twilio |-> Twilio,
            standardwebhooks |-> Standardwebhooks, postmark |-> Postmark,
            mailchimp |-> Mailchimp, hubspot |-> Hubspot, auth0 |-> Auth0,
            docusign |-> Docusign, linear |-> Linear, intercom |-> Intercom,
            zoom |-> Zoom, calendly |-> Calendly, notion |-> Notion,
            bitbucket |-> Bitbucket, pagerduty |-> Pagerduty, sentry |-> Sentry,
            zendesk |-> Zendesk, discord |-> Discord, nmi |-> Nmi,
            braintree |-> Braintree, paypal |-> Paypal]

Providers == DOMAIN Catalog
=============================================================================
