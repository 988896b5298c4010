-------------------------- MODULE EmailDelivery --------------------------
(***************************************************************************)
(* services/email: one message, sent through the provider that is selected.*)
(* mail is the configuration: the provider and the variables that are set. *)
(***************************************************************************)

Needs == [resend |-> {"RESEND_API_KEY"},
          sendgrid |-> {"SENDGRID_API_KEY"},
          ses |-> {"AWS_SES_REGION", "AWS_SES_ACCESS_KEY_ID", "AWS_SES_SECRET_ACCESS_KEY"}]

\* getEmailProvider returns; what it returns it keeps, and so does the configuration.
isEmailProviderConfigured(mail) == Needs[mail.provider] \subseteq mail.set

\* How the provider's answer comes: not in time or not at all, a status that is not 2xx,
\* a 2xx whose body breaks off, one without a message id, one with it.
Replies == {"timeout", "network_error", "refused", "cut off", "no id", "id"}

\* The provider has the message, as far as its reply shows.
Accepted(reply) == reply \in {"cut off", "no id", "id"}

\* postJson returns with ok, and the same in the SES adapter's own fetch.
ReturnsOk(reply) == reply \in {"no id", "id"}

ResendSends(reply) == ReturnsOk(reply) /\ reply = "id"

\* A message id is made up where there is none.
SendGridSends(reply) == ReturnsOk(reply)

SesSends(reply) == ReturnsOk(reply) /\ reply = "id"

Sends(provider, reply) ==
  \/ provider = "resend" /\ ResendSends(reply)
  \/ provider = "sendgrid" /\ SendGridSends(reply)
  \/ provider = "ses" /\ SesSends(reply)

\* Whatever is thrown becomes FALSE.
trySendEmail(mail, reply) == isEmailProviderConfigured(mail) /\ Sends(mail.provider, reply)
=============================================================================
