------------------------------- MODULE ErrorModel -------------------------------
(***************************************************************************)
(* errors.go: what an answer that is not 2xx becomes, and what errors.Is     *)
(* makes of it.  Codes are compared by strings.EqualFold and normalised by   *)
(* strings.ToLower, so they are lower-case words here; sentinels that differ *)
(* in case only, as INVALID_AMOUNT and invalid_amount, are one word.         *)
(***************************************************************************)
EXTENDS Naturals

NoCode == ""

\* Mutant: the aliases are not looked up.
RawNormalizeCode(code) == code

\* Aliases that are more than another case of their code.
LegacyCodeAliases ==
  [invalid_request       |-> "validation_error",
   insufficient_balance  |-> "wallet_balance_insufficient",
   duplicate_transaction |-> "idempotency_key_conflict",
   idempotency_conflict  |-> "idempotency_key_conflict",
   kyc_required          |-> "kyc_not_approved",
   operator_unavailable  |-> "operator_not_available",
   service_unavailable   |-> "provider_not_configured"]

NormalizeCode(code) ==
  IF code \in DOMAIN LegacyCodeAliases THEN LegacyCodeAliases[code] ELSE code

DefaultCodeForStatus(status) ==
  CASE status \in {400, 422} -> "validation_error"
    [] status = 401 -> "invalid_api_key"
    [] status = 402 -> "wallet_balance_insufficient"
    [] status = 403 -> "kyc_not_approved"
    [] status = 409 -> "idempotency_key_conflict"
    [] status = 429 -> "rate_limit_exceeded"
    [] status = 500 -> "internal_error"
    [] status = 503 -> "provider_not_configured"
    [] status = 504 -> "provider_timeout"
    [] OTHER -> "api_error"

ErrorType(status) ==
  CASE status \in {401, 403} -> "AuthenticationError"
    [] status = 402 -> "WalletError"
    [] status = 409 -> "ConflictError"
    [] status = 429 -> "RateLimitError"
    [] status \in {400, 422} -> "ValidationError"
    [] OTHER -> "ApiError"

\* The code of the body, from "error" or else from "code", or that of the status.
ParseApiError(status, code) ==
  [type |-> ErrorType(status),
   code |-> IF code = NoCode THEN DefaultCodeForStatus(status) ELSE NormalizeCode(code)]

Is(error, sentinel) == error.code = sentinel

\* Sentinels, each with the status it is documented with.
MoneySentinels ==
  ({400} \X {"validation_error", "missing_required_field"}) \union
  ({401} \X {"missing_api_key", "invalid_api_key", "missing_transaction_token",
           "invalid_transaction_token"}) \union
  ({402} \X {"wallet_balance_insufficient", "wallet_not_found"}) \union
  ({403} \X {"kyc_not_approved", "wallet_frozen", "country_not_activated",
           "sandbox_key_required", "sandbox_path_required"}) \union
  ({409} \X {"idempotency_key_conflict", "duplicate_reference"}) \union
  ({422} \X {"invalid_amount", "invalid_operator_country", "missing_phone", "invalid_phone",
           "operator_not_available", "currency_mismatch", "amount_exceeds_limit",
           "daily_limit_exceeded", "cashout_refused"}) \union
  ({429} \X {"rate_limit_exceeded", "plan_tx_limit_reached", "too_many_requests"}) \union
  ({500} \X {"internal_error"}) \union
  ({503} \X {"provider_not_configured", "provider_unavailable"}) \union
  ({504} \X {"provider_timeout"})

CardSentinels ==
  ({400} \X {"invalid_merchant_id", "invalid_brand", "invalid_amount", "customer_not_enrolled",
           "environment_mismatch", "card_not_active", "card_not_eligible", "card_not_frozen",
           "card_already_terminated", "invalid_action", "invalid_card_id",
           "invalid_customer_id", "invalid_customer", "invalid_body", "missing_documents",
           "invalid_document", "ambiguous_amount"}) \union
  ({403} \X {"plan_feature_not_available", "transaction_token_ip_mismatch"}) \union
  ({404} \X {"card_not_found", "customer_not_found"}) \union
  ({409} \X {"customer_exists", "request_in_progress"}) \union
  ({422} \X {"amount_above_max", "amount_too_small", "max_cards_reached",
           "insufficient_card_balance", "card_creation_rejected", "card_topup_rejected",
           "card_withdraw_rejected", "card_action_rejected", "quote_failed"}) \union
  ({500} \X {"card_withdraw_credit_failed"}) \union
  ({502} \X {"provider_error", "card_action_failed"}) \union
  ({503} \X {"provider_unavailable", "rate_unavailable", "idempotency_unavailable"})

Sentinels == MoneySentinels \union CardSentinels

\* The order's key is in use.
ConflictSentinels == {"idempotency_key_conflict", "request_in_progress"}

\* The request was not let in; the order may be at work for another one.
AccessSentinels ==
  {"sandbox_key_required", "sandbox_path_required", "transaction_token_ip_mismatch"}

RefusalStatuses == {400, 402, 403, 404, 409, 422}

\* The order was looked at and refused.
RefusalSentinels ==
  {s[2] : s \in {u \in Sentinels : u[1] \in RefusalStatuses}}
    \ (ConflictSentinels \union AccessSentinels)

\* What an application that asks errors.Is learns of its order; the two empty
\* wallets share a sentinel and differ by the type of the error.
Learns(error) ==
  IF Is(error, "wallet_balance_insufficient")
    THEN IF error.type = "WalletError" THEN "noFunds" ELSE "noCardFunds"
  ELSE IF \E s \in ConflictSentinels : Is(error, s) THEN "conflict"
  ELSE IF \E s \in RefusalSentinels : Is(error, s) THEN "refused"
  ELSE "error"

=================================================================================
