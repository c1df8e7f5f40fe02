------------------------------ MODULE Providers ------------------------------
(***************************************************************************)
(* The adapters around the model SDKs (src/backend/app/providers, and the  *)
(* clients of the three judge frameworks under evaluation/): what becomes  *)
(* of one call to an SDK.                                                  *)
(*                                                                         *)
(* A call ends in an exception, raised by the SDK ("call") or by the code  *)
(* that reads the answer ("read"), or it is completed with a value.  Each  *)
(* adapter has a chain of except clauses for either, of which the first    *)
(* that fits decides on the error type; an exception that fits none goes   *)
(* through.                                                                *)
(***************************************************************************)
EXTENDS EvaluationResults, Sequences

CONSTANTS
  ModelOf,  \* the model that each live provider is configured with
  Pricing   \* the price of an input and of an output token, for the models that have one

Retryable == {"timeout", "rate_limit", "unavailable"}
ProviderErrorType == Retryable \cup {"malformed_response", "authentication"}

Uncaught == "uncaught"   \* the exception goes through the adapter

-----------------------------------------------------------------------------
(***************************************************************************)
(* The exceptions.  Of one from the Gemini SDK the HTTP status counts too, *)
(* and whether its message speaks of an API key or of a permission.        *)
(***************************************************************************)
Exception(class) == [class |-> class, code |-> 0, about_key |-> FALSE]

ClientError(code, about_key) ==
  [class |-> "ClientError", code |-> code, about_key |-> about_key]

\* Only a ClientError is looked at any closer than its class.
IsException(exception) ==
  /\ exception.about_key \in BOOLEAN
  /\ exception.class # "ClientError" => exception = Exception(exception.class)

StatusErrors ==
  {"APIStatusError", "AuthenticationError", "RateLimitError", "PermissionDeniedError",
   "BadRequestError", "InternalServerError"}

\* The HTTP status that a class of them stands for.
StatusOfClass ==
  [AuthenticationError |-> 401, PermissionDeniedError |-> 403, RateLimitError |-> 429,
   BadRequestError |-> 400]

http_status(exception) ==
  IF exception.class \in DOMAIN StatusOfClass THEN StatusOfClass[exception.class]
  ELSE exception.code

ConnectionErrors == {"APIConnectionError", "APITimeoutError"}

OpenAIErrors ==
  StatusErrors \cup ConnectionErrors
    \cup {"OpenAIError", "APIError", "APIResponseValidationError", "LengthFinishReasonError"}

\* The classes of exceptions that have subclasses.
Subclasses ==
  [APIStatusError     |-> StatusErrors,
   APIConnectionError |-> ConnectionErrors,
   OpenAIError        |-> OpenAIErrors,
   TimeoutException   |-> {"TimeoutException", "ConnectTimeout", "ReadTimeout"},
   GeminiAPIError     |-> {"GeminiAPIError", "ClientError", "ServerError"},
   ValueError         |-> {"ValueError", "ValidationError"}]

IsInstance(exception, class) ==
  \/ class \in {exception.class, "Exception"}
  \/ class \in DOMAIN Subclasses /\ exception.class \in Subclasses[class]

\* An except clause, and what a chain of them makes of an exception.
Except(classes, error_type) == [classes |-> classes, error_type |-> error_type]

Fits(clauses, exception) ==
  {i \in DOMAIN clauses : \E class \in clauses[i].classes : IsInstance(exception, class)}

Handle(clauses, exception) ==
  IF Fits(clauses, exception) = {} THEN Uncaught
  ELSE LET first == CHOOSE i \in Fits(clauses, exception) :
                      \A j \in Fits(clauses, exception) : i <= j
       IN  clauses[first].error_type

-----------------------------------------------------------------------------
(***************************************************************************)
(* What one call to an SDK comes to.                                       *)
(***************************************************************************)
Raised(at, exception) == [at |-> at, exception |-> exception, value |-> None]

Completed(value) == [at |-> "returned", exception |-> None, value |-> value]

\* The error type of a call, or None if it was completed.
ErrorType(call_clauses, read_clauses, outcome) ==
  IF outcome.at = "returned" THEN None
  ELSE Handle(IF outcome.at = "call" THEN call_clauses ELSE read_clauses, outcome.exception)

\* Variant: the connection errors, of which a timeout is one, before the timeout.
OpenAIClausesReordered ==
  << Except({"AuthenticationError"}, "authentication"),
     Except({"RateLimitError"}, "rate_limit"),
     Except({"APIConnectionError"}, "unavailable"),
     Except({"APITimeoutError"}, "timeout"),
     Except({"APIStatusError"}, "unavailable"),
     Except({"OpenAIError"}, "unavailable") >>

\* OpenAIProvider.generate: the API call, and the reading of its first choice.
OpenAIClauses ==
  << Except({"APITimeoutError"}, "timeout"),
     Except({"AuthenticationError"}, "authentication"),
     Except({"RateLimitError"}, "rate_limit"),
     Except({"APIConnectionError"}, "unavailable"),
     Except({"APIStatusError"}, "unavailable"),
     Except({"OpenAIError"}, "unavailable") >>

OpenAIReadClauses == << Except({"IndexError", "AttributeError"}, "malformed_response") >>

\* Variant: looks at the status alone.
ClassifyByCode(exception) ==
  IF exception.code \in {401, 403} THEN "authentication"
  ELSE IF exception.code = 429 THEN "rate_limit"
  ELSE "unavailable"

\* GeminiProvider._classify_client_error: a bad key is answered with a 400.
classify_client_error(exception) ==
  IF exception.code = 429 THEN "rate_limit"
  ELSE IF exception.code \in {401, 403} \/ exception.about_key THEN "authentication"
  ELSE "unavailable"

\* GeminiProvider.generate.
GeminiClauses(exception) ==
  << Except({"TimeoutException", "TimeoutError"}, "timeout"),
     Except({"ClientError"}, classify_client_error(exception)),
     Except({"ServerError"}, "unavailable"),
     Except({"GeminiAPIError"}, "unavailable") >>

GeminiReadClauses == << Except({"AttributeError", "ValueError"}, "malformed_response") >>

(***************************************************************************)
(* The _run of the three judge clients: nothing goes through.              *)
(***************************************************************************)
RagasClauses ==
  << Except({"APITimeoutError"}, "timeout"),
     Except({"AuthenticationError"}, "authentication"),
     Except({"RateLimitError"}, "rate_limit"),
     Except({"APIConnectionError"}, "unavailable"),
     Except({"APIStatusError"}, "unavailable"),
     Except({"OpenAIError"}, "unavailable"),
     Except({"Exception"}, "unavailable") >>

DeepEvalClauses ==
  << Except({"APITimeoutError"}, "timeout"),
     Except({"AuthenticationError"}, "authentication"),
     Except({"RateLimitError"}, "rate_limit"),
     Except({"APIConnectionError"}, "unavailable"),
     Except({"APIStatusError"}, "unavailable"),
     Except({"OpenAIError"}, "unavailable"),
     Except({"DeepEvalError"}, "unavailable"),
     Except({"Exception"}, "unavailable") >>

\* The score of either is read as a float after the call.
ScoreReadClauses == << Except({"TypeError", "ValueError"}, "malformed_response") >>

\* A judge without an answer to parse is an error that _call itself raises.
OpenAIEvalsClauses ==
  << Except({"APITimeoutError"}, "timeout"),
     Except({"AuthenticationError"}, "authentication"),
     Except({"RateLimitError"}, "rate_limit"),
     Except({"APIConnectionError"}, "unavailable"),
     Except({"APIStatusError"}, "unavailable"),
     Except({"OpenAIError"}, "unavailable"),
     Except({"ValidationError"}, "malformed_response"),
     Except({"OpenAIEvalsEvaluatorError"}, "malformed_response"),
     Except({"Exception"}, "unavailable") >>

-----------------------------------------------------------------------------
(***************************************************************************)
(* ProviderResponse.  A text is its normalized form with what the checks   *)
(* look for in it: the phrases it contains and the schemas it satisfies.   *)
(* structured_output is left out: nothing reads it.                        *)
(***************************************************************************)
Text(normalized, phrases, valid_for) ==
  [normalized |-> normalized, phrases |-> phrases, valid_for |-> valid_for]

BlankText == Text("", {}, {})

ProviderResponse(text, retrieved_context, latency_ms, estimated_cost) ==
  [text |-> text, retrieved_context |-> retrieved_context, latency_ms |-> latency_ms,
   estimated_cost |-> estimated_cost, error |-> None]

\* A blank text contains no phrase and is no JSON document.
IsResponse(response) ==
  /\ response.text.normalized = "" => response.text.phrases = {} /\ response.text.valid_for = {}
  /\ response.latency_ms \in Nat /\ response.estimated_cost \in Nat \cup {None}
  /\ response.error = None

ErrorResponse(error_type) ==
  [text |-> BlankText, retrieved_context |-> {}, latency_ms |-> 0,
   estimated_cost |-> None, error |-> error_type]

\* TableCostCalculator.estimate: a model without a price is free.
estimate(model, usage) ==
  IF model \in DOMAIN Pricing
    THEN usage.input * Pricing[model].input + usage.output * Pricing[model].output
    ELSE 0

\* A live answer has content (or None), a latency and, unless it is None, a usage.
LiveAnswer(content, latency_ms, usage) ==
  [content |-> content, latency_ms |-> latency_ms, usage |-> usage]

LiveResponse(provider, answer) ==
  ProviderResponse(IF answer.content = None THEN BlankText ELSE answer.content, {},
                   answer.latency_ms,
                   IF answer.usage = None THEN None ELSE estimate(ModelOf[provider], answer.usage))

generate_live(provider, outcome) ==
  LET error_type ==
        IF provider = "openai"
          THEN ErrorType(OpenAIClauses, OpenAIReadClauses, outcome)
          ELSE ErrorType(GeminiClauses(outcome.exception), GeminiReadClauses, outcome)
  IN  IF error_type = None THEN LiveResponse(provider, outcome.value)
      ELSE ErrorResponse(error_type)

\* DeterministicProvider.generate: the recorded answer, with its recorded context.
FixtureResponse(text, retrieved_context, latency_ms, estimated_cost) ==
  ProviderResponse(text, retrieved_context, latency_ms, estimated_cost)

generate_fixture(fixtures, case_id) ==
  IF case_id \in DOMAIN fixtures THEN fixtures[case_id] ELSE ErrorResponse("malformed_response")

-----------------------------------------------------------------------------
(***************************************************************************)
(* ProviderFactory.create: "ready", or the error the request fails with.   *)
(* The fixtures are what DatasetService.get_fixtures came to.              *)
(***************************************************************************)
create(provider, keys, fixtures) ==
  IF provider = "deterministic" THEN fixtures
  ELSE IF provider \in keys THEN "ready"
  ELSE "provider_configuration_error"   \* no key, or no such provider

=============================================================================
