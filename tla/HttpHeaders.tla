---------------------------- MODULE HttpHeaders ----------------------------
(***************************************************************************)
(* The checks internal/checker/http_headers.go derives from one HTTP       *)
(* response.  A response is its status code, whether Location starts with  *)
(* https://, and the set of headers that carry a non-blank value; "csp" is *)
(* a policy without frame-ancestors, "csp_frame" one with it, "nosniff" an *)
(* X-Content-Type-Options of that value and "xcto_other" any other one.    *)
(***************************************************************************)
EXTENDS Integers

HeaderTokens == {"hsts", "csp", "csp_frame", "nosniff", "xcto_other", "xfo",
                 "referrer", "permissions"}

Response == [code : 100..599, toHTTPS : BOOLEAN, headers : SUBSET HeaderTokens]

HeaderChecks ==
  [name   : {"redirect", "hsts", "csp", "xcto", "frame", "referrer", "permissions"},
   status : {"pass", "fail", "warn", "info"}]

HeaderStatus(present, missing) == IF present THEN "pass" ELSE missing

HeaderCheck(name, present, missing) ==
  [name |-> name, status |-> HeaderStatus(present, missing)]

\* A redirect counts only with a 3xx status.
RedirectsHTTPS(resp) == resp.code \in 300..399 /\ resp.toHTTPS

Carries(resp, tokens) == resp.headers \cap tokens # {}

AnalyzeHTTPHeaders(resp, plaintext) ==
  IF plaintext
  THEN {HeaderCheck("redirect", RedirectsHTTPS(resp), "fail")}
  ELSE {HeaderCheck("hsts", Carries(resp, {"hsts"}), "warn"),
        HeaderCheck("csp", Carries(resp, {"csp", "csp_frame"}), "warn"),
        HeaderCheck("xcto", Carries(resp, {"nosniff"}), "warn"),
        HeaderCheck("frame", Carries(resp, {"xfo", "csp_frame"}), "warn"),
        HeaderCheck("referrer", Carries(resp, {"referrer"}), "info"),
        HeaderCheck("permissions", Carries(resp, {"permissions"}), "info")}
=============================================================================
