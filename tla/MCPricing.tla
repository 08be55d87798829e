----------------------------- MODULE MCPricing -----------------------------
(* An instance type of AWS in a region that is known, and a line rate of GCP,  *)
(* whose catalogue comes in pages: two clouds that fail on their own.          *)
EXTENDS Pricing

CONSTANTS vm, rate

Cloud == [s \in Skus |-> IF s = vm THEN "aws" ELSE "gcp"]
=============================================================================
