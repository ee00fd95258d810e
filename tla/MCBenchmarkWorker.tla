--------------------------- MODULE MCBenchmarkWorker ---------------------------
EXTENDS BenchmarkWorker
=============================================================================
