------------------------------- MODULE MCAnalysis -------------------------------
(* All kinds of artifact; the other storage kinds are treated like pip_cache. *)
EXTENDS Analysis

MCArtifacts ==
  {"pycache", "pytest_cache", "mypy_cache", "ruff_cache", "python_venv", "node_modules",
   "dist", "build", "next_build", "pip_cache"}
===============================================================================
