----------------------------- MODULE MCUploads -----------------------------
\* Uploads as TLC checks it; the constants are in uploads.cfg.
EXTENDS Uploads
=============================================================================
