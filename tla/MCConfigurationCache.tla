------------------------- MODULE MCConfigurationCache -------------------------
EXTENDS ConfigurationCache
==============================================================================
